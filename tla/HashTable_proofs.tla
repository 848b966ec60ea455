--------------------------- MODULE HashTable_proofs ---------------------------
(***************************************************************************)
(* Theorems about the hash table of libchash, for any keys and data, any   *)
(* hashes and goals, and groups and tables of any size.                    *)
(***************************************************************************)
EXTENDS HashTable, FiniteSetTheorems, SequenceTheorems, WellFoundedInduction, TLAPS

-------------------------------------------------------------------------------
(* Numbers *)

LEMMA MinimalNumber ==
    ASSUME NEW R, IsWellFoundedOn(R, Nat), NEW T, T \subseteq Nat, T # {}
    PROVE  \E n \in T : \A m \in T : ~(<<m, n>> \in R)
  BY WFMin

LEMMA LeastBy ==
    ASSUME NEW R, IsWellFoundedOn(R, Nat), \A m, n \in Nat : m < n => <<m, n>> \in R,
           NEW T \in SUBSET Nat, T # {}
    PROVE  \E n \in T : \A m \in T : n <= m
<1>1. PICK n \in T : \A m \in T : ~(<<m, n>> \in R)
  BY MinimalNumber
<1>2. ASSUME NEW m \in T PROVE n <= m
  <2>1. m \in Nat /\ n \in Nat
    OBVIOUS
  <2>2. m < n => <<m, n>> \in R
    BY <2>1
  <2> QED BY <1>1, <2>1, <2>2
<1> QED BY <1>2

LEMMA LeastExists ==
    ASSUME NEW T \in SUBSET Nat, T # {}
    PROVE  \E n \in T : \A m \in T : n <= m
<1>1. \A m, n \in Nat : m < n => <<m, n>> \in OpToRel(<, Nat)
  BY DEF OpToRel
<1> QED BY <1>1, NatLessThanWellFounded, LeastBy

Divides(d, n) == \E q \in Int : n = d * q

LEMMA ModIs ==
    ASSUME NEW n \in Int, NEW d \in Nat \ {0}
    PROVE  /\ n \div d \in Int /\ n % d \in 0 .. d - 1
           /\ n = (d * (n \div d)) + (n % d)
  OBVIOUS

LEMMA ModUnique ==
    ASSUME NEW n \in Int, NEW d \in Nat \ {0}, NEW q \in Int, NEW r \in 0 .. d - 1,
           n = (d * q) + r
    PROVE  n % d = r /\ n \div d = q
<1>1. PICK u \in Int, v \in 0 .. d - 1 : u = n \div d /\ v = n % d
  BY ModIs
<1>2. (d * u) + v = (d * q) + r
  BY <1>1, ModIs
<1>3. d * (u - q) = r - v
  BY <1>2
<1>4. ~(u - q >= 1)
  <2>1. u - q >= 1 => d * (u - q) >= d
    OBVIOUS
  <2> QED BY <1>3, <2>1
<1>5. ~(q - u >= 1)
  <2>1. q - u >= 1 => d * (q - u) >= d
    OBVIOUS
  <2>2. d * (q - u) = v - r
    BY <1>2
  <2> QED BY <2>1, <2>2
<1>6. u = q
  BY <1>4, <1>5
<1> QED BY <1>1, <1>2, <1>6

LEMMA DividesIs ==
    ASSUME NEW n \in Int, NEW d \in Nat \ {0}
    PROVE  n % d = 0 <=> Divides(d, n)
<1>1. ASSUME n % d = 0 PROVE Divides(d, n)
  <2>1. PICK q \in Int, r \in Int : q = n \div d /\ r = n % d
    BY ModIs
  <2>2. n = (d * q) + r /\ r = 0
    BY <1>1, <2>1, ModIs
  <2>3. n = d * q
    BY <2>2
  <2> QED BY <2>3 DEF Divides
<1>2. ASSUME NEW q \in Int, n = d * q PROVE n % d = 0
  <2>1. 0 \in 0 .. d - 1 /\ n = (d * q) + 0
    BY <1>2
  <2> QED BY <2>1, ModUnique
<1> QED BY <1>1, <1>2 DEF Divides

LEMMA SameRest ==
    ASSUME NEW m \in Int, NEW n \in Int, NEW d \in Nat \ {0}, m % d = n % d
    PROVE  Divides(d, m - n)
<1>1. m - n = d * ((m \div d) - (n \div d))
  <2>1. PICK u \in Int, v \in Int, r \in Int, s \in Int :
            u = m \div d /\ v = n \div d /\ r = m % d /\ s = n % d
    BY ModIs
  <2>2. m = (d * u) + r /\ n = (d * v) + s
    BY <2>1, ModIs
  <2>3. m - n = d * (u - v)
    BY <2>1, <2>2
  <2> QED BY <2>1, <2>3
<1>2. (m \div d) - (n \div d) \in Int
  BY ModIs
<1> QED BY <1>1, <1>2 DEF Divides

(* A power of 2 is 1 or twice another.                                       *)
LEMMA Half ==
    ASSUME NEW p, PowerOf2(p), p # 1
    PROVE  \E q \in Nat \ {0} : PowerOf2(q) /\ p = 2 * q
<1>1. p \in Nat \ {0} /\ p \in 1 .. p
  BY DEF PowerOf2
<1>2. p % p = 0
  <2>1. p = p * 1
    BY <1>1
  <2> QED BY <1>1, <2>1, DividesIs DEF Divides
<1>3. p % 2 = 0
  BY <1>1, <1>2 DEF PowerOf2
<1>4. PICK q \in Int : p = 2 * q
  BY <1>1, <1>3
<1>5. q \in Nat \ {0}
  BY <1>1, <1>4
<1>6. ASSUME NEW d \in 1 .. q, q % d = 0 PROVE d = 1 \/ d % 2 = 0
  <2>1. PICK k \in Int : q = d * k
    <3>1. d \in Nat \ {0}
      BY <1>5
    <3>2. Divides(d, q)
      BY <1>5, <1>6, <3>1, DividesIs
    <3> QED BY <3>2 DEF Divides
  <2>2. p = d * (2 * k) /\ 2 * k \in Int /\ d \in 1 .. p /\ d \in Nat \ {0}
    BY <1>4, <1>5, <2>1
  <2>3. p % d = 0
    BY <1>1, <2>2, DividesIs DEF Divides
  <2> QED BY <2>2, <2>3 DEF PowerOf2
<1> QED BY <1>4, <1>5, <1>6 DEF PowerOf2

LEMMA EvenFactor ==
    ASSUME NEW a \in Int, NEW b \in Int, NEW c \in Int, a % 2 # 0, a * b = 2 * c
    PROVE  \E k \in Int : b = 2 * k
<1>1. PICK u \in Int : a = (2 * u) + 1
  <2>1. a % 2 = 1 /\ a = (2 * (a \div 2)) + (a % 2) /\ a \div 2 \in Int
    BY ModIs
  <2> QED BY <2>1
<1>2. a * b = (2 * (u * b)) + b
  BY <1>1
<1>3. b = 2 * (c - (u * b)) /\ c - (u * b) \in Int
  BY <1>2
<1> QED BY <1>3

LEMMA Double ==
    ASSUME NEW q, PowerOf2(q)
    PROVE  PowerOf2(2 * q)
<1>1. q \in Nat \ {0} /\ 2 * q \in Nat \ {0}
  BY DEF PowerOf2
<1>2. ASSUME NEW d \in 1 .. 2 * q, (2 * q) % d = 0, d % 2 # 0 PROVE d = 1
  <2>1. d \in Nat \ {0}
    BY <1>1
  <2>2. PICK k \in Int : 2 * q = d * k
    <3>1. Divides(d, 2 * q)
      BY <1>1, <1>2, <2>1, DividesIs
    <3> QED BY <3>1 DEF Divides
  <2>3. PICK m \in Int : k = 2 * m
    <3>1. d \in Int /\ q \in Int /\ d % 2 # 0 /\ d * k = 2 * q
      BY <1>1, <1>2, <2>1, <2>2
    <3> QED BY <3>1, EvenFactor
  <2>4. q = d * m
    <3>1. 2 * q = 2 * (d * m)
      BY <2>1, <2>2, <2>3
    <3>2. d * m \in Int
      BY <2>1
    <3> QED BY <1>1, <3>1, <3>2
  <2>5. m >= 1
    <3>1. m <= 0 => d * m <= 0
      BY <2>1
    <3> QED BY <1>1, <2>4, <3>1
  <2>6. d <= q
    <3>1. d * m >= d
      BY <2>1, <2>5
    <3> QED BY <2>4, <3>1
  <2>7. q % d = 0
    BY <1>1, <2>1, <2>4, DividesIs DEF Divides
  <2> QED BY <1>2, <2>1, <2>6, <2>7 DEF PowerOf2
<1> QED BY <1>1, <1>2 DEF PowerOf2

LEMMA OneIsPower == PowerOf2(1) /\ PowerOf2(2)
<1>1. PowerOf2(1)
  BY DEF PowerOf2
<1> QED BY <1>1, Double

(* What a power of 2 divides in a product with an odd number it divides in   *)
(* the other factor.                                                         *)
LEMMA OddFactor ==
    ASSUME NEW p, PowerOf2(p), NEW a \in Int, NEW b \in Int, a % 2 # 0, Divides(p, a * b)
    PROVE  Divides(p, b)
<1> DEFINE Fails(r) == \E c \in Int : Divides(r, a * c) /\ ~Divides(r, c)
           T == {r \in Nat : PowerOf2(r) /\ Fails(r)}
<1>1. CASE T = {}
  <2>1. p \in Nat
    BY DEF PowerOf2
  <2> QED BY <1>1, <2>1
<1>2. CASE T # {}
  <2>1. PICK r \in T : \A s \in T : r <= s
    <3> HIDE DEF T
    <3>1. T \in SUBSET Nat
      BY DEF T
    <3> QED BY <1>2, <3>1, LeastExists
  <2>2. PICK c \in Int : Divides(r, a * c) /\ ~Divides(r, c)
    BY <2>1
  <2>3. r # 1
    <3>1. c = 1 * c
      OBVIOUS
    <3> QED BY <2>2, <3>1 DEF Divides
  <2>4. PICK q \in Nat \ {0} : PowerOf2(q) /\ r = 2 * q
    BY <2>1, <2>3, Half
  <2>5. PICK k \in Int : a * c = r * k
    BY <2>2 DEF Divides
  <2>6. a * c = 2 * (q * k) /\ q * k \in Int
    BY <2>4, <2>5
  <2>7. PICK e \in Int : c = 2 * e
    <3>1. PICK m \in Int : m = q * k
      BY <2>6
    <3>2. a * c = 2 * m
      BY <2>6, <3>1
    <3> QED BY <3>1, <3>2, EvenFactor
  <2>8. a * e = q * k
    <3>1. 2 * (a * e) = 2 * (q * k) /\ a * e \in Int
      BY <2>6, <2>7
    <3> QED BY <2>6, <3>1
  <2>9. q \notin T
    BY <2>1, <2>4
  <2>10. Divides(q, e)
    BY <2>4, <2>8, <2>9 DEF Divides
  <2>11. PICK f \in Int : e = q * f
    BY <2>10 DEF Divides
  <2>12. c = r * f
    BY <2>4, <2>7, <2>11
  <2> QED BY <2>2, <2>12 DEF Divides
<1> QED BY <1>1, <1>2

(* There is a power of 2 above x and not above 2 * x.                        *)
LEMMA NextPow2Is ==
    ASSUME NEW x \in Nat \ {0}
    PROVE  PowerOf2(NextPow2(x)) /\ NextPow2(x) > x /\ NextPow2(x) <= 2 * x
<1> DEFINE Found(y) == \E p \in y + 1 .. 2 * y : PowerOf2(p)
           T == {y \in Nat \ {0} : ~Found(y)}
<1>1. CASE T = {}
  <2>1. \E p \in x + 1 .. 2 * x : PowerOf2(p)
    BY <1>1
  <2> QED BY <2>1 DEF NextPow2
<1>2. CASE T # {}
  <2>1. PICK y \in T : \A z \in T : y <= z
    <3> HIDE DEF T
    <3>1. T \in SUBSET Nat
      BY DEF T
    <3> QED BY <1>2, <3>1, LeastExists
  <2>2. y # 1
    <3>1. 2 \in 1 + 1 .. 2 * 1
      OBVIOUS
    <3> QED BY <2>1, <3>1, OneIsPower
  <2>3. y - 1 \in Nat \ {0} /\ y - 1 \notin T
    BY <2>1, <2>2
  <2>4. PICK p \in (y - 1) + 1 .. 2 * (y - 1) : PowerOf2(p)
    BY <2>3
  <2>5. CASE p = y
    <3>1. 2 * y \in y + 1 .. 2 * y /\ PowerOf2(2 * y)
      BY <2>1, <2>4, <2>5, Double
    <3> QED BY <2>1, <3>1
  <2>6. CASE p # y
    <3>1. p \in y + 1 .. 2 * y
      BY <2>1, <2>4, <2>6
    <3> QED BY <2>1, <2>4, <3>1
  <2> QED BY <2>5, <2>6
<1> QED BY <1>1, <1>2

(* A power of 2 divides each larger one.                                     *)
LEMMA PowersDivide ==
    ASSUME NEW a, NEW b, PowerOf2(a), PowerOf2(b), a <= b
    PROVE  Divides(a, b)
<1> DEFINE Fails(c) == \E d \in Nat : PowerOf2(d) /\ c <= d /\ ~Divides(c, d)
           T == {c \in Nat : PowerOf2(c) /\ Fails(c)}
<1>1. CASE T = {}
  BY <1>1 DEF PowerOf2
<1>2. CASE T # {}
  <2>1. PICK c \in T : \A z \in T : c <= z
    <3> HIDE DEF T
    <3>1. T \in SUBSET Nat
      BY DEF T
    <3> QED BY <1>2, <3>1, LeastExists
  <2>2. PICK d \in Nat : PowerOf2(d) /\ c <= d /\ ~Divides(c, d)
    BY <2>1
  <2>3. c # 1
    <3>1. d = 1 * d
      OBVIOUS
    <3> QED BY <2>2, <3>1 DEF Divides
  <2>4. PICK e \in Nat \ {0} : PowerOf2(e) /\ c = 2 * e
    BY <2>1, <2>3, Half
  <2>5. PICK f \in Nat \ {0} : PowerOf2(f) /\ d = 2 * f
    BY <2>2, <2>4, Half
  <2>6. e <= f /\ e \notin T
    BY <2>1, <2>2, <2>4, <2>5
  <2>7. PICK q \in Int : f = e * q
    BY <2>4, <2>5, <2>6 DEF Divides
  <2>8. d = c * q
    BY <2>4, <2>5, <2>7
  <2> QED BY <2>2, <2>8 DEF Divides
<1> QED BY <1>1, <1>2

-------------------------------------------------------------------------------
(* Probing *)

LEMMA JumpIs ==
    ASSUME NEW i \in Nat
    PROVE  /\ (i * (i + 1)) \div 2 \in Nat
           /\ 2 * ((i * (i + 1)) \div 2) = i * (i + 1)
<1>1. PICK u \in Nat : i = 2 * u \/ i = (2 * u) + 1
  <2>1. i = (2 * (i \div 2)) + (i % 2) /\ i % 2 \in 0 .. 1 /\ i \div 2 \in Nat
    OBVIOUS
  <2> QED BY <2>1
<1>2. PICK n \in Nat : i * (i + 1) = 2 * n
  <2>1. CASE i = 2 * u
    <3>1. i * (i + 1) = 2 * (u * (i + 1)) /\ u * (i + 1) \in Nat
      BY <2>1
    <3> QED BY <3>1
  <2>2. CASE i = (2 * u) + 1
    <3>1. i + 1 = 2 * (u + 1)
      BY <2>2
    <3>2. i * (i + 1) = 2 * (i * (u + 1)) /\ i * (u + 1) \in Nat
      BY <3>1
    <3> QED BY <3>2
  <2> QED BY <1>1, <2>1, <2>2
<1>3. (2 * n) \div 2 = n
  BY <1>2
<1> QED BY <1>2, <1>3

LEMMA HashIs ==
    ASSUME NEW key \in Keys, NEW c \in Nat \ {0}
    PROVE  Hash(key, c) \in Nat
<1>1. PICK n \in Nat : n = HashOf[key]
  BY HashTableAssumption
<1>2. n % c \in 0 .. c - 1
  BY ModIs
<1>3. n % c \in Nat
  BY <1>2
<1> QED BY <1>1, <1>3 DEF Hash

(* A number that m divides is 0, or not between - m and m.                   *)
LEMMA NotBetween ==
    ASSUME NEW m \in Nat, NEW n \in Nat, 0 < n, n < m
    PROVE  ~Divides(m, n)
<1> SUFFICES ASSUME NEW q \in Int, n = m * q PROVE FALSE
  BY DEF Divides
<1>1. q >= 1 => m * q >= m
  OBVIOUS
<1>2. q <= 0 => m * q <= 0
  OBVIOUS
<1> QED BY <1>1, <1>2

(* Quadratic probing in a table of a power of 2 comes to no bucket twice in  *)
(* as many probes as there are buckets.                                      *)
LEMMA ProbesDiffer ==
    ASSUME NEW key \in Keys, NEW c, PowerOf2(c),
           NEW i \in 0 .. c - 1, NEW j \in 0 .. c - 1, i < j
    PROVE  Probe(key, i, c) # Probe(key, j, c)
<1> SUFFICES ASSUME Probe(key, i, c) = Probe(key, j, c) PROVE FALSE
  OBVIOUS
<1>1. c \in Nat \ {0} /\ i \in Nat /\ j \in Nat
  BY DEF PowerOf2
<1>2. PICK a \in Nat, b \in Nat, h \in Nat :
          /\ a = (i * (i + 1)) \div 2 /\ b = (j * (j + 1)) \div 2
          /\ h = Hash(key, c)
  <2>1. Hash(key, c) \in Nat
    BY <1>1, HashIs
  <2> QED BY <1>1, <2>1, JumpIs
<1>3. 2 * a = i * (i + 1) /\ 2 * b = j * (j + 1)
  BY <1>1, <1>2, JumpIs
<1>4. (h + b) % c = (h + a) % c
  BY <1>2 DEF Probe
<1>5. PICK q \in Int : (h + b) - (h + a) = c * q
  <2>1. h + b \in Int /\ h + a \in Int
    BY <1>2
  <2> QED BY <1>1, <1>4, <2>1, SameRest DEF Divides
<1>6. (j - i) * (i + j + 1) = (2 * c) * q
  <2>1. b - a = c * q
    BY <1>2, <1>5
  <2>2. 2 * (b - a) = (2 * c) * q
    BY <1>1, <1>2, <2>1
  <2>3. (j - i) * (i + j + 1) = (j * (j + 1)) - (i * (i + 1))
    BY <1>1
  <2> QED BY <1>2, <1>3, <2>2, <2>3
<1>7. PowerOf2(2 * c) /\ 2 * c \in Nat
  BY <1>1, Double
<1>8. PICK x \in Int, y \in Int : x = j - i /\ y = i + j + 1
  BY <1>1
<1>9. 0 < x /\ x < 2 * c /\ 0 < y /\ y < 2 * c /\ x \in Nat /\ y \in Nat
  BY <1>1, <1>8
<1>10. Divides(2 * c, x * y) /\ Divides(2 * c, y * x)
  <2>1. x * y = y * x /\ x * y = (2 * c) * q
    BY <1>6, <1>8
  <2> QED BY <2>1 DEF Divides
<1>11. CASE x % 2 # 0
  BY <1>7, <1>9, <1>10, <1>11, OddFactor, NotBetween
<1>12. CASE x % 2 = 0
  <2>1. y = x + (2 * i) + 1
    BY <1>1, <1>8
  <2>2. y % 2 # 0
    BY <1>1, <1>12, <2>1
  <2> QED BY <1>7, <1>9, <1>10, <2>2, OddFactor, NotBetween
<1> QED BY <1>11, <1>12

LEMMA ProbeIs ==
    ASSUME NEW key \in Keys, NEW c, PowerOf2(c), NEW i \in Nat
    PROVE  Probe(key, i, c) \in 0 .. c - 1
<1>1. c \in Nat \ {0}
  BY DEF PowerOf2
<1>2. Hash(key, c) \in Nat
  BY <1>1, HashIs
<1>3. (i * (i + 1)) \div 2 \in Nat
  BY JumpIs
<1>4. Hash(key, c) + ((i * (i + 1)) \div 2) \in Int
  BY <1>2, <1>3
<1> QED BY <1>1, <1>4, ModIs DEF Probe

(* So it comes to every bucket.                                              *)
LEMMA ProbesReachAll ==
    ASSUME NEW key \in Keys, NEW c, PowerOf2(c), NEW l \in 0 .. c - 1
    PROVE  \E i \in 0 .. c - 1 : Probe(key, i, c) = l
<1> DEFINE f == [i \in 0 .. c - 1 |-> Probe(key, i, c)]
<1>1. c \in Nat \ {0}
  BY DEF PowerOf2
<1>2. ASSUME NEW i \in 0 .. c - 1 PROVE Probe(key, i, c) \in 0 .. c - 1
  <2>1. i \in Nat
    BY <1>1
  <2> QED BY <2>1, ProbeIs
<1>3. f \in [0 .. c - 1 -> 0 .. c - 1]
  BY <1>2
<1>4. \A i, j \in 0 .. c - 1 : f[i] = f[j] => i = j
  <2> SUFFICES ASSUME NEW i \in 0 .. c - 1, NEW j \in 0 .. c - 1, i # j PROVE f[i] # f[j]
    OBVIOUS
  <2>1. i < j \/ j < i
    BY <1>1
  <2>2. Probe(key, i, c) # Probe(key, j, c)
    BY <2>1, ProbesDiffer
  <2> QED BY <2>2
<1> HIDE DEF f
<1>5. f \in Injection(0 .. c - 1, 0 .. c - 1)
  BY <1>3, <1>4 DEF Injection, IsInjective
<1>6. IsFiniteSet(0 .. c - 1)
  BY <1>1, FS_Interval
<1>7. f \in Surjection(0 .. c - 1, 0 .. c - 1)
  BY <1>5, <1>6, FS_Injection
<1>8. PICK i \in 0 .. c - 1 : f[i] = l
  BY <1>7 DEF Surjection
<1> QED BY <1>8 DEF f

-------------------------------------------------------------------------------
(* The sparse array *)

(* As many items as bits.                                                    *)
Group == {g \in SparseBin : Len(g.items) = Cardinality(g.bmOccupied)}

Locations(t) == 0 .. Buckets(t) - 1

LEMMA GroupSizeIs == GroupSize \in Nat \ {0}
  BY HashTableAssumption DEF PowerOf2

LEMMA TableIs ==
    ASSUME NEW t \in Seq(Group)
    PROVE  /\ Len(t) \in Nat /\ DOMAIN t = 1 .. Len(t) /\ t \in [1 .. Len(t) -> Group]
           /\ Buckets(t) \in Nat
<1>1. Len(t) \in Nat /\ DOMAIN t = 1 .. Len(t) /\ t \in [1 .. Len(t) -> Group]
  BY LenProperties
<1> QED BY <1>1, GroupSizeIs DEF Buckets

LEMMA GroupIs ==
    ASSUME NEW t \in Seq(Group), NEW g \in DOMAIN t
    PROVE  /\ t[g] \in Group
           /\ t[g].items \in Seq(Item) /\ Len(t[g].items) \in Nat
           /\ DOMAIN t[g].items = 1 .. Len(t[g].items)
           /\ t[g].bmOccupied \subseteq 0 .. GroupSize - 1
           /\ IsFiniteSet(t[g].bmOccupied)
           /\ Len(t[g].items) = Cardinality(t[g].bmOccupied)
           /\ Len(t[g].items) <= GroupSize
<1>1. t[g] \in Group
  BY TableIs
<1>2. /\ t[g].items \in Seq(Item)
      /\ t[g].bmOccupied \subseteq 0 .. GroupSize - 1
      /\ Len(t[g].items) = Cardinality(t[g].bmOccupied)
  BY <1>1 DEF Group, SparseBin
<1>3. IsFiniteSet(0 .. GroupSize - 1) /\ Cardinality(0 .. GroupSize - 1) = GroupSize
  BY GroupSizeIs, FS_Interval
<1>4. IsFiniteSet(t[g].bmOccupied) /\ Cardinality(t[g].bmOccupied) <= GroupSize
  BY <1>2, <1>3, FS_Subset
<1>5. Len(t[g].items) \in Nat /\ DOMAIN t[g].items = 1 .. Len(t[g].items)
  BY <1>2, LenProperties
<1> QED BY <1>1, <1>2, <1>4, <1>5

LEMMA PlaceIs ==
    ASSUME NEW t \in Seq(Group), NEW l \in Locations(t)
    PROVE  /\ GroupOf(l) \in DOMAIN t
           /\ PositionOf(l) \in 0 .. GroupSize - 1
           /\ l = (GroupSize * (GroupOf(l) - 1)) + PositionOf(l)
<1>1. PICK n \in Nat, s \in Nat \ {0} : n = Len(t) /\ s = GroupSize /\ DOMAIN t = 1 .. n
  BY TableIs, GroupSizeIs
<1>2. l \in Int /\ 0 <= l /\ l < n * s
  BY <1>1 DEF Locations, Buckets
<1>3. PICK q \in Int, r \in 0 .. s - 1 : q = l \div s /\ r = l % s
  BY <1>1, <1>2, ModIs
<1>4. l = (s * q) + r
  BY <1>2, <1>3, ModIs
<1>5. q >= 0
  <2>1. q <= -1 => s * q <= s * (-1)
    OBVIOUS
  <2> QED BY <1>2, <1>3, <1>4, <2>1
<1>6. q < n
  <2>1. q >= n => s * q >= s * n
    OBVIOUS
  <2> QED BY <1>2, <1>3, <1>4, <2>1
<1> QED BY <1>1, <1>3, <1>4, <1>5, <1>6 DEF GroupOf, PositionOf

LEMMA PlaceOf ==
    ASSUME NEW t \in Seq(Group), NEW g \in DOMAIN t, NEW x \in 0 .. GroupSize - 1
    PROVE  \E l \in Locations(t) : GroupOf(l) = g /\ PositionOf(l) = x
<1>1. PICK n \in Nat, s \in Nat \ {0} : n = Len(t) /\ s = GroupSize /\ DOMAIN t = 1 .. n
  BY TableIs, GroupSizeIs
<1>2. PICK q \in Nat : q = g - 1 /\ q <= n - 1
  BY <1>1
<1>3. PICK l \in Int : l = (s * q) + x
  BY <1>1
<1>4. l >= 0 /\ l < n * s
  <2>1. s * q >= 0 /\ s * q <= s * (n - 1) /\ s * (n - 1) = (n * s) - s
    BY <1>2
  <2> QED BY <1>1, <1>3, <2>1
<1>5. l \in Locations(t)
  BY <1>1, <1>3, <1>4 DEF Locations, Buckets
<1>6. l % s = x /\ l \div s = q
  BY <1>1, <1>3, ModUnique
<1>7. GroupOf(l) = q + 1 /\ PositionOf(l) = x
  BY <1>1, <1>6 DEF GroupOf, PositionOf
<1>8. q + 1 = g
  BY <1>1, <1>2
<1> QED BY <1>5, <1>7, <1>8

LEMMA PointersAre ==
    ASSUME NEW t \in Seq(Group)
    PROVE  /\ \A p : p \in Pointers(t) <=>
                  p = <<p[1], p[2]>> /\ p[1] \in DOMAIN t /\ p[2] \in 1 .. Len(t[p[1]].items)
           /\ \A g \in DOMAIN t : \A o \in 1 .. Len(t[g].items) : <<g, o>> \in Pointers(t)
           /\ Pointers(t) \subseteq Nat \X Nat
           /\ IsFiniteSet(Pointers(t))
           /\ Cardinality(Pointers(t)) \in Nat
<1>1. \A g \in DOMAIN t : DOMAIN t[g].items = 1 .. Len(t[g].items)
  BY GroupIs
<1>2. \A p : p \in Pointers(t) <=>
          p = <<p[1], p[2]>> /\ p[1] \in DOMAIN t /\ p[2] \in 1 .. Len(t[p[1]].items)
  BY <1>1 DEF Pointers
<1>3. \A g \in DOMAIN t : \A o \in 1 .. Len(t[g].items) : <<g, o>> \in Pointers(t)
  BY <1>2
<1>4. Pointers(t) \subseteq (1 .. Len(t)) \X (1 .. GroupSize)
  <2> SUFFICES ASSUME NEW p \in Pointers(t)
               PROVE  p \in (1 .. Len(t)) \X (1 .. GroupSize)
    OBVIOUS
  <2>1. p = <<p[1], p[2]>> /\ p[1] \in DOMAIN t /\ p[2] \in 1 .. Len(t[p[1]].items)
    BY <1>2
  <2>2. p[1] \in 1 .. Len(t)
    BY <2>1, TableIs
  <2>3. p[2] \in 1 .. GroupSize
    <3>1. Len(t[p[1]].items) \in Nat /\ Len(t[p[1]].items) <= GroupSize
      BY <2>1, GroupIs
    <3> QED BY <2>1, <3>1, GroupSizeIs
  <2> QED BY <2>1, <2>2, <2>3
<1>5. IsFiniteSet((1 .. Len(t)) \X (1 .. GroupSize))
  <2>1. IsFiniteSet(1 .. Len(t)) /\ IsFiniteSet(1 .. GroupSize)
    BY TableIs, GroupSizeIs, FS_Interval
  <2> QED BY <2>1, FS_Product
<1>6. IsFiniteSet(Pointers(t))
  BY <1>4, <1>5, FS_Subset
<1>7. Cardinality(Pointers(t)) \in Nat
  BY <1>6, FS_CardinalityType
<1>8. (1 .. Len(t)) \X (1 .. GroupSize) \subseteq Nat \X Nat
  OBVIOUS
<1>9. Pointers(t) \subseteq Nat \X Nat
  BY <1>4, <1>8, Zenon
<1> QED BY <1>2, <1>3, <1>6, <1>7, <1>9

LEMMA LiveAre ==
    ASSUME NEW t \in Seq(Group)
    PROVE  /\ LivePointers(t) \subseteq Pointers(t)
           /\ IsFiniteSet(LivePointers(t))
           /\ Cardinality(LivePointers(t)) \in Nat
           /\ Cardinality(LivePointers(t)) <= Cardinality(Pointers(t))
<1>1. LivePointers(t) \in SUBSET Pointers(t)
  BY DEF LivePointers
<1>2. IsFiniteSet(LivePointers(t)) /\ Cardinality(LivePointers(t)) <= Cardinality(Pointers(t))
  BY <1>1, PointersAre, FS_Subset
<1> QED BY <1>1, <1>2, FS_CardinalityType

LEMMA DerefIs ==
    ASSUME NEW t \in Seq(Group), NEW p \in Pointers(t)
    PROVE  Deref(t, p) \in Item
<1>1. p[1] \in DOMAIN t /\ p[2] \in 1 .. Len(t[p[1]].items)
  BY PointersAre
<1>2. t[p[1]].items \in Seq(Item)
  BY <1>1, GroupIs
<1> QED BY <1>1, <1>2, ElementOfSeq DEF Deref

(* Where the item of a bucket is.                                            *)
LEMMA EntriesAre ==
    ASSUME NEW bm, IsFiniteSet(bm), NEW x \in Int
    PROVE  /\ EntriesUpto(bm, x) \in 0 .. Cardinality(bm)
           /\ x \in bm => EntriesUpto(bm, x) < Cardinality(bm)
<1> DEFINE below == {j \in bm : j < x}
<1>1. below \in SUBSET bm
  OBVIOUS
<1>2. /\ IsFiniteSet(below) /\ Cardinality(below) <= Cardinality(bm)
      /\ Cardinality(bm) = Cardinality(below) => bm = below
  BY <1>1, FS_Subset
<1>3. Cardinality(below) \in Nat /\ Cardinality(bm) \in Nat
  BY <1>2, FS_CardinalityType
<1>4. x \in bm => bm # below
  OBVIOUS
<1> QED BY <1>2, <1>3, <1>4 DEF EntriesUpto

LEMMA PointerIs ==
    ASSUME NEW t \in Seq(Group), NEW l \in Locations(t)
    PROVE  \E g \in DOMAIN t : \E o \in 1 .. Len(t[g].items) + 1 :
              /\ g = GroupOf(l)
              /\ Pointer(t, l) = <<g, o>>
              /\ ~SparseIsEmpty(t, l) => o <= Len(t[g].items) /\ Pointer(t, l) \in Pointers(t)
<1>1. PICK g \in DOMAIN t : g = GroupOf(l)
  BY PlaceIs
<1>2. PICK x \in Int : x = PositionOf(l)
  BY PlaceIs
<1>3. PICK o \in Int : o = EntriesUpto(t[g].bmOccupied, x) + 1
  <2>1. PICK bm : bm = t[g].bmOccupied /\ IsFiniteSet(bm)
    BY GroupIs
  <2>2. EntriesUpto(bm, x) \in 0 .. Cardinality(bm) /\ Cardinality(bm) \in Nat
    BY <2>1, EntriesAre, FS_CardinalityType
  <2>3. EntriesUpto(bm, x) \in Int
    BY <2>2
  <2> QED BY <2>1, <2>3
<1>4. Pointer(t, l) = <<g, o>>
  BY <1>1, <1>2, <1>3 DEF Pointer
<1>5. o \in 1 .. Len(t[g].items) + 1 /\ (x \in t[g].bmOccupied => o <= Len(t[g].items))
  <2>1. IsFiniteSet(t[g].bmOccupied)
    BY GroupIs
  <2>2. PICK e \in Int, n \in Nat :
            e = EntriesUpto(t[g].bmOccupied, x) /\ n = Cardinality(t[g].bmOccupied)
    BY <2>1, EntriesAre, FS_CardinalityType
  <2>3. e \in 0 .. n /\ (x \in t[g].bmOccupied => e < n)
    BY <2>1, <2>2, EntriesAre
  <2>4. Len(t[g].items) = n /\ o = e + 1
    BY <1>3, <2>2, GroupIs
  <2> QED BY <2>3, <2>4
<1>6. ~SparseIsEmpty(t, l) => o <= Len(t[g].items) /\ <<g, o>> \in Pointers(t)
  <2>1. ASSUME ~SparseIsEmpty(t, l) PROVE o <= Len(t[g].items)
    BY <1>1, <1>2, <1>5, <2>1 DEF SparseIsEmpty
  <2>2. ASSUME ~SparseIsEmpty(t, l) PROVE <<g, o>> \in Pointers(t)
    <3>1. o \in 1 .. Len(t[g].items)
      BY <1>5, <2>1, <2>2, GroupIs
    <3> QED BY <3>1, PointersAre
  <2> QED BY <2>1, <2>2
<1> QED BY <1>1, <1>4, <1>5, <1>6

(* A table with fewer items than buckets has an empty bucket.                *)
LEMMA EmptyBucket ==
    ASSUME NEW t \in Seq(Group), Cardinality(Pointers(t)) < Buckets(t)
    PROVE  \E l \in Locations(t) : SparseIsEmpty(t, l)
<1> SUFFICES ASSUME \A l \in Locations(t) : ~SparseIsEmpty(t, l) PROVE FALSE
  OBVIOUS
<1>1. ASSUME NEW g \in DOMAIN t PROVE Len(t[g].items) = GroupSize
  <2>1. \A x \in 0 .. GroupSize - 1 : x \in t[g].bmOccupied
    BY PlaceOf DEF SparseIsEmpty
  <2>2. t[g].bmOccupied = 0 .. GroupSize - 1
    BY <2>1, GroupIs
  <2>3. Cardinality(0 .. GroupSize - 1) = GroupSize
    BY GroupSizeIs, FS_Interval
  <2> QED BY <2>2, <2>3, GroupIs
<1> DEFINE f == [l \in Locations(t) |-> <<GroupOf(l), PositionOf(l) + 1>>]
<1>2. ASSUME NEW l \in Locations(t) PROVE f[l] \in Pointers(t)
  <2>1. GroupOf(l) \in DOMAIN t /\ PositionOf(l) \in 0 .. GroupSize - 1
    BY PlaceIs
  <2>2. PositionOf(l) + 1 \in 1 .. Len(t[GroupOf(l)].items)
    BY <1>1, <2>1, GroupSizeIs
  <2>3. <<GroupOf(l), PositionOf(l) + 1>> \in Pointers(t)
    BY <2>1, <2>2, PointersAre
  <2> QED BY <2>3
<1>3. ASSUME NEW l \in Locations(t), NEW m \in Locations(t), f[l] = f[m] PROVE l = m
  <2>1. /\ PositionOf(l) \in 0 .. GroupSize - 1 /\ PositionOf(m) \in 0 .. GroupSize - 1
        /\ l = (GroupSize * (GroupOf(l) - 1)) + PositionOf(l)
        /\ m = (GroupSize * (GroupOf(m) - 1)) + PositionOf(m)
    BY PlaceIs
  <2>2. GroupOf(l) = GroupOf(m) /\ PositionOf(l) + 1 = PositionOf(m) + 1
    BY <1>3
  <2>3. PositionOf(l) = PositionOf(m)
    BY <2>1, <2>2
  <2> QED BY <2>1, <2>2, <2>3
<1>4. f \in [Locations(t) -> Pointers(t)]
  BY <1>2
<1>5. f \in Injection(Locations(t), Pointers(t))
  <2>1. \A l, m \in Locations(t) : f[l] = f[m] => l = m
    BY <1>3
  <2> HIDE DEF f
  <2> QED BY <1>4, <2>1 DEF Injection, IsInjective
<1> HIDE DEF f
<1>6. Cardinality(Locations(t)) <= Cardinality(Pointers(t))
  BY <1>5, PointersAre, FS_Injection
<1>7. Cardinality(Locations(t)) = Buckets(t)
  BY TableIs, FS_Interval DEF Locations
<1> QED BY <1>6, <1>7, PointersAre, TableIs

-------------------------------------------------------------------------------
(* Items put into the array *)

LEMMA InsertIs ==
    ASSUME NEW S, NEW s \in Seq(S), NEW i \in 1 .. Len(s) + 1, NEW e \in S
    PROVE  /\ InsertAt(s, i, e) \in Seq(S)
           /\ Len(InsertAt(s, i, e)) = Len(s) + 1
           /\ \A k \in 1 .. Len(s) + 1 :
                 InsertAt(s, i, e)[k] = IF k < i THEN s[k] ELSE IF k = i THEN e ELSE s[k - 1]
<1>1. Len(s) \in Nat /\ s \in [1 .. Len(s) -> S]
  BY LenProperties
<1>2. PICK a : a = SubSeq(s, 1, i - 1)
  OBVIOUS
<1>3. a \in Seq(S) /\ Len(a) = i - 1 /\ \A k \in 1 .. i - 1 : a[k] = s[k]
  <2>1. i - 1 \in Int /\ 1 \in Int /\ \A k \in 1 .. i - 1 : s[k] \in S
    BY <1>1
  <2> QED BY <1>1, <1>2, <2>1, SubSeqProperties
<1>4. PICK b : b = SubSeq(s, i, Len(s))
  OBVIOUS
<1>5. /\ b \in Seq(S) /\ Len(b) = Len(s) - i + 1
      /\ \A k \in 1 .. Len(s) - i + 1 : b[k] = s[i + k - 1]
  <2>1. i \in Int /\ Len(s) \in Int /\ \A k \in i .. Len(s) : s[k] \in S
    BY <1>1
  <2> QED BY <1>1, <1>4, <2>1, SubSeqProperties
<1>6. PICK m : m = <<e>>
  OBVIOUS
<1>7. m \in Seq(S) /\ Len(m) = 1 /\ m[1] = e
  BY <1>6
<1>8. PICK c : c = a \o m
  OBVIOUS
<1>9. c \in Seq(S) /\ Len(c) = i /\ \A k \in 1 .. i : c[k] = IF k <= i - 1 THEN a[k] ELSE e
  <2>1. /\ c \in Seq(S) /\ Len(c) = Len(a) + Len(m)
        /\ \A k \in 1 .. Len(a) + Len(m) : c[k] = IF k <= Len(a) THEN a[k] ELSE m[k - Len(a)]
    BY <1>3, <1>7, <1>8, ConcatProperties
  <2>2. Len(a) + Len(m) = i
    BY <1>1, <1>3, <1>7
  <2>3. \A k \in 1 .. i : ~(k <= i - 1) => k - (i - 1) = 1
    BY <1>1
  <2> QED BY <1>3, <1>7, <2>1, <2>2, <2>3
<1>10. PICK d : d = c \o b
  OBVIOUS
<1>11. /\ d \in Seq(S) /\ Len(d) = Len(s) + 1
       /\ \A k \in 1 .. Len(s) + 1 : d[k] = IF k <= i THEN c[k] ELSE b[k - i]
  <2>1. /\ d \in Seq(S) /\ Len(d) = Len(c) + Len(b)
        /\ \A k \in 1 .. Len(c) + Len(b) : d[k] = IF k <= Len(c) THEN c[k] ELSE b[k - Len(c)]
    BY <1>5, <1>9, <1>10, ConcatProperties
  <2>2. Len(c) + Len(b) = Len(s) + 1
    BY <1>1, <1>5, <1>9
  <2> QED BY <1>9, <2>1, <2>2
<1>12. ASSUME NEW k \in 1 .. Len(s) + 1
       PROVE  d[k] = IF k < i THEN s[k] ELSE IF k = i THEN e ELSE s[k - 1]
  <2>1. CASE k < i
    <3>1. k \in 1 .. i - 1 /\ k \in 1 .. i /\ k <= i - 1 /\ k <= i
      BY <1>1, <2>1
    <3> QED BY <1>3, <1>9, <1>11, <2>1, <3>1
  <2>2. CASE k = i
    <3>1. k \in 1 .. i /\ ~(k <= i - 1) /\ k <= i
      BY <1>1, <2>2
    <3> QED BY <1>9, <1>11, <2>2, <3>1
  <2>3. CASE k > i
    <3>1. k - i \in 1 .. Len(s) - i + 1 /\ i + (k - i) - 1 = k - 1 /\ ~(k <= i) /\ ~(k < i) /\ k # i
      BY <1>1, <2>3
    <3> QED BY <1>5, <1>11, <3>1
  <2> QED BY <1>1, <2>1, <2>2, <2>3
<1>13. InsertAt(s, i, e) = d
  BY <1>2, <1>4, <1>6, <1>8, <1>10 DEF InsertAt
<1> QED BY <1>11, <1>12, <1>13

(* What writing to an item leaves of a table.                                *)
LEMMA StoreIs ==
    ASSUME NEW t \in Seq(Group), NEW p \in Pointers(t), NEW item \in Item
    PROVE  /\ Store(t, p, item) \in Seq(Group)
           /\ Buckets(Store(t, p, item)) = Buckets(t)
           /\ Pointers(Store(t, p, item)) = Pointers(t)
           /\ \A q \in Pointers(t) :
                 Deref(Store(t, p, item), q) = IF q = p THEN item ELSE Deref(t, q)
<1>1. PICK g, o : g \in DOMAIN t /\ o \in 1 .. Len(t[g].items) /\ p = <<g, o>>
  BY PointersAre
<1>2. PICK old : old = t[g].items
  OBVIOUS
<1>3. PICK new : new = [old EXCEPT ![o] = item]
  OBVIOUS
<1>4. /\ new \in Seq(Item) /\ Len(new) = Len(old)
      /\ \A k \in 1 .. Len(old) : new[k] = IF k = o THEN item ELSE old[k]
  BY <1>1, <1>2, <1>3, GroupIs, ExceptSeq
<1>5. PICK group : group = [t[g] EXCEPT !.items = new]
  OBVIOUS
<1>6. group \in Group /\ group.items = new
  <2>1. t[g] \in Group
    BY <1>1, GroupIs
  <2> QED BY <1>2, <1>4, <1>5, <2>1 DEF Group, SparseBin
<1>7. PICK u : u = [t EXCEPT ![g] = group]
  OBVIOUS
<1>8. Store(t, p, item) = u
  <2>1. Store(t, p, item) = [t EXCEPT ![g].items[o] = item]
    BY <1>1 DEF Store
  <2> QED BY <1>1, <1>2, <1>3, <1>5, <1>7, <2>1, TableIs
<1>9. /\ u \in Seq(Group) /\ Len(u) = Len(t)
      /\ \A k \in DOMAIN t : u[k] = IF k = g THEN group ELSE t[k]
  BY <1>1, <1>6, <1>7, TableIs, ExceptSeq
<1>10. DOMAIN u = DOMAIN t
  BY <1>9, TableIs
<1>11. \A k \in DOMAIN t : Len(u[k].items) = Len(t[k].items)
  BY <1>2, <1>4, <1>6, <1>9
<1>12. Pointers(u) = Pointers(t)
  <2>1. \A q : q \in Pointers(t) <=>
            q = <<q[1], q[2]>> /\ q[1] \in DOMAIN t /\ q[2] \in 1 .. Len(t[q[1]].items)
    BY PointersAre
  <2>2. \A q : q \in Pointers(u) <=>
            q = <<q[1], q[2]>> /\ q[1] \in DOMAIN u /\ q[2] \in 1 .. Len(u[q[1]].items)
    BY <1>9, PointersAre
  <2>3. ASSUME NEW q PROVE q \in Pointers(u) <=> q \in Pointers(t)
    BY <1>10, <1>11, <2>1, <2>2
  <2> QED BY <2>3
<1>13. ASSUME NEW q \in Pointers(t)
       PROVE  Deref(u, q) = IF q = p THEN item ELSE Deref(t, q)
  <2>1. q = <<q[1], q[2]>> /\ q[1] \in DOMAIN t /\ q[2] \in 1 .. Len(t[q[1]].items)
    BY PointersAre
  <2>2. CASE q[1] = g
    <3>1. u[q[1]].items = new /\ q[2] \in 1 .. Len(old)
      BY <1>2, <1>6, <1>9, <2>1, <2>2
    <3>2. q = p <=> q[2] = o
      BY <1>1, <2>1, <2>2
    <3> QED BY <1>2, <1>4, <2>2, <3>1, <3>2 DEF Deref
  <2>3. CASE q[1] # g
    BY <1>1, <1>9, <2>1, <2>3 DEF Deref
  <2> QED BY <2>2, <2>3
<1>14. Buckets(u) = Buckets(t)
  BY <1>9 DEF Buckets
<1> QED BY <1>8, <1>9, <1>12, <1>13, <1>14

LEMMA StoreLive ==
    ASSUME NEW t \in Seq(Group), NEW p \in Pointers(t), NEW item \in Item
    PROVE  LivePointers(Store(t, p, item)) =
              IF item.data = DELETED THEN LivePointers(t) \ {p} ELSE LivePointers(t) \cup {p}
<1>1. PICK u : u = Store(t, p, item)
  OBVIOUS
<1>2. /\ Pointers(u) = Pointers(t)
      /\ \A q \in Pointers(t) : Deref(u, q) = IF q = p THEN item ELSE Deref(t, q)
  BY <1>1, StoreIs
<1>3. \A q : q \in LivePointers(u) <=>
          q \in Pointers(t) /\ (IF q = p THEN item.data # DELETED ELSE q \in LivePointers(t))
  BY <1>2 DEF LivePointers, IsDeleted
<1>4. LivePointers(t) \subseteq Pointers(t)
  BY LiveAre
<1>5. CASE item.data = DELETED
  <2>1. \A q : q \in LivePointers(u) <=> q \in LivePointers(t) /\ q # p
    BY <1>3, <1>4, <1>5
  <2> QED BY <1>1, <1>5, <2>1
<1>6. CASE item.data # DELETED
  <2>1. \A q : q \in LivePointers(u) <=> q \in LivePointers(t) \/ q = p
    BY <1>3, <1>4, <1>6
  <2> QED BY <1>1, <1>6, <2>1
<1> QED BY <1>5, <1>6

Grown(t, g, x, o, item) ==
    [t EXCEPT ![g] = [bmOccupied |-> t[g].bmOccupied \cup {x},
                      items |-> InsertAt(t[g].items, o, item)]]

(* Where a pointer moves when an item is put in at p.                        *)
Shift(p, q) == IF q[1] = p[1] /\ q[2] >= p[2] THEN <<q[1], q[2] + 1>> ELSE q

(* What is so of a table u that is t with an item at p.                      *)
HasGrown(t, u, p, z, item) ==
    /\ u \in Seq(Group) /\ Buckets(u) = Buckets(t)
    /\ Pointers(u) = Pointers(t) \cup {z} /\ z \notin Pointers(t)
    /\ p \in Pointers(u) /\ Deref(u, p) = item
    /\ \A q \in Pointers(t) :
          Shift(p, q) \in Pointers(u) \ {p} /\ Deref(u, Shift(p, q)) = Deref(t, q)
    /\ \A q \in Pointers(t), r \in Pointers(t) : Shift(p, q) = Shift(p, r) => q = r
    /\ \A r \in Pointers(u) \ {p} : \E q \in Pointers(t) : r = Shift(p, q)

LEMMA GrownIs ==
    ASSUME NEW t \in Seq(Group), NEW g \in DOMAIN t, NEW x \in 0 .. GroupSize - 1,
           x \notin t[g].bmOccupied, NEW o \in 1 .. Len(t[g].items) + 1, NEW item \in Item,
           NEW u, u = Grown(t, g, x, o, item), NEW p, p = <<g, o>>,
           NEW z, z = <<g, Len(t[g].items) + 1>>
    PROVE  HasGrown(t, u, p, z, item)
<1>1. PICK old \in Seq(Item), n \in Nat : old = t[g].items /\ n = Len(old) /\ o \in 1 .. n + 1
  BY GroupIs
<1>2. PICK new : new = InsertAt(old, o, item)
  OBVIOUS
<1>3. /\ new \in Seq(Item) /\ Len(new) = n + 1
      /\ \A k \in 1 .. n + 1 :
            new[k] = IF k < o THEN old[k] ELSE IF k = o THEN item ELSE old[k - 1]
  <2>1. o \in 1 .. Len(old) + 1
    BY <1>1
  <2>2. /\ InsertAt(old, o, item) \in Seq(Item)
        /\ Len(InsertAt(old, o, item)) = Len(old) + 1
        /\ \A k \in 1 .. Len(old) + 1 :
              InsertAt(old, o, item)[k]
                = IF k < o THEN old[k] ELSE IF k = o THEN item ELSE old[k - 1]
    BY <2>1, InsertIs
  <2> QED BY <1>1, <1>2, <2>2
<1>4. PICK group : group = [bmOccupied |-> t[g].bmOccupied \cup {x}, items |-> new]
  OBVIOUS
<1>5. group \in Group /\ group.items = new
  <2>1. Cardinality(t[g].bmOccupied \cup {x}) = Cardinality(t[g].bmOccupied) + 1
    BY GroupIs, FS_AddElement
  <2>2. Cardinality(t[g].bmOccupied) = n /\ t[g].bmOccupied \subseteq 0 .. GroupSize - 1
    BY <1>1, GroupIs
  <2> QED BY <1>3, <1>4, <2>1, <2>2 DEF Group, SparseBin
<1>6. u = [t EXCEPT ![g] = group]
  BY <1>1, <1>2, <1>4 DEF Grown
<1>7. /\ u \in Seq(Group) /\ Len(u) = Len(t)
      /\ \A k \in DOMAIN t : u[k] = IF k = g THEN group ELSE t[k]
  BY <1>5, <1>6, TableIs, ExceptSeq
<1>8. DOMAIN u = DOMAIN t
  BY <1>7, TableIs
<1>9. /\ \A k \in DOMAIN t : k # g => u[k] = t[k]
      /\ u[g].items = new
  BY <1>5, <1>7
<1>10. \A q : q \in Pointers(t) <=>
          /\ q = <<q[1], q[2]>> /\ q[1] \in DOMAIN t
          /\ q[2] \in 1 .. Len(t[q[1]].items)
  BY PointersAre
<1>11. \A q : q \in Pointers(u) <=>
          /\ q = <<q[1], q[2]>> /\ q[1] \in DOMAIN t
          /\ q[2] \in 1 .. Len(u[q[1]].items)
  BY <1>7, <1>8, PointersAre
<1>12. ASSUME NEW q
       PROVE  /\ q \in Pointers(t) => q = <<q[1], q[2]>> /\ q[1] \in Nat /\ q[2] \in Nat
              /\ q \in Pointers(u) => q = <<q[1], q[2]>> /\ q[1] \in Nat /\ q[2] \in Nat
              /\ q[1] # g => (q \in Pointers(u) <=> q \in Pointers(t))
              /\ q[1] = g => (q \in Pointers(t) <=> q = <<q[1], q[2]>> /\ q[2] \in 1 .. n)
              /\ q[1] = g => (q \in Pointers(u) <=> q = <<q[1], q[2]>> /\ q[2] \in 1 .. n + 1)
  <2>1. /\ q \in Pointers(t) => q = <<q[1], q[2]>> /\ q \in Nat \X Nat
        /\ q \in Pointers(u) => q = <<q[1], q[2]>> /\ q \in Nat \X Nat
    BY <1>7, <1>10, <1>11, PointersAre
  <2>2. CASE q[1] = g
    <3>1. Len(u[q[1]].items) = n + 1 /\ Len(t[q[1]].items) = n
      BY <1>1, <1>3, <1>9, <2>2
    <3> QED BY <1>10, <1>11, <2>1, <2>2, <3>1
  <2>3. CASE q[1] # g
    <3>1. q[1] \in DOMAIN t => u[q[1]] = t[q[1]]
      BY <1>9, <2>3
    <3> QED BY <1>10, <1>11, <2>1, <2>3, <3>1
  <2> QED BY <2>2, <2>3
<1>13. Pointers(u) = Pointers(t) \cup {<<g, n + 1>>} /\ <<g, n + 1>> \notin Pointers(t)
  <2>1. \A q : q \in Pointers(u) <=> q \in Pointers(t) \/ q = <<g, n + 1>>
    <3> SUFFICES ASSUME NEW q PROVE q \in Pointers(u) <=> q \in Pointers(t) \/ q = <<g, n + 1>>
      OBVIOUS
    <3>1. n + 1 \in 1 .. n + 1 /\ \A k : k \in 1 .. n + 1 <=> k \in 1 .. n \/ k = n + 1
      OBVIOUS
    <3>2. CASE q[1] = g
      BY <1>12, <3>1, <3>2
    <3>3. CASE q[1] # g
      BY <1>12, <3>3
    <3> QED BY <3>2, <3>3
  <2>2. <<g, n + 1>> \notin Pointers(t)
    <3>1. n + 1 \notin 1 .. n
      OBVIOUS
    <3>2. PICK q : q = <<g, n + 1>>
      OBVIOUS
    <3>3. q[1] = g /\ q[2] = n + 1
      BY <3>2
    <3> QED BY <1>12, <3>1, <3>2, <3>3
  <2> QED BY <2>1, <2>2
<1>14. p[1] = g /\ p[2] = o /\ o \in Nat /\ o \in 1 .. n + 1
  BY <1>1
<1>15. p \in Pointers(u) /\ Deref(u, p) = item
  <2>1. p \in Pointers(u)
    <3>1. p = <<p[1], p[2]>> /\ p[1] = g /\ p[2] \in 1 .. n + 1
      BY <1>14
    <3>2. p \in Pointers(u) <=> p = <<p[1], p[2]>> /\ p[2] \in 1 .. n + 1
      BY <1>12, <3>1
    <3> QED BY <3>1, <3>2
  <2>2. new[o] = item
    BY <1>3, <1>14
  <2>3. u[g].items = new
    BY <1>9
  <2>4. Deref(u, p) = u[g].items[o]
    BY <1>14 DEF Deref
  <2> QED BY <2>1, <2>2, <2>3, <2>4
<1>16. ASSUME NEW q \in Pointers(t)
       PROVE  Shift(p, q) \in Pointers(u) \ {p} /\ Deref(u, Shift(p, q)) = Deref(t, q)
  <2>1. q = <<q[1], q[2]>> /\ q[1] \in Nat /\ q[2] \in Nat
    BY <1>12
  <2>2. CASE q[1] # g
    <3>1. Shift(p, q) = q /\ q # p
      BY <1>14, <2>2 DEF Shift
    <3>2. u[q[1]] = t[q[1]]
      BY <1>9, <1>10, <2>2
    <3> QED BY <1>12, <2>2, <3>1, <3>2 DEF Deref
  <2>3. CASE q[1] = g /\ q[2] >= o
    <3>1. PICK r : r = <<g, q[2] + 1>>
      OBVIOUS
    <3>2. r = Shift(p, q) /\ r[1] = g /\ r[2] = q[2] + 1 /\ r = <<r[1], r[2]>>
      BY <1>14, <2>3, <3>1 DEF Shift
    <3>3. q[2] \in 1 .. n
      BY <1>12, <2>3
    <3>4. r[2] \in 1 .. n + 1 /\ r[2] > o /\ r[2] - 1 = q[2]
      BY <1>14, <2>3, <3>2, <3>3
    <3>5. r \in Pointers(u) /\ r # p
      BY <1>12, <1>14, <3>2, <3>4
    <3>6. new[r[2]] = old[q[2]]
      BY <1>3, <1>14, <3>4
    <3> QED BY <1>1, <1>9, <2>3, <3>2, <3>5, <3>6 DEF Deref
  <2>4. CASE q[1] = g /\ q[2] < o
    <3>1. Shift(p, q) = q /\ q # p
      BY <1>14, <2>1, <2>4 DEF Shift
    <3>2. q[2] \in 1 .. n
      BY <1>12, <2>4
    <3>3. q \in Pointers(u) /\ new[q[2]] = old[q[2]]
      BY <1>3, <1>13, <2>4, <3>2
    <3> QED BY <1>1, <1>9, <2>4, <3>1, <3>3 DEF Deref
  <2> QED BY <1>14, <2>1, <2>2, <2>3, <2>4
<1>17. ASSUME NEW q \in Pointers(t), NEW r \in Pointers(t), Shift(p, q) = Shift(p, r)
       PROVE  q = r
  <2>1. /\ q = <<q[1], q[2]>> /\ q[2] \in Nat
        /\ r = <<r[1], r[2]>> /\ r[2] \in Nat
    BY <1>12
  <2>2. PICK a, b : a = Shift(p, q) /\ b = Shift(p, r) /\ a = b
    BY <1>17
  <2>3. /\ a[1] = q[1] /\ a[2] = IF q[1] = g /\ q[2] >= o THEN q[2] + 1 ELSE q[2]
        /\ b[1] = r[1] /\ b[2] = IF r[1] = g /\ r[2] >= o THEN r[2] + 1 ELSE r[2]
    BY <1>14, <2>2 DEF Shift
  <2>4. q[1] = r[1]
    BY <2>2, <2>3
  <2>5. q[2] = r[2]
    BY <1>14, <2>1, <2>2, <2>3, <2>4
  <2> QED BY <2>1, <2>4, <2>5
<1>18. ASSUME NEW r \in Pointers(u) \ {p}
       PROVE  \E q \in Pointers(t) : r = Shift(p, q)
  <2>1. r = <<r[1], r[2]>> /\ r[1] \in Nat /\ r[2] \in Nat
    BY <1>12
  <2>2. CASE r[1] # g
    <3>1. r \in Pointers(t) /\ Shift(p, r) = r
      BY <1>12, <1>14, <2>2 DEF Shift
    <3> QED BY <3>1
  <2>3. CASE r[1] = g /\ r[2] < o
    <3>1. r[2] \in 1 .. n + 1
      BY <1>12, <2>3
    <3>2. r[2] \in 1 .. n
      BY <1>14, <2>3, <3>1
    <3>3. r \in Pointers(t) /\ Shift(p, r) = r
      BY <1>12, <1>14, <2>1, <2>3, <3>2 DEF Shift
    <3> QED BY <3>3
  <2>4. CASE r[1] = g /\ r[2] >= o
    <3>1. r[2] \in 1 .. n + 1 /\ r[2] # o
      BY <1>12, <1>14, <2>1, <2>4
    <3>2. PICK q : q = <<g, r[2] - 1>>
      OBVIOUS
    <3>3. q[1] = g /\ q[2] = r[2] - 1 /\ q = <<q[1], q[2]>>
      BY <3>2
    <3>4. q[2] \in 1 .. n /\ q[2] >= o /\ q[2] + 1 = r[2]
      BY <1>14, <2>4, <3>1, <3>3
    <3>5. q \in Pointers(t) /\ Shift(p, q) = r
      BY <1>12, <1>14, <2>1, <2>4, <3>3, <3>4 DEF Shift
    <3> QED BY <3>5
  <2>5. r[2] < o \/ r[2] >= o
    BY <1>14, <2>1
  <2> QED BY <2>2, <2>3, <2>4, <2>5
<1>19. Buckets(u) = Buckets(t)
  BY <1>7 DEF Buckets
<1> QED BY <1>1, <1>7, <1>13, <1>15, <1>16, <1>17, <1>18, <1>19 DEF HasGrown

(* An item put into an empty bucket: one more pointer, and one more that is  *)
(* live if the item is.                                                      *)
HasInserted(t, item, r) ==
    /\ r.table \in Seq(Group) /\ Buckets(r.table) = Buckets(t)
    /\ r.at \in Pointers(r.table) /\ Deref(r.table, r.at) = item
    /\ Cardinality(Pointers(r.table)) = Cardinality(Pointers(t)) + 1
    /\ Cardinality(LivePointers(r.table)) =
          Cardinality(LivePointers(t)) + (IF item.data = DELETED THEN 0 ELSE 1)

LEMMA InsertEmpty ==
    ASSUME NEW t \in Seq(Group), NEW item \in Item, NEW l \in Locations(t), NEW f,
           SparseIsEmpty(t, l), NEW r, r = SparseInsert(t, item, l, f)
    PROVE  HasInserted(t, item, r) /\ r.fOverwrite = FALSE
<1>1. PICK g \in DOMAIN t : g = GroupOf(l)
  BY PlaceIs
<1>2. PICK x \in 0 .. GroupSize - 1 : x = PositionOf(l)
  BY PlaceIs
<1>3. PICK o \in 1 .. Len(t[g].items) + 1 : Pointer(t, l) = <<g, o>>
  BY <1>1, PointerIs
<1>4. PICK p : p = <<g, o>>
  OBVIOUS
<1>5. p[1] = g /\ p[2] = o
  BY <1>4
<1>6. x \notin t[g].bmOccupied
  BY <1>1, <1>2 DEF SparseIsEmpty
<1>7. r.table = Grown(t, g, x, o, item) /\ r.at = p /\ r.fOverwrite = FALSE
  <2>1. [t EXCEPT ![p[1]] = [bmOccupied |-> @.bmOccupied \cup {x},
                             items |-> InsertAt(@.items, p[2], item)]]
          = Grown(t, g, x, o, item)
    BY <1>5 DEF Grown
  <2> QED BY <1>2, <1>3, <1>4, <2>1 DEF SparseInsert
<1>8. PICK u, z : u = r.table /\ z = <<g, Len(t[g].items) + 1>>
  OBVIOUS
<1>9. HasGrown(t, u, p, z, item)
  <2>1. u = Grown(t, g, x, o, item) /\ z = <<g, Len(t[g].items) + 1>> /\ p = <<g, o>>
    BY <1>4, <1>7, <1>8
  <2> QED BY <1>6, <2>1, GrownIs
<1>10. /\ u \in Seq(Group) /\ Buckets(u) = Buckets(t)
       /\ Pointers(u) = Pointers(t) \cup {z} /\ z \notin Pointers(t)
       /\ p \in Pointers(u) /\ Deref(u, p) = item
       /\ \A q \in Pointers(t) :
             Shift(p, q) \in Pointers(u) \ {p} /\ Deref(u, Shift(p, q)) = Deref(t, q)
       /\ \A q \in Pointers(t), s \in Pointers(t) : Shift(p, q) = Shift(p, s) => q = s
       /\ \A s \in Pointers(u) \ {p} : \E q \in Pointers(t) : s = Shift(p, q)
  BY <1>9 DEF HasGrown
<1>11. Cardinality(Pointers(u)) = Cardinality(Pointers(t)) + 1
  <2>1. IsFiniteSet(Pointers(t))
    BY PointersAre
  <2>2. Cardinality(Pointers(t) \cup {z}) = Cardinality(Pointers(t)) + 1
    BY <1>10, <2>1, FS_AddElement
  <2> QED BY <1>10, <2>2
<1> DEFINE Live == LivePointers(u) \ {p}
           move == [q \in LivePointers(t) |-> Shift(p, q)]
<1>12. \A q \in LivePointers(t) : q \in Pointers(t)
  BY LiveAre
<1>13. \A q \in LivePointers(t) : Shift(p, q) \in Live
  BY <1>10, <1>12 DEF LivePointers, IsDeleted
<1>14. \A s \in Live : \E q \in LivePointers(t) : s = Shift(p, q)
  BY <1>10 DEF LivePointers, IsDeleted
<1>15. \A q, s \in LivePointers(t) : Shift(p, q) = Shift(p, s) => q = s
  BY <1>10, <1>12
<1> HIDE DEF Live
<1>16. move \in Bijection(LivePointers(t), Live)
  <2>1. move \in [LivePointers(t) -> Live]
    BY <1>13
  <2>2. \A q, s \in LivePointers(t) : move[q] = move[s] => q = s
    BY <1>15
  <2>3. \A s \in Live : \E q \in LivePointers(t) : move[q] = s
    BY <1>14
  <2> HIDE DEF move
  <2> QED BY <2>1, <2>2, <2>3 DEF Bijection, Injection, Surjection, IsInjective
<1>17. IsFiniteSet(Live) /\ Cardinality(Live) = Cardinality(LivePointers(t))
  BY <1>16, LiveAre, FS_Bijection DEF ExistsBijection
<1>18. p \in LivePointers(u) <=> item.data # DELETED
  BY <1>10 DEF LivePointers, IsDeleted
<1>19. Cardinality(LivePointers(u)) =
          Cardinality(LivePointers(t)) + (IF item.data = DELETED THEN 0 ELSE 1)
  <2>1. CASE item.data = DELETED
    <3>1. LivePointers(u) = Live
      BY <1>18, <2>1 DEF Live
    <3> QED BY <1>17, <2>1, <3>1, LiveAre
  <2>2. CASE item.data # DELETED
    <3>1. LivePointers(u) = Live \cup {p} /\ p \notin Live
      BY <1>18, <2>2 DEF Live
    <3>2. Cardinality(Live \cup {p}) = Cardinality(Live) + 1
      BY <1>17, <3>1, FS_AddElement
    <3> QED BY <1>17, <2>2, <3>1, <3>2
  <2> QED BY <2>1, <2>2
<1> QED BY <1>7, <1>8, <1>10, <1>11, <1>19 DEF HasInserted

(* A new table.                                                              *)
LEMMA AllocatedIs ==
    ASSUME NEW c \in Nat, NEW t, t = SparseAllocate(c)
    PROVE  /\ t \in Seq(Group) /\ Pointers(t) = {} /\ LivePointers(t) = {}
           /\ Buckets(t) >= c
           /\ PowerOf2(c) => PowerOf2(Buckets(t)) /\ Buckets(t) \in {c, GroupSize}
           /\ c = 0 => Buckets(t) = 0
<1>1. PICK s \in Nat \ {0} : s = GroupSize
  BY GroupSizeIs
<1>2. PICK n \in Int, m \in 0 .. s - 1 :
          /\ n = (c + s - 1) \div s /\ m = (c + s - 1) % s
          /\ c + s - 1 = (s * n) + m
  <2>1. PICK a \in Int : a = c + s - 1
    OBVIOUS
  <2> QED BY <2>1, ModIs
<1>3. n >= 0 /\ s * n >= c
  <2>1. n <= -1 => s * n <= s * (-1)
    OBVIOUS
  <2> QED BY <1>2, <2>1
<1>4. PICK group : group = [bmOccupied |-> {}, items |-> <<>>]
  OBVIOUS
<1>5. group \in Group /\ Len(group.items) = 0
  <2>1. <<>> \in Seq(Item) /\ Len(<<>>) = 0
    BY EmptySeq
  <2> QED BY <1>4, <2>1, FS_EmptySet DEF Group, SparseBin
<1>6. t = [g \in 1 .. n |-> group]
  BY <1>1, <1>2, <1>4 DEF SparseAllocate, SparseGroups
<1>7. t \in Seq(Group) /\ Len(t) = n /\ DOMAIN t = 1 .. n
  <2>1. t \in [1 .. n -> Group] /\ n \in Nat
    BY <1>3, <1>5, <1>6
  <2>2. t \in Seq(Group)
    BY <2>1, SeqDef
  <2> QED BY <2>1, <2>2
<1>8. Pointers(t) = {} /\ LivePointers(t) = {}
  <2>1. \A g \in DOMAIN t : Len(t[g].items) = 0
    BY <1>5, <1>6, <1>7
  <2>2. ASSUME NEW p \in Pointers(t) PROVE FALSE
    <3>1. p[1] \in DOMAIN t /\ p[2] \in 1 .. Len(t[p[1]].items)
      BY <1>7, PointersAre
    <3> QED BY <2>1, <3>1
  <2>3. Pointers(t) = {}
    BY <2>2
  <2> QED BY <2>3 DEF LivePointers
<1>9. Buckets(t) = s * n
  BY <1>1, <1>3, <1>7 DEF Buckets
<1>10. ASSUME c = 0 PROVE Buckets(t) = 0
  <2>1. n >= 1 => s * n >= s
    OBVIOUS
  <2>2. n = 0
    BY <1>2, <1>3, <1>10, <2>1
  <2> QED BY <1>9, <2>2
<1>11. ASSUME PowerOf2(c) PROVE PowerOf2(Buckets(t)) /\ Buckets(t) \in {c, GroupSize}
  <2>1. PowerOf2(s) /\ c \in Nat \ {0}
    BY <1>1, <1>11, HashTableAssumption DEF PowerOf2
  <2>2. CASE c <= s
    <3>1. s * n <= (2 * s) - 1 /\ s * n >= 1
      BY <1>2, <1>3, <2>1, <2>2
    <3>2. n < 2
      <4>1. n >= 2 => s * n >= s * 2
        OBVIOUS
      <4> QED BY <3>1, <4>1
    <3>3. n # 0
      BY <3>1
    <3>4. n = 1
      BY <1>3, <3>2, <3>3
    <3> QED BY <1>1, <1>9, <2>1, <3>4
  <2>3. CASE s <= c
    <3>1. PICK q \in Int : c = s * q
      BY <1>11, <2>1, <2>3, PowersDivide DEF Divides
    <3>2. s * (n - q) \in 0 .. s - 1
      BY <1>2, <1>3, <3>1
    <3>3. n - q >= 1 => s * (n - q) >= s
      OBVIOUS
    <3>4. n - q <= -1 => s * (n - q) <= s * (-1)
      OBVIOUS
    <3>5. n = q
      BY <3>2, <3>3, <3>4
    <3> QED BY <1>9, <1>11, <3>1, <3>5
  <2> QED BY <2>1, <2>2, <2>3
<1> QED BY <1>3, <1>7, <1>8, <1>9, <1>10, <1>11

-------------------------------------------------------------------------------
(* Searches *)

LEMMA MinIs ==
    ASSUME NEW T \in SUBSET Nat, T # {}
    PROVE  Min(T) \in T /\ \A m \in T : Min(T) <= m
<1>1. \E n \in T : \A m \in T : n <= m
  BY LeastExists
<1> QED BY <1>1 DEF Min

(* A table with room, in which every search ends.                            *)
Roomy(t) ==
    t \in Seq(Group) /\ PowerOf2(Buckets(t)) /\ Cardinality(Pointers(t)) < Buckets(t)

LEMMA EmptyProbe ==
    ASSUME NEW t, Roomy(t), NEW key \in Keys
    PROVE  \E i \in 0 .. Buckets(t) - 1 : SparseIsEmpty(t, Probe(key, i, Buckets(t)))
<1>1. PICK l \in Locations(t) : SparseIsEmpty(t, l)
  BY EmptyBucket DEF Roomy
<1>2. PICK c : c = Buckets(t)
  OBVIOUS
<1>3. PowerOf2(c) /\ l \in 0 .. c - 1
  BY <1>1, <1>2 DEF Roomy, Locations
<1>4. PICK i \in 0 .. c - 1 : Probe(key, i, c) = l
  BY <1>3, ProbesReachAll
<1> QED BY <1>1, <1>2, <1>4

LEMMA ProbeHits ==
    ASSUME NEW t, Roomy(t), NEW key \in Keys, NEW i \in 0 .. Buckets(t) - 1
    PROVE  Probe(key, i, Buckets(t)) \in Locations(t)
<1>1. PICK c : c = Buckets(t)
  OBVIOUS
<1>2. PowerOf2(c) /\ c \in Nat
  BY <1>1 DEF Roomy, PowerOf2
<1>3. i \in Nat
  BY <1>1, <1>2
<1> QED BY <1>1, <1>2, <1>3, ProbeIs DEF Locations

LEMMA FirstEmptyIs ==
    ASSUME NEW t, Roomy(t), NEW key \in Keys
    PROVE  FirstEmpty(t, key) \in Locations(t) /\ SparseIsEmpty(t, FirstEmpty(t, key))
<1>1. PICK T : T = {i \in 0 .. Buckets(t) - 1 : SparseIsEmpty(t, Probe(key, i, Buckets(t)))}
  OBVIOUS
<1>2. Buckets(t) \in Nat
  BY TableIs DEF Roomy
<1>3. T \in SUBSET Nat /\ T # {}
  BY <1>1, <1>2, EmptyProbe
<1>4. PICK m : m = Min(T)
  OBVIOUS
<1>5. m \in T
  BY <1>3, <1>4, MinIs
<1>6. m \in 0 .. Buckets(t) - 1 /\ SparseIsEmpty(t, Probe(key, m, Buckets(t)))
  BY <1>1, <1>5
<1>7. FirstEmpty(t, key) = Probe(key, m, Buckets(t))
  BY <1>1, <1>4 DEF FirstEmpty
<1> QED BY <1>6, <1>7, ProbeHits

LEMMA SparseFindIs ==
    ASSUME NEW t \in Seq(Group), NEW l \in Locations(t)
    PROVE  /\ SparseFind(t, l) = NULL <=> SparseIsEmpty(t, l)
           /\ ~SparseIsEmpty(t, l) =>
                 SparseFind(t, l) \in Pointers(t) /\ SparseFind(t, l) = Pointer(t, l)
<1>1. ~SparseIsEmpty(t, l) => Pointer(t, l) \in Pointers(t)
  BY PointerIs
<1>2. ASSUME ~SparseIsEmpty(t, l) PROVE Pointer(t, l) # NULL
  <2>1. Pointer(t, l) \in Nat \X Nat
    BY <1>1, <1>2, PointersAre
  <2> QED BY <2>1, HashTableAssumption
<1> QED BY <1>1, <1>2 DEF SparseFind

(* The search for a key, of which "stop" is the last probe: what it finds,   *)
(* and if it finds nothing, the first bucket that it could be put into.      *)
Searched(t, key, r, stop) ==
    LET found(i) == SparseFind(t, Probe(key, i, Buckets(t)))
    IN  /\ \A i \in 0 .. stop - 1 :
              found(i) # NULL /\ (IsDeleted(t, found(i)) \/ Deref(t, found(i)).key # key)
        /\ r.item = found(stop)
        /\ r.item # NULL => ~IsDeleted(t, r.item) /\ Deref(t, r.item).key = key
        /\ r.item = NULL =>
              \E m \in 0 .. stop :
                  /\ r.empty = Probe(key, m, Buckets(t))
                  /\ found(m) = NULL \/ IsDeleted(t, found(m))
                  /\ \A i \in 0 .. m - 1 : found(i) # NULL

LEMMA FindSearches ==
    ASSUME NEW t, Roomy(t), NEW key \in Keys, NEW r, r = Find(t, key)
    PROVE  \E stop \in Stops(t, key) : Searched(t, key, r, stop)
<1>1. PICK c : c = Buckets(t) /\ c \in Nat
  BY TableIs DEF Roomy
<1>2. PICK T : T = Stops(t, key)
  OBVIOUS
<1>3. \A i : i \in T <=>
          /\ i \in 0 .. c - 1
          /\ \/ SparseFind(t, Probe(key, i, c)) = NULL
             \/ /\ ~IsDeleted(t, SparseFind(t, Probe(key, i, c)))
                /\ Deref(t, SparseFind(t, Probe(key, i, c))).key = key
  BY <1>1, <1>2 DEF Stops
<1>4. T \in SUBSET Nat /\ T # {}
  <2>1. PICK i \in 0 .. c - 1 : SparseIsEmpty(t, Probe(key, i, c))
    BY <1>1, EmptyProbe
  <2>2. SparseFind(t, Probe(key, i, c)) = NULL
    BY <2>1 DEF SparseFind
  <2>3. i \in T
    BY <1>3, <2>2
  <2> QED BY <1>1, <1>3, <2>3
<1>5. PICK stop : stop = Min(T)
  OBVIOUS
<1>6. stop \in T /\ \A i \in T : stop <= i
  BY <1>4, <1>5, MinIs
<1>7. stop \in 0 .. c - 1
  BY <1>3, <1>6
<1>8. PICK O : O = {i \in 0 .. stop : \/ SparseFind(t, Probe(key, i, c)) = NULL
                                      \/ IsDeleted(t, SparseFind(t, Probe(key, i, c)))}
  OBVIOUS
<1>9. r = [item |-> SparseFind(t, Probe(key, stop, c)),
           empty |-> IF O = {} THEN NULL ELSE Probe(key, Min(O), c)]
  BY <1>1, <1>2, <1>5, <1>8 DEF Find
<1>10. r.item = SparseFind(t, Probe(key, stop, c))
  BY <1>9
<1>11. ASSUME NEW i \in 0 .. stop - 1
       PROVE  /\ SparseFind(t, Probe(key, i, c)) # NULL
              /\ \/ IsDeleted(t, SparseFind(t, Probe(key, i, c)))
                 \/ Deref(t, SparseFind(t, Probe(key, i, c))).key # key
  <2>1. i \in 0 .. c - 1 /\ ~(stop <= i)
    BY <1>1, <1>7
  <2>2. i \notin T
    BY <1>6, <2>1
  <2> QED BY <1>3, <2>1, <2>2
<1>12. ASSUME r.item = NULL
       PROVE  \E m \in 0 .. stop :
                  /\ r.empty = Probe(key, m, c)
                  /\ \/ SparseFind(t, Probe(key, m, c)) = NULL
                     \/ IsDeleted(t, SparseFind(t, Probe(key, m, c)))
                  /\ \A i \in 0 .. m - 1 : SparseFind(t, Probe(key, i, c)) # NULL
  <2>1. stop \in 0 .. stop
    BY <1>1, <1>7
  <2>2. stop \in O
    BY <1>8, <1>10, <1>12, <2>1
  <2>3. O \in SUBSET Nat /\ O # {}
    BY <1>1, <1>7, <1>8, <2>2
  <2>4. PICK m : m = Min(O)
    OBVIOUS
  <2>5. m \in O
    BY <2>3, <2>4, MinIs
  <2>6. r.empty = Probe(key, m, c)
    <3>1. r.empty = IF O = {} THEN NULL ELSE Probe(key, Min(O), c)
      BY <1>9
    <3> QED BY <2>3, <2>4, <3>1, Zenon
  <2>7. m \in 0 .. stop
    BY <1>8, <2>5
  <2>8. \A i \in 0 .. m - 1 : i \in 0 .. stop - 1
    BY <1>7, <2>7
  <2>9. \A i \in 0 .. m - 1 : SparseFind(t, Probe(key, i, c)) # NULL
    BY <1>11, <2>8
  <2> QED BY <1>8, <2>5, <2>6, <2>7, <2>9
<1>13. r.item # NULL => ~IsDeleted(t, r.item) /\ Deref(t, r.item).key = key
  BY <1>3, <1>6, <1>10
<1>14. Searched(t, key, r, stop)
  BY <1>1, <1>10, <1>11, <1>12, <1>13 DEF Searched
<1> QED BY <1>2, <1>6, <1>14

(* A bucket that is empty, or of which the item is deleted.                  *)
IsOpen(t, l) ==
    l \in Locations(t) /\ (SparseIsEmpty(t, l) \/ IsDeleted(t, SparseFind(t, l)))

LEMMA FindIs ==
    ASSUME NEW t, Roomy(t), NEW key \in Keys, NEW r, r = Find(t, key)
    PROVE  /\ Stops(t, key) # {}
           /\ r.item \in LivePointers(t) \cup {NULL}
           /\ r.item = NULL => IsOpen(t, r.empty)
<1>1. PICK c : c = Buckets(t) /\ c \in Nat
  BY TableIs DEF Roomy
<1>2. PICK stop \in Stops(t, key) : Searched(t, key, r, stop)
  BY FindSearches
<1>3. stop \in 0 .. c - 1 /\ t \in Seq(Group)
  BY <1>1 DEF Stops, Roomy
<1>4. \A i \in 0 .. c - 1 : Probe(key, i, c) \in Locations(t)
  BY <1>1, ProbeHits
<1>5. ASSUME r.item # NULL PROVE r.item \in LivePointers(t)
  <2>1. r.item = SparseFind(t, Probe(key, stop, c)) /\ ~IsDeleted(t, r.item)
    BY <1>1, <1>2, <1>5 DEF Searched
  <2>2. r.item \in Pointers(t)
    BY <1>3, <1>4, <1>5, <2>1, SparseFindIs
  <2> QED BY <2>1, <2>2 DEF LivePointers
<1>6. ASSUME r.item = NULL PROVE IsOpen(t, r.empty)
  <2>1. PICK m \in 0 .. stop :
            /\ r.empty = Probe(key, m, c)
            /\ \/ SparseFind(t, Probe(key, m, c)) = NULL
               \/ IsDeleted(t, SparseFind(t, Probe(key, m, c)))
    BY <1>1, <1>2, <1>6 DEF Searched
  <2>2. m \in 0 .. c - 1
    BY <1>1, <1>3
  <2>3. Probe(key, m, c) \in Locations(t)
    BY <1>4, <2>2
  <2> QED BY <1>3, <2>1, <2>3, SparseFindIs DEF IsOpen
<1> QED BY <1>2, <1>5, <1>6

(* The order of the table.                                                   *)
LEMMA FirstIs ==
    ASSUME NEW ps \in SUBSET (Nat \X Nat)
    PROVE  /\ First(ps) \in ps \cup {NULL}
           /\ ps = {} => First(ps) = NULL
           /\ ps # {} =>
                 First(ps) \in ps /\ \A q \in ps : First(ps) = q \/ Precedes(First(ps), q)
<1>1. CASE ps = {}
  BY <1>1 DEF First
<1>2. CASE ps # {}
  <2>1. PICK T : T = {p[1] : p \in ps}
    OBVIOUS
  <2>2. T \in SUBSET Nat /\ T # {}
    BY <1>2, <2>1
  <2>3. PICK n \in T : \A m \in T : n <= m
    BY <2>2, LeastExists
  <2>4. PICK U : U = {p[2] : p \in {q \in ps : q[1] = n}}
    OBVIOUS
  <2>5. U \in SUBSET Nat /\ U # {}
    BY <2>1, <2>3, <2>4
  <2>6. PICK k \in U : \A m \in U : k <= m
    BY <2>5, LeastExists
  <2>7. PICK p \in ps : p[1] = n /\ p[2] = k
    BY <2>4, <2>6
  <2>8. ASSUME NEW q \in ps PROVE p = q \/ Precedes(p, q)
    <3>1. /\ p = <<p[1], p[2]>> /\ p[1] \in Nat /\ p[2] \in Nat
          /\ q = <<q[1], q[2]>> /\ q[1] \in Nat /\ q[2] \in Nat
      OBVIOUS
    <3>2. n <= q[1]
      BY <2>1, <2>3
    <3>3. q[1] = n => k <= q[2]
      BY <2>4, <2>6
    <3>4. q[1] = n /\ q[2] = k => p = q
      BY <2>7, <3>1
    <3> QED BY <2>7, <3>1, <3>2, <3>3, <3>4 DEF Precedes
  <2>9. \E r \in ps : \A q \in ps : r = q \/ Precedes(r, q)
    BY <2>8
  <2>10. First(ps) \in ps /\ \A q \in ps : First(ps) = q \/ Precedes(First(ps), q)
    BY <1>2, <2>9 DEF First
  <2> QED BY <1>2, <2>10
<1> QED BY <1>1, <1>2

LEMMA LastOfIs ==
    ASSUME NEW ps \in SUBSET (Nat \X Nat), IsFiniteSet(ps), ps # {}
    PROVE  LastOf(ps) \in ps
<1> DEFINE After(p) == {q \in ps : Precedes(p, q)}
<1>1. \A p \in ps : IsFiniteSet(After(p)) /\ Cardinality(After(p)) \in Nat
  <2> TAKE p \in ps
  <2>1. After(p) \in SUBSET ps
    OBVIOUS
  <2> QED BY <2>1, FS_Subset, FS_CardinalityType
<1>2. PICK T : T = {Cardinality(After(p)) : p \in ps}
  OBVIOUS
<1>3. T \in SUBSET Nat /\ T # {}
  BY <1>1, <1>2
<1>4. PICK n \in T : \A m \in T : n <= m
  BY <1>3, LeastExists
<1>5. PICK p \in ps : n = Cardinality(After(p))
  BY <1>2, <1>4
<1>6. ASSUME NEW q \in ps PROVE p = q \/ Precedes(q, p)
  <2> SUFFICES ASSUME p # q, ~Precedes(q, p) PROVE FALSE
    OBVIOUS
  <2>1. /\ p = <<p[1], p[2]>> /\ p[1] \in Nat /\ p[2] \in Nat
        /\ q = <<q[1], q[2]>> /\ q[1] \in Nat /\ q[2] \in Nat
    OBVIOUS
  <2>2. Precedes(p, q)
    BY <2>1 DEF Precedes
  <2>3. ASSUME NEW r \in ps, Precedes(q, r) PROVE Precedes(p, r)
    <3>1. r[1] \in Nat /\ r[2] \in Nat
      OBVIOUS
    <3> QED BY <2>1, <2>2, <2>3, <3>1 DEF Precedes
  <2>4. ~Precedes(q, q)
    BY <2>1 DEF Precedes
  <2>5. After(q) \in SUBSET After(p) /\ q \in After(p) /\ q \notin After(q)
    BY <2>2, <2>3, <2>4
  <2>6. After(q) # After(p)
    BY <2>5
  <2>7. Cardinality(After(q)) <= Cardinality(After(p))
        /\ Cardinality(After(q)) # Cardinality(After(p))
    <3> HIDE DEF After
    <3> QED BY <1>1, <2>5, <2>6, FS_Subset
  <2>8. Cardinality(After(q)) \in T
    BY <1>2
  <2> HIDE DEF After
  <2> QED BY <1>1, <1>4, <1>5, <2>7, <2>8
<1>7. \E r \in ps : \A q \in ps : r = q \/ Precedes(q, r)
  BY <1>6
<1> QED BY <1>7 DEF LastOf

-------------------------------------------------------------------------------
(* Rehashing *)

LEMMA CopyIs ==
    ASSUME NEW to, Roomy(to.table), NEW item \in Item, NEW r, r = Copy(to, item)
    PROVE  HasInserted(to.table, item, r)
<1>1. PICK t \in Seq(Group) : t = to.table
  BY DEF Roomy
<1>2. PICK key \in Keys : key = item.key
  BY DEF Item
<1>3. PICK l : l = FirstEmpty(t, key)
  OBVIOUS
<1>4. l \in Locations(t) /\ SparseIsEmpty(t, l)
  BY <1>1, <1>3, FirstEmptyIs
<1>5. PICK f : f = FALSE
  OBVIOUS
<1>6. r = SparseInsert(t, item, l, f)
  <2>1. r = SparseInsert(t, item, l, FALSE)
    BY <1>1, <1>2, <1>3, Zenon DEF Copy
  <2> QED BY <1>5, <2>1, Zenon
<1>7. HasInserted(t, item, r)
  BY <1>4, <1>6, InsertEmpty
<1> QED BY <1>1, <1>7

(* The copying of a set of items, one after the other.                       *)
NextOf(w, ps) == IF w \in ps THEN w ELSE LastOf(ps)
CopiesOf(t, c, w, f, ps) ==
    IF ps = {} THEN Allocated(c)
    ELSE Copy(f[ps \ {NextOf(w, ps)}], Deref(t, NextOf(w, ps)))
IsCopies(t, c, w, S, f) == f = [ps \in S |-> CopiesOf(t, c, w, f, ps)]

LEMMA NextOfIs ==
    ASSUME NEW ps \in SUBSET (Nat \X Nat), IsFiniteSet(ps), ps # {}, NEW w
    PROVE  NextOf(w, ps) \in ps
  BY LastOfIs DEF NextOf

WithTable(h, t) == [h EXCEPT !.table = t, !.cDeletedItems = 0]
Rehashed(h, copied) == [ht |-> WithTable(h, copied.table), item |-> copied.at]

Kept(t, w) == LivePointers(t) \cup ({w} \ {NULL})

LEMMA RehashCopies ==
    ASSUME NEW h, NEW c, NEW w,
           \E g : IsCopies(h.table, c, w, SUBSET Kept(h.table, w), g)
    PROVE  \E f : /\ IsCopies(h.table, c, w, SUBSET Kept(h.table, w), f)
                  /\ Rehash(h, c, w) = Rehashed(h, f[Kept(h.table, w)])
<1> DEFINE copied == CHOOSE f : f =
               [ps \in SUBSET Kept(h.table, w) |->
                   IF ps = {} THEN Allocated(c)
                   ELSE LET p == IF w \in ps THEN w ELSE LastOf(ps)
                        IN  Copy(f[ps \ {p}], Deref(h.table, p))]
<1>1. IsCopies(h.table, c, w, SUBSET Kept(h.table, w), copied)
  BY Zenon DEF IsCopies, CopiesOf, NextOf
<1>2. Rehash(h, c, w) = Rehashed(h, copied[Kept(h.table, w)])
  BY Zenon DEF Rehash, Rehashed, Kept, WithTable
<1> HIDE DEF copied
<1> QED BY <1>1, <1>2

LEMMA CopiesExist ==
    ASSUME NEW t, NEW c, NEW w, NEW all \in SUBSET (Nat \X Nat), IsFiniteSet(all)
    PROVE  \E f : IsCopies(t, c, w, SUBSET all, f)
<1> DEFINE D(n) == {ps \in SUBSET all : Cardinality(ps) <= n}
           Missing(n) == ~\E f : IsCopies(t, c, w, D(n), f)
           T == {n \in Nat : Missing(n)}
<1>1. \A ps \in SUBSET all : IsFiniteSet(ps) /\ Cardinality(ps) \in Nat
                             /\ Cardinality(ps) <= Cardinality(all)
  BY FS_Subset, FS_CardinalityType
<1>2. CASE T = {}
  <2>1. Cardinality(all) \in Nat
    BY <1>1
  <2>2. D(Cardinality(all)) = SUBSET all
    BY <1>1
  <2>3. ~Missing(Cardinality(all))
    BY <1>2, <2>1
  <2> HIDE DEF D
  <2> QED BY <2>2, <2>3
<1>3. CASE T # {}
  <2>1. PICK n \in T : \A m \in T : n <= m
    <3> HIDE DEF T
    <3>1. T \in SUBSET Nat
      BY DEF T
    <3> QED BY <1>3, <3>1, LeastExists
  <2>2. n \in Nat /\ Missing(n)
    BY <2>1
  <2>3. \E f : \A ps \in D(n) : ps # {} =>
            /\ ps \ {NextOf(w, ps)} \in D(n)
            /\ f[ps \ {NextOf(w, ps)}] = CopiesOf(t, c, w, f, ps \ {NextOf(w, ps)})
    <3>1. CASE n = 0
      <4>1. \A ps \in D(n) : ps = {}
        <5> SUFFICES ASSUME NEW ps \in D(n) PROVE ps = {}
          OBVIOUS
        <5>1. IsFiniteSet(ps) /\ Cardinality(ps) = 0
          BY <1>1, <3>1
        <5> QED BY <5>1, FS_EmptySet
      <4> HIDE DEF D
      <4> QED BY <4>1
    <3>2. CASE n # 0
      <4>1. n - 1 \in Nat /\ n - 1 \notin T
        <5>1. n - 1 \in Nat /\ ~(n <= n - 1)
          BY <2>2, <3>2
        <5> HIDE DEF T
        <5> QED BY <2>1, <5>1
      <4>2. PICK f : IsCopies(t, c, w, D(n - 1), f)
        <5> HIDE DEF D
        <5> QED BY <4>1
      <4>3. ASSUME NEW ps \in D(n), ps # {}
            PROVE  ps \ {NextOf(w, ps)} \in D(n) /\ ps \ {NextOf(w, ps)} \in D(n - 1)
        <5>1. IsFiniteSet(ps) /\ ps \in SUBSET (Nat \X Nat)
          BY <1>1
        <5>2. PICK p \in ps : p = NextOf(w, ps)
          BY <4>3, <5>1, NextOfIs
        <5>3. Cardinality(ps \ {p}) = Cardinality(ps) - 1
          BY <5>1, FS_RemoveElement
        <5>4. Cardinality(ps) \in Nat /\ Cardinality(ps) <= n
          BY <1>1
        <5> QED BY <2>2, <5>2, <5>3, <5>4
      <4>4. \A qs \in D(n - 1) : f[qs] = CopiesOf(t, c, w, f, qs)
        <5> HIDE DEF D
        <5>1. f = [qs \in D(n - 1) |-> CopiesOf(t, c, w, f, qs)]
          BY <4>2, Zenon DEF IsCopies
        <5> QED BY <5>1, Zenon
      <4> HIDE DEF D
      <4> QED BY <4>3, <4>4
    <3> QED BY <3>1, <3>2
  <2>4. PICK f : \A ps \in D(n) : ps # {} =>
            /\ ps \ {NextOf(w, ps)} \in D(n)
            /\ f[ps \ {NextOf(w, ps)}] = CopiesOf(t, c, w, f, ps \ {NextOf(w, ps)})
    BY <2>3
  <2> HIDE DEF D
  <2>5. PICK g : g = [ps \in D(n) |-> CopiesOf(t, c, w, f, ps)]
    OBVIOUS
  <2>6. ASSUME NEW ps \in D(n) PROVE CopiesOf(t, c, w, g, ps) = CopiesOf(t, c, w, f, ps)
    <3>1. CASE ps = {}
      BY <3>1 DEF CopiesOf
    <3>2. CASE ps # {}
      <4>1. PICK qs : qs = ps \ {NextOf(w, ps)}
        OBVIOUS
      <4>2. qs \in D(n) /\ f[qs] = CopiesOf(t, c, w, f, qs)
        BY <2>4, <3>2, <4>1
      <4>3. g[qs] = f[qs]
        BY <2>5, <4>2
      <4> QED BY <4>1, <4>3, Zenon DEF CopiesOf
    <3> QED BY <3>1, <3>2
  <2>7. g = [ps \in D(n) |-> CopiesOf(t, c, w, g, ps)]
    BY <2>5, <2>6, Zenon
  <2>8. IsCopies(t, c, w, D(n), g)
    BY <2>7, Zenon DEF IsCopies
  <2> QED BY <2>2, <2>8
<1> QED BY <1>2, <1>3

-------------------------------------------------------------------------------
(* Buckets and pointers *)

LEMMA EntriesGrow ==
    ASSUME NEW bm, IsFiniteSet(bm), bm \subseteq Int, NEW x \in Int, NEW y \in Int, x <= y
    PROVE  /\ EntriesUpto(bm, x) <= EntriesUpto(bm, y)
           /\ x \in bm /\ x < y => EntriesUpto(bm, x) < EntriesUpto(bm, y)
<1> DEFINE low == {j \in bm : j < x}
           high == {j \in bm : j < y}
<1>1. high \subseteq bm /\ low \subseteq high
  <2>1. \A j \in bm : j \in Int /\ (j < x => j < y)
    OBVIOUS
  <2> QED BY <2>1
<1>2. x \in bm /\ x < y => x \in high /\ x \notin low
  OBVIOUS
<1> HIDE DEF low, high
<1>3. IsFiniteSet(high)
  BY <1>1, FS_Subset
<1>4. /\ IsFiniteSet(low) /\ Cardinality(low) <= Cardinality(high)
      /\ Cardinality(high) = Cardinality(low) => high = low
  BY <1>1, <1>3, FS_Subset
<1>5. Cardinality(low) \in Nat /\ Cardinality(high) \in Nat
  BY <1>3, <1>4, FS_CardinalityType
<1>6. EntriesUpto(bm, x) = Cardinality(low) /\ EntriesUpto(bm, y) = Cardinality(high)
  BY DEF EntriesUpto, low, high
<1> QED BY <1>2, <1>4, <1>5, <1>6

LEMMA EntriesAdd ==
    ASSUME NEW bm, IsFiniteSet(bm), NEW x \in Int, x \notin bm, NEW y \in Int
    PROVE  EntriesUpto(bm \cup {x}, y) = EntriesUpto(bm, y) + (IF x < y THEN 1 ELSE 0)
<1> DEFINE low == {j \in bm : j < y}
           new == {j \in bm \cup {x} : j < y}
<1>1. low \subseteq bm /\ x \notin low /\ new = IF x < y THEN low \cup {x} ELSE low
  OBVIOUS
<1> HIDE DEF low, new
<1>2. IsFiniteSet(low) /\ Cardinality(low) \in Nat
  BY <1>1, FS_Subset, FS_CardinalityType
<1>3. Cardinality(low \cup {x}) = Cardinality(low) + 1
  BY <1>1, <1>2, FS_AddElement
<1>4. Cardinality(new) = Cardinality(low) + (IF x < y THEN 1 ELSE 0)
  BY <1>1, <1>2, <1>3
<1> QED BY <1>4 DEF EntriesUpto, low, new

(* Each place of an array of items is that of an occupied bucket.            *)
LEMMA EntryOnto ==
    ASSUME NEW bm, IsFiniteSet(bm), bm \subseteq Int, NEW n, n = Cardinality(bm), NEW o \in 1 .. n
    PROVE  \E x \in bm : EntriesUpto(bm, x) + 1 = o
<1>1. n \in Nat
  BY FS_CardinalityType
<1> DEFINE f == [x \in bm |-> EntriesUpto(bm, x) + 1]
<1>2. ASSUME NEW x \in bm PROVE EntriesUpto(bm, x) + 1 \in 1 .. n
  <2>1. x \in Int
    OBVIOUS
  <2>2. EntriesUpto(bm, x) \in 0 .. n /\ EntriesUpto(bm, x) < n
    BY <2>1, EntriesAre
  <2> QED BY <1>1, <2>2
<1>3. f \in [bm -> 1 .. n]
  BY <1>2
<1>4. ASSUME NEW x \in bm, NEW y \in bm, x # y PROVE f[x] # f[y]
  <2>1. x \in Int /\ y \in Int /\ (x < y \/ y < x)
    <3>1. x \in Int /\ y \in Int
      OBVIOUS
    <3> QED BY <1>4, <3>1
  <2>2. EntriesUpto(bm, x) \in 0 .. n /\ EntriesUpto(bm, y) \in 0 .. n
    BY <2>1, EntriesAre
  <2>3. ASSUME x < y PROVE EntriesUpto(bm, x) < EntriesUpto(bm, y)
    <3>1. x <= y
      BY <2>1, <2>3
    <3> QED BY <2>1, <2>3, <3>1, EntriesGrow
  <2>4. ASSUME y < x PROVE EntriesUpto(bm, y) < EntriesUpto(bm, x)
    <3>1. y <= x
      BY <2>1, <2>4
    <3> QED BY <2>1, <2>4, <3>1, EntriesGrow
  <2> QED BY <1>1, <2>1, <2>2, <2>3, <2>4
<1>5. f \in Injection(bm, 1 .. n)
  <2>1. \A x, y \in bm : f[x] = f[y] => x = y
    BY <1>4
  <2> HIDE DEF f
  <2> QED BY <1>3, <2>1 DEF Injection, IsInjective
<1> HIDE DEF f
<1>6. IsFiniteSet(1 .. n) /\ Cardinality(1 .. n) = n
  BY <1>1, FS_Interval
<1>7. f \in Surjection(bm, 1 .. n)
  BY <1>5, <1>6, FS_Injection
<1>8. PICK x \in bm : f[x] = o
  BY <1>7 DEF Surjection
<1> QED BY <1>8 DEF f

(* The pointers are those of the occupied buckets, each to its own.          *)
LEMMA PointerOnto ==
    ASSUME NEW t \in Seq(Group), NEW p \in Pointers(t)
    PROVE  \E l \in Locations(t) : ~SparseIsEmpty(t, l) /\ Pointer(t, l) = p
<1>1. p = <<p[1], p[2]>> /\ p[1] \in DOMAIN t /\ p[2] \in 1 .. Len(t[p[1]].items)
  BY PointersAre
<1>2. PICK g, bm : g = p[1] /\ bm = t[g].bmOccupied
  OBVIOUS
<1>3. /\ IsFiniteSet(bm) /\ bm \subseteq 0 .. GroupSize - 1 /\ bm \subseteq Int
      /\ Len(t[g].items) = Cardinality(bm)
  <2>1. IsFiniteSet(bm) /\ bm \subseteq 0 .. GroupSize - 1 /\ Len(t[g].items) = Cardinality(bm)
    BY <1>1, <1>2, GroupIs
  <2> QED BY <2>1, GroupSizeIs
<1>4. p[2] \in 1 .. Cardinality(bm)
  BY <1>1, <1>2, <1>3
<1>5. PICK x \in bm : EntriesUpto(bm, x) + 1 = p[2]
  BY <1>3, <1>4, EntryOnto
<1>6. PICK l \in Locations(t) : GroupOf(l) = g /\ PositionOf(l) = x
  BY <1>1, <1>2, <1>3, PlaceOf
<1>7. ~SparseIsEmpty(t, l)
  BY <1>2, <1>6 DEF SparseIsEmpty
<1>8. Pointer(t, l) = <<g, EntriesUpto(bm, x) + 1>>
  BY <1>2, <1>6 DEF Pointer
<1> QED BY <1>1, <1>2, <1>5, <1>7, <1>8

LEMMA PointerOnce ==
    ASSUME NEW t \in Seq(Group), NEW l \in Locations(t), NEW m \in Locations(t),
           ~SparseIsEmpty(t, l), ~SparseIsEmpty(t, m), Pointer(t, l) = Pointer(t, m)
    PROVE  l = m
<1>1. PICK g \in DOMAIN t, k \in DOMAIN t : g = GroupOf(l) /\ k = GroupOf(m)
  BY PlaceIs
<1>2. PICK x \in 0 .. GroupSize - 1, y \in 0 .. GroupSize - 1 :
          x = PositionOf(l) /\ y = PositionOf(m)
  BY PlaceIs
<1>3. PICK bm : bm = t[g].bmOccupied
  OBVIOUS
<1>4. PICK d, e : d = EntriesUpto(bm, x) + 1 /\ e = EntriesUpto(t[k].bmOccupied, y) + 1
  OBVIOUS
<1>5. k = g /\ EntriesUpto(bm, x) + 1 = EntriesUpto(bm, y) + 1
  <2>1. Pointer(t, l) = <<g, d>> /\ Pointer(t, m) = <<k, e>>
    BY <1>1, <1>2, <1>3, <1>4 DEF Pointer
  <2>2. <<g, d>> = <<k, e>>
    BY <2>1
  <2>3. g = k /\ d = e
    BY <2>2
  <2> QED BY <1>3, <1>4, <2>3
<1>6. IsFiniteSet(bm) /\ bm \subseteq Int /\ x \in bm /\ y \in bm /\ x \in Int /\ y \in Int
  <2>1. IsFiniteSet(bm) /\ bm \subseteq 0 .. GroupSize - 1
    BY <1>3, GroupIs
  <2>2. x \in bm /\ y \in bm
    BY <1>1, <1>2, <1>3, <1>5 DEF SparseIsEmpty
  <2> QED BY <2>1, <2>2, GroupSizeIs
<1>7. PICK a \in Int, b \in Int : a = EntriesUpto(bm, x) /\ b = EntriesUpto(bm, y)
  BY <1>6, EntriesAre
<1>8. ASSUME x < y PROVE a < b
  <2>1. x <= y
    BY <1>6, <1>8
  <2> QED BY <1>6, <1>7, <1>8, <2>1, EntriesGrow
<1>9. ASSUME y < x PROVE b < a
  <2>1. y <= x
    BY <1>6, <1>9
  <2> QED BY <1>6, <1>7, <1>9, <2>1, EntriesGrow
<1>10. a = b
  BY <1>5, <1>7
<1>11. x = y
  BY <1>6, <1>8, <1>9, <1>10
<1>12. l = (GroupSize * (g - 1)) + x /\ m = (GroupSize * (k - 1)) + y
  BY <1>1, <1>2, PlaceIs
<1> QED BY <1>5, <1>11, <1>12

(* What a bucket holds: an item, live or deleted, or NULL.                   *)
Held(t, l) == IF SparseIsEmpty(t, l) THEN NULL ELSE Deref(t, Pointer(t, l))

LEMMA HeldIs ==
    ASSUME NEW t \in Seq(Group), NEW l \in Locations(t)
    PROVE  /\ SparseIsEmpty(t, l) => Held(t, l) = NULL
           /\ ~SparseIsEmpty(t, l) =>
                 /\ Pointer(t, l) \in Pointers(t) /\ Held(t, l) = Deref(t, Pointer(t, l))
                 /\ Held(t, l) \in Item /\ Held(t, l) # NULL
<1>1. NULL \notin Item
  BY HashTableAssumption DEF Item
<1>2. ASSUME ~SparseIsEmpty(t, l)
      PROVE  Pointer(t, l) \in Pointers(t) /\ Deref(t, Pointer(t, l)) \in Item
  <2>1. Pointer(t, l) \in Pointers(t)
    BY <1>2, PointerIs
  <2> QED BY <2>1, DerefIs
<1> QED BY <1>1, <1>2 DEF Held

(* t and u differ in one bucket only.                                        *)
Filled(t, u, l, item) ==
    /\ u \in Seq(Group) /\ Buckets(u) = Buckets(t)
    /\ \A m \in Locations(t) : Held(u, m) = IF m = l THEN item ELSE Held(t, m)

LEMMA StoreFills ==
    ASSUME NEW t \in Seq(Group), NEW l \in Locations(t), ~SparseIsEmpty(t, l), NEW item \in Item,
           NEW p, p = Pointer(t, l), NEW u, u = Store(t, p, item)
    PROVE  Filled(t, u, l, item)
<1>1. p \in Pointers(t)
  BY HeldIs
<1>2. /\ u \in Seq(Group) /\ Buckets(u) = Buckets(t)
      /\ \A q \in Pointers(t) : Deref(u, q) = IF q = p THEN item ELSE Deref(t, q)
  BY <1>1, StoreIs
<1>3. ASSUME NEW g \in DOMAIN t PROVE u[g].bmOccupied = t[g].bmOccupied
  <2>1. PICK o : o = p[2]
    OBVIOUS
  <2>2. u = [t EXCEPT ![p[1]] = [t[p[1]] EXCEPT !.items = [t[p[1]].items EXCEPT ![o] = item]]]
    <3>1. u = [t EXCEPT ![p[1]].items[o] = item]
      BY <2>1 DEF Store
    <3> QED BY <3>1
  <2>3. CASE g = p[1]
    <3>1. u[g] = [t[g] EXCEPT !.items = [t[g].items EXCEPT ![o] = item]]
      BY <2>2, <2>3
    <3>2. t[g] \in [bmOccupied : SUBSET (0 .. GroupSize - 1), items : Seq(Item)]
      BY GroupIs DEF Group, SparseBin
    <3> QED BY <3>1, <3>2
  <2>4. CASE g # p[1]
    BY <2>2, <2>4
  <2> QED BY <2>3, <2>4
<1>4. ASSUME NEW m \in Locations(t)
      PROVE  (SparseIsEmpty(u, m) <=> SparseIsEmpty(t, m)) /\ Pointer(u, m) = Pointer(t, m)
  <2>1. GroupOf(m) \in DOMAIN t
    BY PlaceIs
  <2>2. u[GroupOf(m)].bmOccupied = t[GroupOf(m)].bmOccupied
    BY <1>3, <2>1
  <2> QED BY <2>2 DEF SparseIsEmpty, Pointer
<1>5. ASSUME NEW m \in Locations(t) PROVE Held(u, m) = IF m = l THEN item ELSE Held(t, m)
  <2>1. CASE SparseIsEmpty(t, m)
    BY <1>4, <2>1 DEF Held
  <2>2. CASE ~SparseIsEmpty(t, m)
    <3>1. Pointer(t, m) \in Pointers(t) /\ (Pointer(t, m) = p <=> m = l)
      BY <2>2, HeldIs, PointerOnce
    <3>2. Held(u, m) = Deref(u, Pointer(t, m)) /\ Held(t, m) = Deref(t, Pointer(t, m))
      BY <1>4, <2>2 DEF Held
    <3> QED BY <1>2, <3>1, <3>2
  <2> QED BY <2>1, <2>2
<1> QED BY <1>2, <1>5 DEF Filled

LEMMA InsertFills ==
    ASSUME NEW t \in Seq(Group), NEW l \in Locations(t), SparseIsEmpty(t, l), NEW item \in Item,
           NEW f, NEW r, r = SparseInsert(t, item, l, f)
    PROVE  /\ Filled(t, r.table, l, item)
           /\ r.at = Pointer(r.table, l) /\ ~SparseIsEmpty(r.table, l)
<1>1. PICK g \in DOMAIN t : g = GroupOf(l)
  BY PlaceIs
<1>2. PICK x \in 0 .. GroupSize - 1 : x = PositionOf(l)
  BY PlaceIs
<1>3. PICK bm : bm = t[g].bmOccupied
  OBVIOUS
<1>4. PICK o \in 1 .. Len(t[g].items) + 1 : Pointer(t, l) = <<g, o>>
  BY <1>1, PointerIs
<1>5. PICK p : p = <<g, o>>
  OBVIOUS
<1>6. p[1] = g /\ p[2] = o
  BY <1>5
<1>7. x \notin bm /\ IsFiniteSet(bm) /\ bm \subseteq Int /\ x \in Int
  <2>1. x \notin bm
    BY <1>1, <1>2, <1>3 DEF SparseIsEmpty
  <2>2. IsFiniteSet(bm) /\ bm \subseteq 0 .. GroupSize - 1
    BY <1>3, GroupIs
  <2> QED BY <2>1, <2>2, GroupSizeIs
<1>8. PICK u : u = r.table
  OBVIOUS
<1>9. u = Grown(t, g, x, o, item) /\ r.at = p
  <2>1. [t EXCEPT ![p[1]] = [bmOccupied |-> @.bmOccupied \cup {x},
                             items |-> InsertAt(@.items, p[2], item)]]
          = Grown(t, g, x, o, item)
    BY <1>6 DEF Grown
  <2> QED BY <1>2, <1>4, <1>5, <1>8, <2>1 DEF SparseInsert
<1>10. PICK z : z = <<g, Len(t[g].items) + 1>>
  OBVIOUS
<1>11. HasGrown(t, u, p, z, item)
  BY <1>3, <1>5, <1>7, <1>9, <1>10, GrownIs
<1>12. /\ u \in Seq(Group) /\ Buckets(u) = Buckets(t) /\ Deref(u, p) = item
       /\ \A q \in Pointers(t) : Deref(u, Shift(p, q)) = Deref(t, q)
  BY <1>11 DEF HasGrown
<1>13. u[g].bmOccupied = bm \cup {x} /\ \A k \in DOMAIN t : k # g => u[k] = t[k]
  BY <1>3, <1>9 DEF Grown
<1>14. PICK a \in Int : a = EntriesUpto(bm, x)
  BY <1>7, EntriesAre
<1>15. o = a + 1
  <2>1. Pointer(t, l) = <<g, a + 1>>
    BY <1>1, <1>2, <1>3, <1>14 DEF Pointer
  <2>2. <<g, a + 1>> = <<g, o>>
    BY <1>4, <2>1
  <2> QED BY <2>2
<1>16. ~SparseIsEmpty(u, l) /\ Pointer(u, l) = p
  <2>1. ~SparseIsEmpty(u, l)
    BY <1>1, <1>2, <1>13 DEF SparseIsEmpty
  <2>2. EntriesUpto(bm \cup {x}, x) = a
    <3>1. EntriesUpto(bm \cup {x}, x) = EntriesUpto(bm, x) + (IF x < x THEN 1 ELSE 0)
      BY <1>7, EntriesAdd
    <3>2. ~(x < x)
      BY <1>7
    <3> QED BY <1>14, <3>1, <3>2
  <2>3. Pointer(u, l) = <<g, EntriesUpto(bm \cup {x}, x) + 1>>
    BY <1>1, <1>2, <1>13 DEF Pointer
  <2> QED BY <1>5, <1>15, <2>1, <2>2, <2>3
<1>17. ASSUME NEW m \in Locations(t), m # l PROVE Held(u, m) = Held(t, m)
  <2>1. PICK k \in DOMAIN t, y \in 0 .. GroupSize - 1 : k = GroupOf(m) /\ y = PositionOf(m)
    BY PlaceIs
  <2>2. CASE k # g
    <3>1. u[k] = t[k]
      BY <1>13, <2>2
    <3>2. SparseIsEmpty(u, m) <=> SparseIsEmpty(t, m)
      BY <2>1, <3>1 DEF SparseIsEmpty
    <3>3. PICK e : e = EntriesUpto(t[k].bmOccupied, y) + 1
      OBVIOUS
    <3>4. Pointer(u, m) = <<k, e>> /\ Pointer(t, m) = <<k, e>>
      BY <2>1, <3>1, <3>3 DEF Pointer
    <3>5. Deref(u, <<k, e>>) = Deref(t, <<k, e>>)
      <4>1. PICK q : q = <<k, e>>
        OBVIOUS
      <4>2. q[1] = k
        BY <4>1
      <4> QED BY <3>1, <4>1, <4>2 DEF Deref
    <3> QED BY <3>2, <3>4, <3>5 DEF Held
  <2>3. CASE k = g
    <3>1. x # y
      <4>1. l = (GroupSize * (GroupOf(l) - 1)) + PositionOf(l)
        BY PlaceIs
      <4>2. m = (GroupSize * (GroupOf(m) - 1)) + PositionOf(m)
        BY PlaceIs
      <4> QED BY <1>1, <1>2, <1>17, <2>1, <2>3, <4>1, <4>2
    <3>2. y \in Int /\ (x < y \/ y < x)
      <4>1. y \in Int
        BY GroupSizeIs
      <4> QED BY <1>7, <3>1, <4>1
    <3>3. SparseIsEmpty(u, m) <=> SparseIsEmpty(t, m)
      BY <1>3, <1>13, <2>1, <2>3, <3>1 DEF SparseIsEmpty
    <3>4. CASE SparseIsEmpty(t, m)
      BY <3>3, <3>4 DEF Held
    <3>5. CASE ~SparseIsEmpty(t, m)
      <4>1. y \in bm
        BY <1>3, <2>1, <2>3, <3>5 DEF SparseIsEmpty
      <4>2. PICK b \in Int : b = EntriesUpto(bm, y)
        BY <1>7, <3>2, EntriesAre
      <4>3. PICK q : q = <<g, b + 1>>
        OBVIOUS
      <4>4. q[1] = g /\ q[2] = b + 1
        BY <4>3
      <4>5. Pointer(t, m) = q
        BY <1>3, <2>1, <2>3, <4>2, <4>3 DEF Pointer
      <4>6. EntriesUpto(bm \cup {x}, y) = EntriesUpto(bm, y) + (IF x < y THEN 1 ELSE 0)
        BY <1>7, <3>2, EntriesAdd
      <4>7. Pointer(u, m) = <<g, EntriesUpto(bm \cup {x}, y) + 1>>
        BY <1>13, <2>1, <2>3 DEF Pointer
      <4>8. Pointer(u, m) = Shift(p, q)
        <5>1. CASE x < y
          <6>1. x <= y
            BY <1>7, <3>2, <5>1
          <6>2. a <= b
            BY <1>7, <1>14, <3>2, <4>2, <6>1, EntriesGrow
          <6>3. q[2] >= p[2]
            BY <1>6, <1>15, <4>4, <6>2
          <6>4. Shift(p, q) = <<g, b + 1 + 1>>
            BY <1>6, <4>4, <6>3 DEF Shift
          <6>5. Pointer(u, m) = <<g, b + 1 + 1>>
            BY <4>2, <4>6, <4>7, <5>1
          <6> QED BY <6>4, <6>5
        <5>2. CASE y < x
          <6>1. y <= x /\ ~(x < y)
            BY <1>7, <3>2, <5>2
          <6>2. b < a
            BY <1>7, <1>14, <3>2, <4>1, <4>2, <5>2, <6>1, EntriesGrow
          <6>3. ~(q[2] >= p[2])
            BY <1>6, <1>15, <4>4, <6>2
          <6>4. Shift(p, q) = q
            BY <6>3 DEF Shift
          <6>5. EntriesUpto(bm \cup {x}, y) + 1 = b + 1
            BY <4>2, <4>6, <6>1
          <6> QED BY <4>3, <4>7, <6>4, <6>5
        <5> QED BY <3>2, <5>1, <5>2
      <4>9. Deref(u, Shift(p, q)) = Deref(t, q)
        BY <1>12, <3>5, <4>5, HeldIs
      <4> QED BY <3>3, <3>5, <4>5, <4>8, <4>9 DEF Held
    <3> QED BY <3>4, <3>5
  <2> QED BY <2>2, <2>3
<1>18. Held(u, l) = item
  BY <1>12, <1>16 DEF Held
<1> QED BY <1>8, <1>9, <1>12, <1>16, <1>17, <1>18 DEF Filled

-------------------------------------------------------------------------------
(* Keys and where they are found *)

LiveAt(t, l) == Held(t, l) # NULL /\ Held(t, l).data # DELETED
Without(t, l) == {Held(t, m) : m \in {k \in Locations(t) : k # l /\ LiveAt(t, k)}}
NewOf(item) == IF item.data = DELETED THEN {} ELSE {item}

(* The first i probes of a key meet no empty bucket.                         *)
Passes(t, key, i) == \A j \in 0 .. i - 1 : Held(t, Probe(key, j, Buckets(t))) # NULL

Reached(t, key, l) ==
    \E i \in 0 .. Buckets(t) - 1 : Probe(key, i, Buckets(t)) = l /\ Passes(t, key, i)

(* Every live item is met by the search for its key, and none has the key of *)
(* another.                                                                  *)
Chained(t) ==
    /\ \A l \in Locations(t) : LiveAt(t, l) => Reached(t, Held(t, l).key, l)
    /\ \A l, m \in Locations(t) :
          LiveAt(t, l) /\ LiveAt(t, m) /\ Held(t, l).key = Held(t, m).key => l = m

LEMMA LiveAtIs ==
    ASSUME NEW t \in Seq(Group), NEW l \in Locations(t)
    PROVE  /\ LiveAt(t, l) <=> ~SparseIsEmpty(t, l) /\ Pointer(t, l) \in LivePointers(t)
           /\ LiveAt(t, l) => Held(t, l) = Deref(t, Pointer(t, l)) /\ Held(t, l) \in Item
                              /\ Held(t, l).key \in Keys
<1>1. CASE SparseIsEmpty(t, l)
  BY <1>1, HeldIs DEF LiveAt
<1>2. CASE ~SparseIsEmpty(t, l)
  <2>1. /\ Pointer(t, l) \in Pointers(t) /\ Held(t, l) = Deref(t, Pointer(t, l))
        /\ Held(t, l) \in Item /\ Held(t, l) # NULL
    BY <1>2, HeldIs
  <2>2. Held(t, l).key \in Keys
    BY <2>1 DEF Item
  <2> QED BY <1>2, <2>1, <2>2 DEF LiveAt, LivePointers, IsDeleted
<1> QED BY <1>1, <1>2

LEMMA LiveOnto ==
    ASSUME NEW t \in Seq(Group), NEW p \in LivePointers(t)
    PROVE  \E l \in Locations(t) : LiveAt(t, l) /\ Pointer(t, l) = p /\ Held(t, l) = Deref(t, p)
<1>1. p \in Pointers(t)
  BY LiveAre
<1>2. PICK l \in Locations(t) : ~SparseIsEmpty(t, l) /\ Pointer(t, l) = p
  BY <1>1, PointerOnto
<1> QED BY <1>2, LiveAtIs

LEMMA ContentsAre ==
    ASSUME NEW t \in Seq(Group)
    PROVE  Contents(t) = {Held(t, l) : l \in {m \in Locations(t) : LiveAt(t, m)}}
<1>1. ASSUME NEW i \in Contents(t)
      PROVE  i \in {Held(t, l) : l \in {m \in Locations(t) : LiveAt(t, m)}}
  <2>1. PICK p \in LivePointers(t) : i = Deref(t, p)
    BY DEF Contents
  <2>2. PICK l \in Locations(t) : LiveAt(t, l) /\ Held(t, l) = Deref(t, p)
    BY LiveOnto
  <2> QED BY <2>1, <2>2
<1>2. ASSUME NEW l \in Locations(t), LiveAt(t, l) PROVE Held(t, l) \in Contents(t)
  <2>1. Pointer(t, l) \in LivePointers(t) /\ Held(t, l) = Deref(t, Pointer(t, l))
    BY <1>2, LiveAtIs
  <2> QED BY <2>1 DEF Contents
<1> QED BY <1>1, <1>2

(* The rest of a table is all of it, or all but the item in the bucket.      *)
LEMMA WithoutIs ==
    ASSUME NEW t \in Seq(Group), Chained(t), NEW l \in Locations(t)
    PROVE  /\ ~LiveAt(t, l) => Without(t, l) = Contents(t)
           /\ LiveAt(t, l) => Without(t, l) = Contents(t) \ {Held(t, l)}
<1>1. ASSUME ~LiveAt(t, l) PROVE Without(t, l) = Contents(t)
  <2>1. {k \in Locations(t) : k # l /\ LiveAt(t, k)} = {m \in Locations(t) : LiveAt(t, m)}
    BY <1>1
  <2> QED BY <2>1, ContentsAre DEF Without
<1>2. ASSUME LiveAt(t, l) PROVE Without(t, l) = Contents(t) \ {Held(t, l)}
  <2>1. ASSUME NEW m \in Locations(t), m # l, LiveAt(t, m) PROVE Held(t, m) # Held(t, l)
    BY <1>2, <2>1 DEF Chained
  <2>2. Without(t, l) \subseteq Contents(t) \ {Held(t, l)}
    BY <2>1, ContentsAre DEF Without
  <2>3. ASSUME NEW i \in Contents(t), i # Held(t, l) PROVE i \in Without(t, l)
    <3>1. PICK m \in Locations(t) : LiveAt(t, m) /\ i = Held(t, m)
      BY ContentsAre
    <3>2. m # l
      BY <2>3, <3>1
    <3> QED BY <3>1, <3>2 DEF Without
  <2> QED BY <2>2, <2>3
<1> QED BY <1>1, <1>2

LEMMA FilledChained ==
    ASSUME NEW t \in Seq(Group), PowerOf2(Buckets(t)), Chained(t),
           NEW l \in Locations(t), NEW item \in Item, NEW u, Filled(t, u, l, item),
           item.data # DELETED => Reached(t, item.key, l),
           item.data # DELETED =>
              \A m \in Locations(t) : m # l /\ LiveAt(t, m) => Held(t, m).key # item.key
    PROVE  Chained(u) /\ Contents(u) = Without(t, l) \cup NewOf(item)
<1>1. PICK c : c = Buckets(t)
  OBVIOUS
<1>2. /\ u \in Seq(Group) /\ Buckets(u) = c
      /\ Locations(u) = Locations(t) /\ Locations(t) = 0 .. c - 1
      /\ PowerOf2(c)
  BY <1>1 DEF Filled, Locations
<1>3. NULL \notin Item
  BY HashTableAssumption DEF Item
<1>4. /\ Held(u, l) = item /\ \A m \in Locations(t) : m # l => Held(u, m) = Held(t, m)
      /\ LiveAt(u, l) <=> item.data # DELETED
      /\ \A m \in Locations(t) : m # l => (LiveAt(u, m) <=> LiveAt(t, m))
  BY <1>3 DEF Filled, LiveAt
<1>5. ASSUME NEW key \in Keys, NEW i \in 0 .. c - 1, Passes(t, key, i) PROVE Passes(u, key, i)
  <2>1. ASSUME NEW j \in 0 .. i - 1 PROVE Held(u, Probe(key, j, c)) # NULL
    <3>1. j \in Nat
      OBVIOUS
    <3>2. Probe(key, j, c) \in Locations(t)
      BY <1>2, <3>1, ProbeIs
    <3>3. Held(t, Probe(key, j, c)) # NULL
      BY <1>1, <1>5 DEF Passes
    <3> QED BY <1>3, <1>4, <3>2, <3>3
  <2> QED BY <1>2, <2>1 DEF Passes
<1>6. ASSUME NEW key \in Keys, NEW m, Reached(t, key, m) PROVE Reached(u, key, m)
  <2>1. PICK i \in 0 .. c - 1 : Probe(key, i, c) = m /\ Passes(t, key, i)
    BY <1>1, <1>6 DEF Reached
  <2>2. Passes(u, key, i)
    BY <1>5, <2>1
  <2> QED BY <1>2, <2>1, <2>2 DEF Reached
<1>7. item.key \in Keys
  BY DEF Item
<1>8. ASSUME NEW m \in Locations(u), LiveAt(u, m) PROVE Reached(u, Held(u, m).key, m)
  <2>1. CASE m = l
    BY <1>4, <1>6, <1>7, <1>8, <2>1
  <2>2. CASE m # l
    <3>1. LiveAt(t, m) /\ Held(u, m) = Held(t, m)
      BY <1>2, <1>4, <1>8, <2>2
    <3>2. Held(t, m).key \in Keys /\ Reached(t, Held(t, m).key, m)
      BY <1>2, <3>1, LiveAtIs DEF Chained
    <3> QED BY <1>6, <3>1, <3>2
  <2> QED BY <2>1, <2>2
<1>9. ASSUME NEW m \in Locations(u), NEW n \in Locations(u), LiveAt(u, m), LiveAt(u, n),
             Held(u, m).key = Held(u, n).key
      PROVE  m = n
  <2>1. m \in Locations(t) /\ n \in Locations(t)
    BY <1>2
  <2>2. CASE m = l \/ n = l
    BY <1>4, <1>9, <2>1, <2>2
  <2>3. CASE m # l /\ n # l
    BY <1>4, <1>9, <2>1, <2>3 DEF Chained
  <2> QED BY <2>2, <2>3
<1>10. Contents(u) = Without(t, l) \cup NewOf(item)
  <2>1. Contents(u) = {Held(u, m) : m \in {k \in Locations(t) : LiveAt(u, k)}}
    BY <1>2, ContentsAre
  <2>2. ASSUME NEW i \in Contents(u) PROVE i \in Without(t, l) \cup NewOf(item)
    <3>1. PICK m \in Locations(t) : LiveAt(u, m) /\ i = Held(u, m)
      BY <2>1
    <3>2. CASE m = l
      BY <1>4, <3>1, <3>2 DEF NewOf
    <3>3. CASE m # l
      BY <1>4, <3>1, <3>3 DEF Without
    <3> QED BY <3>2, <3>3
  <2>3. ASSUME NEW i \in Without(t, l) PROVE i \in Contents(u)
    <3>1. PICK m \in Locations(t) : m # l /\ LiveAt(t, m) /\ i = Held(t, m)
      BY DEF Without
    <3> QED BY <1>4, <2>1, <3>1
  <2>4. ASSUME NEW i \in NewOf(item) PROVE i \in Contents(u)
    <3>1. i = item /\ item.data # DELETED
      BY DEF NewOf
    <3> QED BY <1>4, <2>1, <3>1
  <2> QED BY <2>2, <2>3, <2>4
<1> QED BY <1>8, <1>9, <1>10 DEF Chained

(* The search finds the item of the key, if there is one; if not, it says    *)
(* where to put it.                                                          *)
LEMMA SearchIs ==
    ASSUME NEW t, Roomy(t), Chained(t), NEW key \in Keys, NEW r, r = Find(t, key)
    PROVE  /\ r.item # NULL => r.item \in LivePointers(t) /\ Deref(t, r.item).key = key
           /\ r.item = NULL =>
                 /\ \A i \in Contents(t) : i.key # key
                 /\ r.empty \in Locations(t) /\ ~LiveAt(t, r.empty) /\ Reached(t, key, r.empty)
<1>1. PICK c : c = Buckets(t) /\ c \in Nat /\ PowerOf2(c)
  BY TableIs DEF Roomy
<1>2. t \in Seq(Group)
  BY DEF Roomy
<1>3. PICK stop \in Stops(t, key) : Searched(t, key, r, stop)
  BY FindSearches
<1>4. stop \in 0 .. c - 1
  BY <1>1 DEF Stops
<1>5. /\ \A i \in 0 .. stop - 1 :
            /\ SparseFind(t, Probe(key, i, c)) # NULL
            /\ \/ IsDeleted(t, SparseFind(t, Probe(key, i, c)))
               \/ Deref(t, SparseFind(t, Probe(key, i, c))).key # key
      /\ r.item = SparseFind(t, Probe(key, stop, c))
      /\ r.item # NULL => ~IsDeleted(t, r.item) /\ Deref(t, r.item).key = key
      /\ r.item = NULL =>
            \E m \in 0 .. stop :
                /\ r.empty = Probe(key, m, c)
                /\ \/ SparseFind(t, Probe(key, m, c)) = NULL
                   \/ IsDeleted(t, SparseFind(t, Probe(key, m, c)))
                /\ \A i \in 0 .. m - 1 : SparseFind(t, Probe(key, i, c)) # NULL
  BY <1>1, <1>3 DEF Searched
<1>6. \A i \in 0 .. c - 1 : Probe(key, i, c) \in Locations(t)
  BY <1>1, ProbeHits
<1>7. ASSUME NEW l \in Locations(t)
      PROVE  /\ SparseFind(t, l) = NULL <=> Held(t, l) = NULL
             /\ SparseFind(t, l) # NULL =>
                   /\ SparseFind(t, l) \in Pointers(t) /\ Held(t, l) = Deref(t, SparseFind(t, l))
                   /\ LiveAt(t, l) <=> ~IsDeleted(t, SparseFind(t, l))
  <2>1. CASE SparseIsEmpty(t, l)
    BY <1>2, <2>1, SparseFindIs, HeldIs
  <2>2. CASE ~SparseIsEmpty(t, l)
    BY <1>2, <2>2, SparseFindIs, HeldIs DEF LiveAt, IsDeleted
  <2> QED BY <2>1, <2>2
<1>8. ASSUME r.item # NULL PROVE r.item \in LivePointers(t) /\ Deref(t, r.item).key = key
  <2>1. r.item \in Pointers(t)
    BY <1>4, <1>5, <1>6, <1>7, <1>8
  <2> QED BY <1>5, <1>8, <2>1 DEF LivePointers
<1>9. ASSUME r.item = NULL, NEW i \in Contents(t) PROVE i.key # key
  <2>1. PICK l \in Locations(t) : LiveAt(t, l) /\ i = Held(t, l)
    BY <1>2, ContentsAre
  <2> SUFFICES ASSUME i.key = key PROVE FALSE
    OBVIOUS
  <2>2. Reached(t, key, l)
    BY <2>1 DEF Chained
  <2>3. PICK k \in 0 .. c - 1 : Probe(key, k, c) = l /\ Passes(t, key, k)
    BY <1>1, <2>2 DEF Reached
  <2>4. Held(t, Probe(key, stop, c)) = NULL
    BY <1>4, <1>5, <1>6, <1>7, <1>9
  <2>5. ~(stop < k)
    <3>1. stop < k => stop \in 0 .. k - 1
      BY <1>1, <1>4
    <3> QED BY <1>1, <2>3, <2>4, <3>1 DEF Passes
  <2>6. stop # k
    BY <2>1, <2>3, <2>4 DEF LiveAt
  <2>7. k \in 0 .. stop - 1
    BY <1>1, <1>4, <2>5, <2>6
  <2>8. /\ SparseFind(t, l) # NULL
        /\ IsDeleted(t, SparseFind(t, l)) \/ Deref(t, SparseFind(t, l)).key # key
    BY <1>5, <2>3, <2>7
  <2> QED BY <1>7, <2>1, <2>8
<1>10. ASSUME r.item = NULL
       PROVE  r.empty \in Locations(t) /\ ~LiveAt(t, r.empty) /\ Reached(t, key, r.empty)
  <2>1. PICK m \in 0 .. stop :
            /\ r.empty = Probe(key, m, c)
            /\ \/ SparseFind(t, Probe(key, m, c)) = NULL
               \/ IsDeleted(t, SparseFind(t, Probe(key, m, c)))
            /\ \A i \in 0 .. m - 1 : SparseFind(t, Probe(key, i, c)) # NULL
    BY <1>5, <1>10
  <2>2. m \in 0 .. c - 1 /\ \A i \in 0 .. m - 1 : i \in 0 .. c - 1
    BY <1>1, <1>4
  <2>3. r.empty \in Locations(t)
    BY <1>6, <2>1, <2>2
  <2>4. ~LiveAt(t, r.empty)
    BY <1>7, <2>1, <2>3 DEF LiveAt
  <2>5. Passes(t, key, m)
    <3>1. ASSUME NEW i \in 0 .. m - 1 PROVE Held(t, Probe(key, i, c)) # NULL
      BY <1>6, <1>7, <2>1, <2>2
    <3> QED BY <1>1, <3>1 DEF Passes
  <2> QED BY <1>1, <2>1, <2>2, <2>3, <2>4, <2>5 DEF Reached
<1> QED BY <1>8, <1>9, <1>10

LEMMA FirstEmptyReached ==
    ASSUME NEW t, Roomy(t), NEW key \in Keys
    PROVE  Reached(t, key, FirstEmpty(t, key))
<1>1. PICK c : c = Buckets(t) /\ c \in Nat
  BY TableIs DEF Roomy
<1>2. PICK T : T = {i \in 0 .. c - 1 : SparseIsEmpty(t, Probe(key, i, c))}
  OBVIOUS
<1>3. T \in SUBSET Nat /\ T # {}
  BY <1>1, <1>2, EmptyProbe
<1>4. PICK m : m = Min(T)
  OBVIOUS
<1>5. m \in T /\ \A i \in T : m <= i
  BY <1>3, <1>4, MinIs
<1>6. FirstEmpty(t, key) = Probe(key, m, c) /\ m \in 0 .. c - 1
  BY <1>1, <1>2, <1>4, <1>5 DEF FirstEmpty
<1>7. ASSUME NEW j \in 0 .. m - 1 PROVE Held(t, Probe(key, j, c)) # NULL
  <2>1. j \in 0 .. c - 1 /\ ~(m <= j)
    BY <1>1, <1>6
  <2>2. ~SparseIsEmpty(t, Probe(key, j, c))
    BY <1>2, <1>5, <2>1
  <2>3. Probe(key, j, c) \in Locations(t) /\ t \in Seq(Group)
    BY <1>1, <2>1, ProbeHits DEF Roomy
  <2> QED BY <2>2, <2>3, HeldIs
<1>8. Passes(t, key, m)
  BY <1>1, <1>7 DEF Passes
<1> QED BY <1>1, <1>6, <1>8 DEF Reached

(* No two live items have one key.                                           *)
LEMMA KeysOnce ==
    ASSUME NEW t \in Seq(Group), Chained(t), NEW p \in LivePointers(t), NEW q \in LivePointers(t),
           Deref(t, p).key = Deref(t, q).key
    PROVE  p = q
<1>1. PICK l \in Locations(t) : LiveAt(t, l) /\ Pointer(t, l) = p /\ Held(t, l) = Deref(t, p)
  BY LiveOnto
<1>2. PICK m \in Locations(t) : LiveAt(t, m) /\ Pointer(t, m) = q /\ Held(t, m) = Deref(t, q)
  BY LiveOnto
<1>3. l = m
  BY <1>1, <1>2 DEF Chained
<1> QED BY <1>1, <1>2, <1>3

(* A new key, put where the search for it comes to.                          *)
Fits(t, item, l) ==
    Reached(t, item.key, l) /\ \A i \in Contents(t) : i.key # item.key

LEMMA FittingChained ==
    ASSUME NEW t \in Seq(Group), PowerOf2(Buckets(t)), Chained(t), NEW item \in Item,
           NEW l \in Locations(t), ~LiveAt(t, l), item.data # DELETED => Fits(t, item, l),
           NEW u, Filled(t, u, l, item)
    PROVE  Chained(u) /\ Contents(u) = Contents(t) \cup NewOf(item)
<1>1. item.data # DELETED => Reached(t, item.key, l)
  BY DEF Fits
<1>2. item.data # DELETED =>
         \A m \in Locations(t) : m # l /\ LiveAt(t, m) => Held(t, m).key # item.key
  <2>1. \A m \in Locations(t) : LiveAt(t, m) => Held(t, m) \in Contents(t)
    BY ContentsAre
  <2> QED BY <2>1 DEF Fits
<1>3. Chained(u) /\ Contents(u) = Without(t, l) \cup NewOf(item)
  BY <1>1, <1>2, FilledChained
<1> QED BY <1>3, WithoutIs

LEMMA PutChained ==
    ASSUME NEW t \in Seq(Group), PowerOf2(Buckets(t)), Chained(t), NEW item \in Item,
           NEW l \in Locations(t), SparseIsEmpty(t, l), item.data # DELETED => Fits(t, item, l),
           NEW f, NEW r, r = SparseInsert(t, item, l, f)
    PROVE  Chained(r.table) /\ Contents(r.table) = Contents(t) \cup NewOf(item)
<1>1. Filled(t, r.table, l, item)
  BY InsertFills
<1>2. ~LiveAt(t, l)
  BY LiveAtIs
<1> QED BY <1>1, <1>2, FittingChained

LEMMA StoreChained ==
    ASSUME NEW t \in Seq(Group), PowerOf2(Buckets(t)), Chained(t), NEW item \in Item,
           NEW p \in LivePointers(t), item.key = Deref(t, p).key, NEW u, u = Store(t, p, item)
    PROVE  Chained(u) /\ Contents(u) = (Contents(t) \ {Deref(t, p)}) \cup NewOf(item)
<1>1. PICK l \in Locations(t) : LiveAt(t, l) /\ Pointer(t, l) = p /\ Held(t, l) = Deref(t, p)
  BY LiveOnto
<1>2. Filled(t, u, l, item)
  BY <1>1, LiveAtIs, StoreFills
<1>3. Reached(t, item.key, l)
  BY <1>1 DEF Chained
<1>4. \A m \in Locations(t) : m # l /\ LiveAt(t, m) => Held(t, m).key # item.key
  BY <1>1 DEF Chained
<1>5. Chained(u) /\ Contents(u) = Without(t, l) \cup NewOf(item)
  BY <1>2, <1>3, <1>4, FilledChained
<1>6. Without(t, l) = Contents(t) \ {Deref(t, p)}
  BY <1>1, WithoutIs
<1> QED BY <1>5, <1>6

-------------------------------------------------------------------------------
(* Rehashing *)

(* The table is searched rightly, and these are its live items.              *)
HasItems(t, items) == Chained(t) /\ Contents(t) = items

LEMMA EmptyChained ==
    ASSUME NEW t \in Seq(Group), LivePointers(t) = {}
    PROVE  HasItems(t, {})
<1>1. \A l \in Locations(t) : ~LiveAt(t, l)
  BY LiveAtIs
<1>2. Contents(t) = {}
  BY DEF Contents
<1> QED BY <1>1, <1>2 DEF HasItems, Chained

LEMMA CopyChained ==
    ASSUME NEW to, Roomy(to.table), Chained(to.table), NEW item \in Item,
           item.data # DELETED => \A i \in Contents(to.table) : i.key # item.key,
           NEW r, r = Copy(to, item)
    PROVE  HasItems(r.table, Contents(to.table) \cup NewOf(item))
<1>1. PICK t \in Seq(Group) : t = to.table /\ PowerOf2(Buckets(t)) /\ Roomy(t) /\ Chained(t)
  BY DEF Roomy
<1>2. PICK key \in Keys : key = item.key
  BY DEF Item
<1>3. PICK l : l = FirstEmpty(t, key)
  OBVIOUS
<1>4. l \in Locations(t) /\ SparseIsEmpty(t, l) /\ Reached(t, key, l)
  BY <1>1, <1>3, FirstEmptyIs, FirstEmptyReached
<1>5. PICK f : f = FALSE
  OBVIOUS
<1>6. r = SparseInsert(t, item, l, f)
  <2>1. r = SparseInsert(t, item, l, FALSE)
    BY <1>1, <1>2, <1>3, Zenon DEF Copy
  <2> QED BY <1>5, <2>1, Zenon
<1>7. item.data # DELETED => Fits(t, item, l)
  BY <1>1, <1>2, <1>4 DEF Fits
<1>8. Chained(r.table) /\ Contents(r.table) = Contents(t) \cup NewOf(item)
  BY <1>1, <1>4, <1>6, <1>7, PutChained
<1> QED BY <1>1, <1>8 DEF HasItems

(* The live ones of some items.                                              *)
LiveOf(t, ps) == {Deref(t, p) : p \in {q \in ps : ~IsDeleted(t, q)}}

LEMMA LiveOfIs ==
    ASSUME NEW t \in Seq(Group), NEW ps \in SUBSET Pointers(t), NEW p \in ps
    PROVE  /\ LiveOf(t, ps) = LiveOf(t, ps \ {p}) \cup NewOf(Deref(t, p))
           /\ Chained(t) /\ ~IsDeleted(t, p) =>
                 \A i \in LiveOf(t, ps \ {p}) : i.key # Deref(t, p).key
<1>1. LiveOf(t, ps) = LiveOf(t, ps \ {p}) \cup NewOf(Deref(t, p))
  BY DEF LiveOf, NewOf, IsDeleted
<1>2. ASSUME Chained(t), ~IsDeleted(t, p), NEW i \in LiveOf(t, ps \ {p}), i.key = Deref(t, p).key
      PROVE  FALSE
  <2>1. PICK q \in ps \ {p} : ~IsDeleted(t, q) /\ i = Deref(t, q)
    BY DEF LiveOf
  <2>2. p \in LivePointers(t) /\ q \in LivePointers(t)
    BY <1>2, <2>1 DEF LivePointers
  <2> QED BY <1>2, <2>1, <2>2, KeysOnce
<1> QED BY <1>1, <1>2

(* What the copying of the items ps leaves.                                  *)
HasCopied(t, c, w, ps, r) ==
    /\ r.table \in Seq(Group) /\ Buckets(r.table) = Buckets(SparseAllocate(c))
    /\ Cardinality(Pointers(r.table)) = Cardinality(ps)
    /\ Cardinality(LivePointers(r.table)) = Cardinality({p \in ps : ~IsDeleted(t, p)})
    /\ ps # {} => r.at \in Pointers(r.table) /\ Deref(r.table, r.at) = Deref(t, NextOf(w, ps))
    /\ Chained(t) => HasItems(r.table, LiveOf(t, ps))

LEMMA AllocatedHas ==
    ASSUME NEW t, NEW c \in Nat, NEW w, NEW ps, ps = {}
    PROVE  HasCopied(t, c, w, ps, Allocated(c))
<1>1. PICK u : u = SparseAllocate(c)
  OBVIOUS
<1>2. u \in Seq(Group) /\ Pointers(u) = {} /\ LivePointers(u) = {}
  BY <1>1, AllocatedIs
<1>3. PICK r : r = Allocated(c)
  OBVIOUS
<1>4. r.table = u
  BY <1>1, <1>3 DEF Allocated
<1>5. {p \in ps : ~IsDeleted(t, p)} = ps
  OBVIOUS
<1>6. HasItems(u, LiveOf(t, ps))
  BY <1>2, EmptyChained DEF LiveOf
<1>7. HasCopied(t, c, w, ps, r)
  BY <1>1, <1>2, <1>4, <1>5, <1>6 DEF HasCopied
<1> QED BY <1>3, <1>7

LEMMA CopyHas ==
    ASSUME NEW t \in Seq(Group), NEW c \in Nat, NEW w, NEW ps \in SUBSET Pointers(t), ps # {},
           PowerOf2(c), Cardinality(ps) <= c,
           NEW p \in ps, p = NextOf(w, ps),
           NEW to, HasCopied(t, c, w, ps \ {p}, to),
           NEW r, r = Copy(to, Deref(t, p))
    PROVE  HasCopied(t, c, w, ps, r)
<1>1. IsFiniteSet(ps) /\ IsFiniteSet(ps \ {p})
  BY PointersAre, FS_Subset
<1>2. Cardinality(ps) \in Nat /\ Cardinality(ps \ {p}) = Cardinality(ps) - 1
  BY <1>1, FS_CardinalityType, FS_RemoveElement
<1>3. /\ to.table \in Seq(Group) /\ Buckets(to.table) = Buckets(SparseAllocate(c))
      /\ Cardinality(Pointers(to.table)) = Cardinality(ps \ {p})
      /\ Cardinality(LivePointers(to.table)) = Cardinality({q \in ps \ {p} : ~IsDeleted(t, q)})
  BY DEF HasCopied
<1>4. Roomy(to.table)
  <2>1. PICK u : u = SparseAllocate(c)
    OBVIOUS
  <2>2. Buckets(u) >= c /\ PowerOf2(Buckets(u))
    BY <2>1, AllocatedIs
  <2>3. PICK b : b = Buckets(u)
    OBVIOUS
  <2>4. b # 0 /\ PowerOf2(b) /\ b \in Nat
    BY <2>2, <2>3 DEF PowerOf2
  <2> QED BY <1>2, <1>3, <2>1, <2>2, <2>3, <2>4 DEF Roomy
<1>5. PICK item \in Item : item = Deref(t, p)
  BY DerefIs
<1>6. HasInserted(to.table, item, r)
  BY <1>4, <1>5, CopyIs
<1>7. /\ r.table \in Seq(Group) /\ Buckets(r.table) = Buckets(to.table)
      /\ r.at \in Pointers(r.table) /\ Deref(r.table, r.at) = item
      /\ Cardinality(Pointers(r.table)) = Cardinality(Pointers(to.table)) + 1
      /\ Cardinality(LivePointers(r.table)) =
            Cardinality(LivePointers(to.table)) + (IF item.data = DELETED THEN 0 ELSE 1)
  BY <1>6 DEF HasInserted
<1>8. Cardinality({q \in ps : ~IsDeleted(t, q)}) =
          Cardinality({q \in ps \ {p} : ~IsDeleted(t, q)}) + (IF item.data = DELETED THEN 0 ELSE 1)
  <2>1. PICK A, B : A = {q \in ps \ {p} : ~IsDeleted(t, q)} /\ B = {q \in ps : ~IsDeleted(t, q)}
    OBVIOUS
  <2>2. IsDeleted(t, p) <=> item.data = DELETED
    BY <1>5 DEF IsDeleted
  <2>3. A \in SUBSET ps
    BY <2>1
  <2>4. IsFiniteSet(A) /\ Cardinality(A) \in Nat
    BY <1>1, <2>3, FS_Subset, FS_CardinalityType
  <2>5. CASE item.data = DELETED
    <3>1. A = B
      BY <2>1, <2>2, <2>5
    <3>2. Cardinality(B) = Cardinality(A) + 0
      BY <2>4, <3>1
    <3> QED BY <2>1, <2>5, <3>2
  <2>6. CASE item.data # DELETED
    <3>1. B = A \cup {p} /\ p \notin A
      BY <2>1, <2>2, <2>6
    <3>2. Cardinality(A \cup {p}) = Cardinality(A) + 1
      BY <2>4, <3>1, FS_AddElement
    <3> QED BY <2>1, <2>6, <3>1, <3>2
  <2> QED BY <2>5, <2>6
<1>9. Cardinality(Pointers(r.table)) = Cardinality(ps)
  BY <1>2, <1>3, <1>7
<1>10. Cardinality(LivePointers(r.table)) = Cardinality({q \in ps : ~IsDeleted(t, q)})
  BY <1>3, <1>7, <1>8
<1>11. ASSUME Chained(t) PROVE HasItems(r.table, LiveOf(t, ps))
  <2>1. Chained(to.table) /\ Contents(to.table) = LiveOf(t, ps \ {p})
    BY <1>11 DEF HasCopied, HasItems
  <2>2. LiveOf(t, ps) = LiveOf(t, ps \ {p}) \cup NewOf(item)
    BY <1>5, LiveOfIs
  <2>3. ASSUME ~IsDeleted(t, p) PROVE \A i \in LiveOf(t, ps \ {p}) : i.key # item.key
    BY <1>5, <1>11, <2>3, LiveOfIs
  <2>4. item.data # DELETED => \A i \in Contents(to.table) : i.key # item.key
    BY <1>5, <2>1, <2>3 DEF IsDeleted
  <2>5. r = Copy(to, item)
    BY <1>5
  <2>6. HasItems(r.table, Contents(to.table) \cup NewOf(item))
    BY <1>4, <2>1, <2>4, <2>5, CopyChained
  <2> QED BY <2>1, <2>2, <2>6
<1> QED BY <1>3, <1>5, <1>7, <1>9, <1>10, <1>11 DEF HasCopied

LEMMA CopiesHave ==
    ASSUME NEW t \in Seq(Group), NEW c \in Nat, NEW w, NEW all \in SUBSET Pointers(t),
           all = {} \/ (PowerOf2(c) /\ Cardinality(all) <= c),
           NEW f, IsCopies(t, c, w, SUBSET all, f)
    PROVE  HasCopied(t, c, w, all, f[all])
<1>1. f = [ps \in SUBSET all |-> CopiesOf(t, c, w, f, ps)]
  BY Zenon DEF IsCopies
<1>2. \A ps \in SUBSET all : f[ps] = CopiesOf(t, c, w, f, ps)
  BY <1>1, Zenon
<1>3. \A ps \in SUBSET all : /\ IsFiniteSet(ps) /\ Cardinality(ps) \in Nat
                             /\ Cardinality(ps) <= Cardinality(all) /\ Cardinality(all) \in Nat
  <2>1. IsFiniteSet(all)
    BY PointersAre, FS_Subset
  <2> QED BY <2>1, FS_Subset, FS_CardinalityType
<1> DEFINE Bad == {ps \in SUBSET all : ~HasCopied(t, c, w, ps, f[ps])}
           T == {Cardinality(ps) : ps \in Bad}
<1>4. CASE Bad = {}
  BY <1>4
<1>5. CASE Bad # {}
  <2>1. T \in SUBSET Nat /\ T # {}
    BY <1>3, <1>5
  <2>2. PICK n \in T : \A m \in T : n <= m
    <3> HIDE DEF T
    <3> QED BY <2>1, LeastExists
  <2>3. PICK ps \in Bad : n = Cardinality(ps)
    BY <2>2
  <2>4. ps \in SUBSET all /\ ~HasCopied(t, c, w, ps, f[ps])
    BY <2>3
  <2>5. CASE ps = {}
    <3>1. f[ps] = Allocated(c)
      BY <1>2, <2>4, <2>5 DEF CopiesOf
    <3>2. HasCopied(t, c, w, ps, Allocated(c))
      BY <2>5, AllocatedHas
    <3> QED BY <2>4, <3>1, <3>2
  <2>6. CASE ps # {}
    <3>1. IsFiniteSet(ps) /\ ps \in SUBSET Pointers(t) /\ ps \in SUBSET (Nat \X Nat)
      BY <1>3, <2>4, PointersAre
    <3>2. PICK p \in ps : p = NextOf(w, ps)
      BY <2>6, <3>1, NextOfIs
    <3>3. PICK qs : qs = ps \ {p}
      OBVIOUS
    <3>4. qs \in SUBSET all /\ Cardinality(qs) = Cardinality(ps) - 1
      <4>1. Cardinality(ps \ {p}) = Cardinality(ps) - 1
        BY <3>1, <3>2, FS_RemoveElement
      <4> QED BY <2>4, <3>3, <4>1
    <3>5. Cardinality(qs) \in Nat /\ Cardinality(ps) \in Nat
      BY <1>3, <2>4, <3>4
    <3>6. qs \notin Bad
      <4>1. qs \in Bad => Cardinality(qs) \in T
        OBVIOUS
      <4> HIDE DEF T, Bad
      <4> QED BY <2>2, <2>3, <3>4, <3>5, <4>1
    <3>7. PICK to : to = f[qs]
      OBVIOUS
    <3>8. HasCopied(t, c, w, ps \ {p}, to)
      BY <3>3, <3>4, <3>6, <3>7
    <3>9. PICK r : r = f[ps]
      OBVIOUS
    <3>10. r = Copy(to, Deref(t, p))
      BY <1>2, <2>4, <2>6, <3>2, <3>3, <3>7, <3>9 DEF CopiesOf
    <3>11. PowerOf2(c) /\ Cardinality(ps) <= c
      <4>1. all # {}
        BY <2>4, <2>6
      <4>2. PICK a \in Nat, b \in Nat : a = Cardinality(all) /\ b = Cardinality(ps) /\ b <= a
        BY <1>3, <2>4
      <4> QED BY <4>1, <4>2
    <3> HIDE DEF Bad
    <3>12. HasCopied(t, c, w, ps, r)
      BY <2>6, <3>1, <3>2, <3>8, <3>10, <3>11, CopyHas
    <3> QED BY <2>4, <3>9, <3>12
  <2> QED BY <2>5, <2>6
<1> QED BY <1>4, <1>5

(* What a table u that t was rehashed into has: the live items of t, and the *)
(* item at w.                                                                *)
HasRehashed(t, w, u, item) ==
    /\ u \in Seq(Group)
    /\ Buckets(u) # 0 => PowerOf2(Buckets(u)) /\ 2 * Cardinality(Pointers(u)) < Buckets(u)
    /\ Cardinality(LivePointers(u)) = Cardinality(LivePointers(t))
    /\ Chained(t) => HasItems(u, Contents(t))
    /\ w = NULL => Cardinality(Pointers(u)) = Cardinality(LivePointers(t))
    /\ w # NULL =>
          /\ item \in Pointers(u) /\ Deref(u, item) = Deref(t, w)
          /\ item \in LivePointers(u) <=> w \in LivePointers(t)
          /\ Cardinality(Pointers(u)) =
                Cardinality(LivePointers(t)) + (IF w \in LivePointers(t) THEN 0 ELSE 1)

LEMMA RehashIs ==
    ASSUME NEW h, NEW t \in Seq(Group), t = h.table, NEW w \in Pointers(t) \cup {NULL},
           NEW n \in Nat, Cardinality(Kept(t, w)) <= n,
           NEW c, c = NextPow2(2 * n)
    PROVE  \E u : /\ Rehash(h, c, w).ht = WithTable(h, u)
                  /\ HasRehashed(t, w, u, Rehash(h, c, w).item)
                  /\ Buckets(u) = Buckets(SparseAllocate(c))
<1>1. PICK all : all = Kept(t, w)
  OBVIOUS
<1>2. all = LivePointers(t) \cup ({w} \ {NULL})
  BY <1>1 DEF Kept
<1>3. /\ all \in SUBSET Pointers(t) /\ all \in SUBSET (Nat \X Nat)
      /\ IsFiniteSet(all) /\ Cardinality(all) \in Nat /\ Cardinality(all) <= n
  <2>1. all \in SUBSET Pointers(t)
    BY <1>2, LiveAre
  <2> QED BY <1>1, <2>1, PointersAre, FS_Subset, FS_CardinalityType
<1>4. PICK g : IsCopies(t, c, w, SUBSET all, g)
  BY <1>3, CopiesExist
<1>5. PICK f : /\ IsCopies(t, c, w, SUBSET all, f)
               /\ Rehash(h, c, w) = Rehashed(h, f[all])
  BY <1>4, <1>1, RehashCopies
<1>6. n # 0 => PowerOf2(c) /\ c > 2 * n /\ c \in Nat
  <2>1. n # 0 => 2 * n \in Nat \ {0}
    OBVIOUS
  <2> QED BY <2>1, NextPow2Is DEF PowerOf2
<1>7. c \in Nat /\ (all = {} \/ (PowerOf2(c) /\ Cardinality(all) <= c))
  <2>1. CASE n = 0
    <3>1. c = 0 /\ Cardinality(all) = 0
      BY <1>3, <2>1 DEF NextPow2
    <3> QED BY <1>3, <3>1, FS_EmptySet
  <2>2. CASE n # 0
    BY <1>3, <1>6, <2>2
  <2> QED BY <2>1, <2>2
<1>8. PICK r : r = f[all]
  OBVIOUS
<1>9. HasCopied(t, c, w, all, r)
  BY <1>3, <1>5, <1>7, <1>8, CopiesHave
<1>10. PICK u : u = r.table
  OBVIOUS
<1>11. /\ u \in Seq(Group) /\ Buckets(u) = Buckets(SparseAllocate(c))
       /\ Cardinality(Pointers(u)) = Cardinality(all)
       /\ Cardinality(LivePointers(u)) = Cardinality({p \in all : ~IsDeleted(t, p)})
       /\ all # {} => r.at \in Pointers(u) /\ Deref(u, r.at) = Deref(t, NextOf(w, all))
       /\ Chained(t) => HasItems(u, LiveOf(t, all))
  BY <1>9, <1>10 DEF HasCopied
<1>12. {p \in all : ~IsDeleted(t, p)} = LivePointers(t) /\ LiveOf(t, all) = Contents(t)
  <2>1. {p \in all : ~IsDeleted(t, p)} = LivePointers(t)
    BY <1>2, <1>3 DEF LivePointers
  <2> QED BY <2>1 DEF LiveOf, Contents
<1>13. Buckets(u) # 0 => PowerOf2(Buckets(u)) /\ 2 * Cardinality(Pointers(u)) < Buckets(u)
  <2>1. PICK s, b : s = SparseAllocate(c) /\ b = Buckets(s)
    OBVIOUS
  <2>2. b >= c /\ (PowerOf2(c) => PowerOf2(b)) /\ (c = 0 => b = 0) /\ s \in Seq(Group)
    BY <1>7, <2>1, AllocatedIs
  <2>3. CASE n = 0
    <3>1. c = 0
      BY <2>3 DEF NextPow2
    <3>2. b = 0
      BY <2>2, <3>1
    <3> QED BY <1>11, <2>1, <3>2
  <2>4. CASE n # 0
    <3>1. b \in Nat
      BY <2>1, <2>2, TableIs
    <3>2. b >= c /\ PowerOf2(c) /\ c > 2 * n /\ PowerOf2(b)
      BY <1>6, <2>2, <2>4
    <3>3. PICK k \in Nat : k = Cardinality(Pointers(u)) /\ k <= n
      BY <1>3, <1>11
    <3>4. 2 * k < b
      BY <3>1, <3>2, <3>3, <1>6, <2>4
    <3> QED BY <1>11, <2>1, <3>2, <3>3, <3>4
  <2> QED BY <2>3, <2>4
<1>14. ASSUME w = NULL PROVE all = LivePointers(t)
  BY <1>2, <1>14
<1>15. ASSUME w # NULL
       PROVE  /\ w \in all /\ w \in Pointers(t) /\ NextOf(w, all) = w
              /\ Cardinality(all) =
                    Cardinality(LivePointers(t)) + (IF w \in LivePointers(t) THEN 0 ELSE 1)
  <2>1. w \in all /\ w \in Pointers(t) /\ NextOf(w, all) = w
    BY <1>2, <1>15 DEF NextOf
  <2>2. all = LivePointers(t) \cup {w}
    BY <1>2, <1>15
  <2>3. Cardinality(LivePointers(t) \cup {w}) =
            Cardinality(LivePointers(t)) + (IF w \in LivePointers(t) THEN 0 ELSE 1)
    <3>1. CASE w \in LivePointers(t)
      <4>1. LivePointers(t) \cup {w} = LivePointers(t)
        BY <3>1
      <4>2. Cardinality(LivePointers(t)) = Cardinality(LivePointers(t)) + 0
        BY LiveAre
      <4> QED BY <3>1, <4>1, <4>2
    <3>2. CASE w \notin LivePointers(t)
      BY <3>2, LiveAre, FS_AddElement
    <3> QED BY <3>1, <3>2
  <2> QED BY <2>1, <2>2, <2>3
<1>16. PICK item : item = r.at
  OBVIOUS
<1>17. w # NULL =>
          /\ item \in Pointers(u) /\ Deref(u, item) = Deref(t, w)
          /\ item \in LivePointers(u) <=> w \in LivePointers(t)
  <2> SUFFICES ASSUME w # NULL
               PROVE  /\ item \in Pointers(u) /\ Deref(u, item) = Deref(t, w)
                      /\ item \in LivePointers(u) <=> w \in LivePointers(t)
    OBVIOUS
  <2>1. item \in Pointers(u) /\ Deref(u, item) = Deref(t, w) /\ w \in Pointers(t)
    BY <1>11, <1>15, <1>16
  <2> QED BY <2>1 DEF LivePointers, IsDeleted
<1>18. HasRehashed(t, w, u, item)
  <2>1. w = NULL => Cardinality(Pointers(u)) = Cardinality(LivePointers(t))
    BY <1>11, <1>14
  <2>2. w # NULL =>
            Cardinality(Pointers(u)) =
               Cardinality(LivePointers(t)) + (IF w \in LivePointers(t) THEN 0 ELSE 1)
    BY <1>11, <1>15
  <2> QED BY <1>11, <1>12, <1>13, <1>17, <2>1, <2>2 DEF HasRehashed
<1>19. Rehash(h, c, w).ht = WithTable(h, u)
       /\ Rehash(h, c, w).item = item
  BY <1>5, <1>8, <1>10, <1>16 DEF Rehashed
<1> QED BY <1>11, <1>18, <1>19

-------------------------------------------------------------------------------
(* The invariant *)

Tables == Seq(Group)
Lasts == (Nat \X Nat) \cup {NULL, Unset}
Iters == (Nat \X Nat) \cup {NULL}
Dids == SUBSET {"deleted", "goal", "skipped"}
Table ==
    [table : Tables, cItems : Nat, cDeletedItems : Int, cDeltaGoalSize : Int,
     posLastFind : Lasts, iter : Iters, did : Dids]

LEMMA TableHas ==
    ASSUME NEW h \in Table
    PROVE  /\ h.table \in Seq(Group) /\ h.cItems \in Nat /\ h.cDeletedItems \in Int
           /\ h.cDeltaGoalSize \in Int
  BY DEF Table, Tables

LEMMA TableIn ==
    ASSUME NEW h \in Table
    PROVE  h \in HashTables /\ h # NULL
<1>1. Group \subseteq SparseBin
  BY DEF Group
<1>2. PICK n \in Nat : h.table \in [1 .. n -> Group]
  BY TableHas, SeqDef
<1>3. h.table \in Seq(SparseBin)
  <2>1. h.table \in [1 .. n -> SparseBin]
    BY <1>1, <1>2
  <2> QED BY <2>1, SeqDef
<1>4. h \in HashTables
  <2>1. PICK bins : bins = Seq(SparseBin) /\ h.table \in bins
    BY <1>3
  <2>2. h \in [table : bins, cItems : Nat, cDeletedItems : Int, cDeltaGoalSize : Int,
               posLastFind : Lasts, iter : Iters, did : Dids]
    BY <2>1 DEF Table
  <2> QED BY <2>1, <2>2 DEF HashTables, Lasts, Iters, Dids
<1> QED BY <1>4, HashTableAssumption

LEMMA NullsIn == NULL \in Lasts /\ Unset \in Lasts /\ NULL \in Iters
  BY DEF Lasts, Iters

(* More than half of a table that has buckets is empty.                      *)
Room(t) == Buckets(t) # 0 => PowerOf2(Buckets(t)) /\ 2 * Cardinality(Pointers(t)) < Buckets(t)

(* A table never counts less than it has; it counts just what it has unless  *)
(* an item was skipped.                                                      *)
Counted(h) ==
    /\ h.cItems >= Cardinality(LivePointers(h.table))
    /\ h.cItems + h.cDeletedItems >= Cardinality(Pointers(h.table))

Exact(h) ==
    /\ h.cItems = Cardinality(LivePointers(h.table))
    /\ h.cItems + h.cDeletedItems = Cardinality(Pointers(h.table))

Sound(h) == h \in Table /\ Room(h.table) /\ Counted(h)

(* No bucket of a table is taken by a deleted item.                          *)
Clean(t) == Cardinality(Pointers(t)) = Cardinality(LivePointers(t))

(* A table that was never given a goal is not too large for what it has: its *)
(* last item is deleted when it cannot shrink any more.                      *)
Lean(h) ==
    /\ h.cDeltaGoalSize = 0
    /\ Buckets(h.table) < 2 * MIN_HASH_SIZE \/ Buckets(h.table) <= 5 * h.cItems

LEMMA CleanIs ==
    ASSUME NEW t \in Seq(Group), Clean(t)
    PROVE  Pointers(t) = LivePointers(t)
<1>1. IsFiniteSet(Pointers(t)) /\ LivePointers(t) \in SUBSET Pointers(t)
  BY PointersAre, LiveAre
<1> QED BY <1>1, FS_Subset DEF Clean

LEMMA NewSize ==
    ASSUME NEW n \in Nat \ {0}, NEW c, c = NextPow2(2 * n), NEW b, b = Buckets(SparseAllocate(c))
    PROVE  b \in Nat \ {0} /\ (b < 2 * MIN_HASH_SIZE \/ b <= 5 * n)
<1>1. 2 * n \in Nat \ {0}
  OBVIOUS
<1>2. PowerOf2(c) /\ c \in Nat \ {0} /\ c <= 4 * n
  <2>1. PowerOf2(c) /\ c <= 2 * (2 * n)
    BY <1>1, NextPow2Is
  <2> QED BY <2>1 DEF PowerOf2
<1>3. b \in {c, GroupSize}
  <2>1. PICK t : t = SparseAllocate(c)
    OBVIOUS
  <2> QED BY <1>2, <2>1, AllocatedIs
<1>4. GroupSize \in Nat \ {0} /\ MIN_HASH_SIZE \in Nat /\ MIN_HASH_SIZE >= GroupSize
  BY GroupSizeIs, HashTableAssumption DEF PowerOf2
<1> QED BY <1>2, <1>3, <1>4

LEMMA RoomIs ==
    ASSUME NEW t \in Seq(Group), Room(t), Buckets(t) # 0
    PROVE  Roomy(t)
<1>1. PICK b \in Nat, k \in Nat : b = Buckets(t) /\ k = Cardinality(Pointers(t))
  BY TableIs, PointersAre
<1>2. PowerOf2(Buckets(t)) /\ 2 * k < b
  BY <1>1 DEF Room
<1>3. k < b
  BY <1>2
<1> QED BY <1>1, <1>2, <1>3 DEF Roomy

(* An item put where a search for its key found room.                        *)
HasPut(t, r) ==
    /\ r.table \in Seq(Group) /\ Buckets(r.table) = Buckets(t)
    /\ r.at \in Pointers(r.table)
    /\ \/ /\ r.fOverwrite = FALSE /\ r.at \in LivePointers(r.table)
          /\ Cardinality(Pointers(r.table)) = Cardinality(Pointers(t)) + 1
       \/ r.fOverwrite = TRUE /\ Cardinality(Pointers(r.table)) = Cardinality(Pointers(t))
    /\ Cardinality(LivePointers(r.table)) =
          Cardinality(LivePointers(t)) + (IF r.at \in LivePointers(r.table) THEN 1 ELSE 0)

PutIn(t, item, l, r) ==
    /\ Deref(r.table, r.at) = item
    /\ Chained(t) /\ Fits(t, item, l) => HasItems(r.table, Contents(t) \cup {item})
    /\ Clean(t) => Clean(r.table)

LEMMA PutEmpty ==
    ASSUME NEW t \in Seq(Group), PowerOf2(Buckets(t)), NEW item \in Item, item.data # DELETED,
           NEW l \in Locations(t), SparseIsEmpty(t, l), NEW f,
           NEW r, r = SparseInsert(t, item, l, f)
    PROVE  HasPut(t, r) /\ r.at \in LivePointers(r.table) /\ PutIn(t, item, l, r)
<1>1. HasInserted(t, item, r) /\ r.fOverwrite = FALSE
  BY InsertEmpty
<1>2. /\ r.table \in Seq(Group) /\ Buckets(r.table) = Buckets(t)
      /\ r.at \in Pointers(r.table) /\ Deref(r.table, r.at) = item
      /\ Cardinality(Pointers(r.table)) = Cardinality(Pointers(t)) + 1
      /\ Cardinality(LivePointers(r.table)) = Cardinality(LivePointers(t)) + 1
  BY <1>1 DEF HasInserted
<1>3. r.at \in LivePointers(r.table)
  BY <1>2 DEF LivePointers, IsDeleted
<1>4. Chained(t) /\ Fits(t, item, l) => HasItems(r.table, Contents(t) \cup {item})
  <2>1. NewOf(item) = {item}
    BY DEF NewOf
  <2> QED BY <2>1, PutChained DEF HasItems
<1>5. Clean(t) => Clean(r.table)
  BY <1>2 DEF Clean
<1> QED BY <1>1, <1>2, <1>3, <1>4, <1>5 DEF HasPut, PutIn

PutOnto(t, item, l) == SparseInsert(t, item, l, TRUE)
PutBeside(t, item, l) == SparseInsert(t, item, l, FALSE)

LEMMA NotClean ==
    ASSUME NEW t \in Seq(Group), NEW p \in Pointers(t), p \notin LivePointers(t)
    PROVE  ~Clean(t)
  BY CleanIs

LEMMA PutOver ==
    ASSUME NEW t \in Seq(Group), PowerOf2(Buckets(t)), NEW item \in Item, item.data # DELETED,
           NEW l \in Locations(t), ~SparseIsEmpty(t, l), IsDeleted(t, Pointer(t, l)),
           NEW r, r = PutOnto(t, item, l)
    PROVE  HasPut(t, r) /\ r.at \in LivePointers(r.table) /\ PutIn(t, item, l, r)
<1>1. PICK p \in Pointers(t) : p = Pointer(t, l)
  BY PointerIs
<1>2. r = [table |-> Store(t, p, item), at |-> p, fOverwrite |-> TRUE]
  BY <1>1, Zenon DEF SparseInsert, PutOnto
<1>3. PICK u : u = Store(t, p, item)
  OBVIOUS
<1>4. /\ u \in Seq(Group) /\ Buckets(u) = Buckets(t) /\ Pointers(u) = Pointers(t)
      /\ LivePointers(u) = LivePointers(t) \cup {p} /\ p \notin LivePointers(t)
  <2>1. p \notin LivePointers(t)
    BY <1>1 DEF LivePointers
  <2> QED BY <1>3, <2>1, StoreIs, StoreLive
<1>5. Cardinality(LivePointers(u)) = Cardinality(LivePointers(t)) + 1
  <2>1. Cardinality(LivePointers(t) \cup {p}) = Cardinality(LivePointers(t)) + 1
    BY <1>4, LiveAre, FS_AddElement
  <2> QED BY <1>4, <2>1
<1>6. r.table = u /\ r.at = p /\ r.fOverwrite = TRUE
  BY <1>2, <1>3
<1>7. Chained(t) /\ Fits(t, item, l) => HasItems(u, Contents(t) \cup {item})
  <2>1. NewOf(item) = {item}
    BY DEF NewOf
  <2>2. Filled(t, u, l, item)
    BY <1>1, <1>3, StoreFills
  <2>3. ~LiveAt(t, l)
    BY <1>1, <1>4, LiveAtIs
  <2> QED BY <2>1, <2>2, <2>3, FittingChained DEF HasItems
<1>8. Deref(u, p) = item
  BY <1>1, <1>3, StoreIs
<1> QED BY <1>1, <1>4, <1>5, <1>6, <1>7, <1>8, NotClean DEF HasPut, PutIn

LEMMA PutSkipped ==
    ASSUME NEW t \in Seq(Group), NEW item,
           NEW l \in Locations(t), ~SparseIsEmpty(t, l), IsDeleted(t, Pointer(t, l)),
           NEW r, r = PutBeside(t, item, l)
    PROVE  HasPut(t, r) /\ r.table = t /\ r.at \notin LivePointers(t) /\ ~Clean(t)
<1>1. PICK p \in Pointers(t) : p = Pointer(t, l)
  BY PointerIs
<1>2. r = [table |-> t, at |-> p, fOverwrite |-> TRUE]
  BY <1>1, Zenon DEF SparseInsert, PutBeside
<1>3. p \notin LivePointers(t)
  BY <1>1 DEF LivePointers
<1>4. r.table = t /\ r.at = p /\ r.fOverwrite = TRUE
  BY <1>2
<1>5. Cardinality(LivePointers(t)) = Cardinality(LivePointers(t)) + 0
  BY LiveAre
<1> QED BY <1>1, <1>3, <1>4, <1>5, NotClean DEF HasPut

(* What an insertion comes to.                                               *)
HasAfter(h, a) ==
    /\ Sound(a.ht) /\ a.ht.posLastFind = NULL /\ a.ht.did = h.did
    /\ a.item \in Pointers(a.ht.table)
    /\ Exact(h) /\ a.item \in LivePointers(a.ht.table) => Exact(a.ht)
    /\ Lean(h) => Lean(a.ht)

(* The table u, in which p is a pointer, with all it has.                    *)
Brought(u, p, a) ==
    /\ Deref(a.ht.table, a.item) = Deref(u, p)
    /\ a.item \in LivePointers(a.ht.table) <=> p \in LivePointers(u)
    /\ Chained(u) => HasItems(a.ht.table, Contents(u))
    /\ Clean(u) => Clean(a.ht.table)

More(h, put) ==
    [LastFindReset(h) EXCEPT
        !.table = put.table,
        !.cDeletedItems = IF put.fOverwrite THEN @ - 1 ELSE @,
        !.cItems = @ + 1,
        !.cDeltaGoalSize = IF @ > 0 THEN @ - 1 ELSE @]

GoalOf(more) == IF more.cDeltaGoalSize > 0 THEN more.cDeltaGoalSize ELSE 0

Grow(more, at) == Rehash(more, NextPow2(2 * (GoalOf(more) + more.cItems)), at)

AfterMore(more, at) ==
    IF TooFull(more) THEN Grow(more, at) ELSE [ht |-> more, item |-> at]

LEMMA MoreIs ==
    ASSUME NEW h \in Table, Counted(h), NEW put, HasPut(h.table, put),
           NEW m, m = More(h, put)
    PROVE  /\ m \in Table /\ m.table = put.table /\ m.posLastFind = NULL /\ m.did = h.did
           /\ Counted(m)
           /\ put.at \notin LivePointers(m.table) =>
                 m.cItems >= Cardinality(LivePointers(m.table)) + 1
           /\ Exact(h) /\ put.at \in LivePointers(m.table) => Exact(m)
           /\ m.cItems = h.cItems + 1 /\ (h.cDeltaGoalSize = 0 => m.cDeltaGoalSize = 0)
<1>1. PICK t \in Seq(Group), a \in Nat, d \in Int :
          t = h.table /\ a = h.cItems /\ d = h.cDeletedItems
  BY TableHas
<1>2. PICK u \in Seq(Group) : u = put.table
  BY DEF HasPut
<1>3. PICK k \in Nat, l \in Nat, n \in Nat, q \in Nat :
          /\ k = Cardinality(Pointers(t)) /\ l = Cardinality(LivePointers(t))
          /\ n = Cardinality(Pointers(u)) /\ q = Cardinality(LivePointers(u))
  BY PointersAre, LiveAre
<1>4. PICK e \in Int : e = IF put.fOverwrite THEN d - 1 ELSE d
  BY DEF HasPut
<1>5. /\ (n = k + 1 /\ e = d /\ put.at \in LivePointers(u)) \/ (n = k /\ e = d - 1)
      /\ q = l + (IF put.at \in LivePointers(u) THEN 1 ELSE 0)
  BY <1>1, <1>2, <1>3, <1>4 DEF HasPut
<1>6. PICK g \in Int :
          g = IF h.cDeltaGoalSize > 0 THEN h.cDeltaGoalSize - 1 ELSE h.cDeltaGoalSize
  BY TableHas
<1>7. m = [h EXCEPT !.posLastFind = NULL, !.table = u, !.cDeletedItems = e, !.cItems = a + 1,
                    !.cDeltaGoalSize = g]
  BY <1>1, <1>2, <1>4, <1>6 DEF More, LastFindReset, Table
<1>8. /\ m \in Table /\ m.table = u /\ m.posLastFind = NULL /\ m.did = h.did
      /\ m.cItems = a + 1 /\ m.cDeletedItems = e /\ m.cDeltaGoalSize = g
  <2>1. u \in Tables /\ NULL \in Lasts /\ a + 1 \in Nat
    BY NullsIn DEF Tables
  <2> QED BY <1>7, <2>1 DEF Table
<1>9. a >= l /\ a + d >= k
  BY <1>1, <1>3 DEF Counted
<1>10. Counted(m)
  <2>1. a + 1 >= q /\ a + 1 + e >= n
    BY <1>5, <1>9
  <2> QED BY <1>3, <1>8, <2>1 DEF Counted
<1>11. put.at \notin LivePointers(u) => a + 1 >= q + 1
  BY <1>5, <1>9
<1>12. ASSUME Exact(h), put.at \in LivePointers(u) PROVE Exact(m)
  <2>1. a = l /\ a + d = k
    BY <1>1, <1>3, <1>12 DEF Exact
  <2>2. a + 1 = q /\ a + 1 + e = n
    BY <1>5, <1>12, <2>1
  <2> QED BY <1>3, <1>8, <2>2 DEF Exact
<1>13. h.cDeltaGoalSize = 0 => g = 0
  BY <1>6
<1> QED BY <1>1, <1>2, <1>3, <1>8, <1>10, <1>11, <1>12, <1>13

LEMMA WithTableIs ==
    ASSUME NEW m \in Table, NEW u \in Tables, NEW x, x = WithTable(m, u)
    PROVE  /\ x \in Table /\ x.table = u /\ x.posLastFind = m.posLastFind
           /\ x.did = m.did /\ x.cItems = m.cItems /\ x.cDeletedItems = 0
           /\ x.cDeltaGoalSize = m.cDeltaGoalSize
<1>1. PICK z \in Int : z = 0
  OBVIOUS
<1>2. x = [m EXCEPT !.table = u, !.cDeletedItems = z]
  BY <1>1 DEF WithTable
<1>3. /\ x \in Table /\ x.table = u /\ x.posLastFind = m.posLastFind
      /\ x.did = m.did /\ x.cItems = m.cItems /\ x.cDeletedItems = z
      /\ x.cDeltaGoalSize = m.cDeltaGoalSize
  BY <1>2 DEF Table
<1> QED BY <1>1, <1>3

LEMMA RehashSound ==
    ASSUME NEW m \in Table, NEW n \in Nat, NEW c, c = NextPow2(2 * n),
           NEW w \in Pointers(m.table) \cup {NULL},
           m.cItems >= Cardinality(Kept(m.table, w)), n >= m.cItems,
           NEW r, r = Rehash(m, c, w)
    PROVE  /\ Sound(r.ht) /\ r.ht.posLastFind = m.posLastFind /\ r.ht.did = m.did
           /\ r.ht.cItems = m.cItems /\ r.ht.cDeltaGoalSize = m.cDeltaGoalSize
           /\ Buckets(r.ht.table) = Buckets(SparseAllocate(c))
           /\ Chained(m.table) => HasItems(r.ht.table, Contents(m.table))
           /\ w # NULL =>
                 /\ r.item \in Pointers(r.ht.table)
                 /\ Deref(r.ht.table, r.item) = Deref(m.table, w)
                 /\ r.item \in LivePointers(r.ht.table) <=> w \in LivePointers(m.table)
           /\ w = NULL \/ w \in LivePointers(m.table) =>
                 /\ m.cItems = Cardinality(LivePointers(m.table)) => Exact(r.ht)
                 /\ Clean(r.ht.table)
<1>1. PICK t \in Seq(Group), a \in Nat : t = m.table /\ a = m.cItems
  BY TableHas
<1>2. IsFiniteSet(Kept(t, w)) /\ Cardinality(Kept(t, w)) \in Nat
  <2>1. Kept(t, w) \in SUBSET Pointers(t)
    BY <1>1, LiveAre DEF Kept
  <2> QED BY <2>1, PointersAre, FS_Subset, FS_CardinalityType
<1>3. Cardinality(Kept(t, w)) <= n
  BY <1>1, <1>2
<1>4. PICK u : /\ Rehash(m, c, w).ht = WithTable(m, u)
               /\ HasRehashed(t, w, u, Rehash(m, c, w).item)
               /\ Buckets(u) = Buckets(SparseAllocate(c))
  BY <1>1, <1>3, RehashIs
<1>5. PICK item : item = r.item
  OBVIOUS
<1>6. /\ u \in Seq(Group)
      /\ Buckets(u) # 0 => PowerOf2(Buckets(u)) /\ 2 * Cardinality(Pointers(u)) < Buckets(u)
      /\ Cardinality(LivePointers(u)) = Cardinality(LivePointers(t))
      /\ Chained(t) => HasItems(u, Contents(t))
      /\ w = NULL => Cardinality(Pointers(u)) = Cardinality(LivePointers(t))
      /\ w # NULL =>
            /\ item \in Pointers(u) /\ Deref(u, item) = Deref(t, w)
            /\ item \in LivePointers(u) <=> w \in LivePointers(t)
            /\ Cardinality(Pointers(u)) =
                  Cardinality(LivePointers(t)) + (IF w \in LivePointers(t) THEN 0 ELSE 1)
  BY <1>4, <1>5 DEF HasRehashed
<1>7. r.ht = WithTable(m, u)
  BY <1>4
<1>8. /\ r.ht \in Table /\ r.ht.table = u /\ r.ht.posLastFind = m.posLastFind
      /\ r.ht.did = m.did /\ r.ht.cItems = a /\ r.ht.cDeletedItems = 0
      /\ r.ht.cDeltaGoalSize = m.cDeltaGoalSize
  <2>1. u \in Tables
    BY <1>6 DEF Tables
  <2> QED BY <1>1, <1>7, <2>1, WithTableIs
<1>9. PICK l \in Nat, k \in Nat : l = Cardinality(LivePointers(u)) /\ k = Cardinality(Pointers(u))
  BY <1>6, LiveAre
<1>10. a >= l /\ a >= k
  <2>1. PICK v \in Nat : v = Cardinality(Kept(t, w)) /\ a >= v
    BY <1>1, <1>2
  <2>2. CASE w = NULL
    <3>1. Kept(t, w) = LivePointers(t)
      BY <2>2 DEF Kept
    <3> QED BY <1>6, <1>9, <2>1, <2>2, <3>1
  <2>3. CASE w \in LivePointers(t)
    <3>1. w # NULL
      BY <2>3, LiveAre, PointersAre, HashTableAssumption
    <3>2. Kept(t, w) = LivePointers(t)
      BY <2>3 DEF Kept
    <3>3. k = l + 0
      BY <1>6, <1>9, <2>3, <3>1
    <3> QED BY <1>6, <1>9, <2>1, <3>2, <3>3
  <2>4. CASE w # NULL /\ w \notin LivePointers(t)
    <3>1. Kept(t, w) = LivePointers(t) \cup {w}
      BY <2>4 DEF Kept
    <3>2. Cardinality(LivePointers(t) \cup {w}) = Cardinality(LivePointers(t)) + 1
      BY <2>4, LiveAre, FS_AddElement
    <3>3. k = l + 1 /\ v = l + 1
      BY <1>6, <1>9, <2>1, <2>4, <3>1, <3>2
    <3> QED BY <2>1, <3>3
  <2> QED BY <2>2, <2>3, <2>4
<1>11. Sound(r.ht)
  <2>1. Counted(r.ht)
    BY <1>8, <1>9, <1>10 DEF Counted
  <2>2. Room(r.ht.table)
    BY <1>6, <1>8 DEF Room
  <2> QED BY <1>8, <2>1, <2>2 DEF Sound
<1>12. ASSUME w = NULL \/ w \in LivePointers(t) PROVE k = l
  <2>1. CASE w = NULL
    BY <1>6, <1>9, <2>1
  <2>2. CASE w # NULL /\ w \in LivePointers(t)
    BY <1>6, <1>9, <2>2
  <2> QED BY <1>12, <2>1, <2>2
<1>13. ASSUME w = NULL \/ w \in LivePointers(t), a = Cardinality(LivePointers(t))
       PROVE  Exact(r.ht)
  <2>1. a = l /\ a + 0 = k
    BY <1>6, <1>9, <1>12, <1>13
  <2> QED BY <1>8, <1>9, <2>1 DEF Exact
<1>14. w = NULL \/ w \in LivePointers(t) => Clean(r.ht.table)
  BY <1>8, <1>9, <1>12 DEF Clean
<1> QED BY <1>1, <1>4, <1>5, <1>6, <1>8, <1>11, <1>13, <1>14

LEMMA AfterIs ==
    ASSUME NEW h, Sound(h), Buckets(h.table) # 0, NEW put, HasPut(h.table, put),
           NEW a, a = AfterMore(More(h, put), put.at)
    PROVE  HasAfter(h, a) /\ Brought(put.table, put.at, a)
<1>1. h \in Table /\ Counted(h) /\ Room(h.table)
  BY DEF Sound
<1>2. PICK m : m = More(h, put)
  OBVIOUS
<1>3. /\ m \in Table /\ m.table = put.table /\ m.posLastFind = NULL /\ m.did = h.did
      /\ Counted(m)
      /\ put.at \notin LivePointers(m.table) => m.cItems >= Cardinality(LivePointers(m.table)) + 1
      /\ Exact(h) /\ put.at \in LivePointers(m.table) => Exact(m)
      /\ m.cItems = h.cItems + 1 /\ (h.cDeltaGoalSize = 0 => m.cDeltaGoalSize = 0)
  BY <1>1, <1>2, MoreIs
<1>4. PICK t \in Seq(Group), k \in Nat : t = m.table /\ k = m.cItems
  BY <1>3, TableHas
<1>5. PICK w \in Pointers(t) : w = put.at
  BY <1>3, <1>4 DEF HasPut
<1>6. a = AfterMore(m, w)
  BY <1>2, <1>4, <1>5
<1>7. w # NULL
  BY <1>4, <1>5, PointersAre, HashTableAssumption
<1>8. CASE TooFull(m)
  <2>1. PICK n \in Nat : n = GoalOf(m) + k /\ n >= k
    <3>1. GoalOf(m) \in Nat
      BY <1>3, TableHas DEF GoalOf
    <3> QED BY <3>1
  <2>2. PICK c : c = NextPow2(2 * n)
    OBVIOUS
  <2>3. a = Rehash(m, c, w)
    BY <1>4, <1>5, <1>6, <1>8, <2>1, <2>2 DEF AfterMore, Grow
  <2>4. m.cItems >= Cardinality(Kept(m.table, w))
    <3>1. CASE w \in LivePointers(t)
      <4>1. Kept(t, w) = LivePointers(t)
        BY <3>1 DEF Kept
      <4> QED BY <1>3, <1>4, <1>5, <4>1 DEF Counted
    <3>2. CASE w \notin LivePointers(t)
      <4>1. Kept(t, w) = LivePointers(t) \cup {w}
        BY <1>7 DEF Kept
      <4>2. Cardinality(LivePointers(t) \cup {w}) = Cardinality(LivePointers(t)) + 1
        BY <3>2, LiveAre, FS_AddElement
      <4> QED BY <1>3, <1>4, <1>5, <3>2, <4>1, <4>2
    <3> QED BY <3>1, <3>2
  <2>5. w \in Pointers(m.table) \cup {NULL} /\ n >= m.cItems
    BY <1>4, <1>5, <2>1
  <2>6. /\ Sound(a.ht) /\ a.ht.posLastFind = m.posLastFind /\ a.ht.did = m.did
        /\ a.ht.cItems = m.cItems /\ a.ht.cDeltaGoalSize = m.cDeltaGoalSize
        /\ Buckets(a.ht.table) = Buckets(SparseAllocate(c))
        /\ Chained(m.table) => HasItems(a.ht.table, Contents(m.table))
        /\ w # NULL =>
              /\ a.item \in Pointers(a.ht.table)
              /\ Deref(a.ht.table, a.item) = Deref(m.table, w)
              /\ a.item \in LivePointers(a.ht.table) <=> w \in LivePointers(m.table)
        /\ w = NULL \/ w \in LivePointers(m.table) =>
              /\ m.cItems = Cardinality(LivePointers(m.table)) => Exact(a.ht)
              /\ Clean(a.ht.table)
    BY <1>3, <2>2, <2>3, <2>4, <2>5, RehashSound
  <2>7. ASSUME Exact(h), a.item \in LivePointers(a.ht.table) PROVE Exact(a.ht)
    <3>1. w \in LivePointers(m.table)
      BY <1>7, <2>6, <2>7
    <3>2. Exact(m)
      BY <1>3, <1>4, <1>5, <2>7, <3>1
    <3> QED BY <2>6, <3>1, <3>2 DEF Exact
  <2>8. ASSUME Lean(h) PROVE Lean(a.ht)
    <3>1. m.cDeltaGoalSize = 0 /\ k = h.cItems + 1 /\ h.cItems \in Nat
      BY <1>1, <1>3, <1>4, <2>8, TableHas DEF Lean
    <3>2. GoalOf(m) = 0
      BY <3>1 DEF GoalOf
    <3>3. n = k /\ n \in Nat \ {0}
      BY <2>1, <3>1, <3>2
    <3>4. PICK b : b = Buckets(SparseAllocate(c))
      OBVIOUS
    <3>5. b < 2 * MIN_HASH_SIZE \/ b <= 5 * n
      BY <2>2, <3>3, <3>4, NewSize
    <3> QED BY <1>4, <2>6, <3>1, <3>3, <3>4, <3>5 DEF Lean
  <2>9. HasAfter(h, a)
    BY <1>3, <1>7, <2>6, <2>7, <2>8 DEF HasAfter
  <2>10. Clean(t) => Clean(a.ht.table)
    BY <1>4, <1>5, <2>6, NotClean
  <2>11. Brought(t, w, a)
    BY <1>4, <1>7, <2>6, <2>10 DEF Brought
  <2> QED BY <1>3, <1>4, <1>5, <2>9, <2>11
<1>9. CASE ~TooFull(m)
  <2>1. a = [ht |-> m, item |-> w]
    BY <1>6, <1>9 DEF AfterMore
  <2>2. a.ht = m /\ a.item = w
    BY <2>1
  <2>3. Room(t)
    <3>1. PICK b \in Nat, d \in Int, p \in Nat :
              b = Buckets(t) /\ d = m.cDeletedItems /\ p = Cardinality(Pointers(t))
      BY <1>3, TableHas, TableIs, PointersAre
    <3>2. k + d >= p
      BY <1>3, <1>4, <1>5, <3>1 DEF Counted
    <3>3. ~(2 * (k + d) >= b)
      BY <1>4, <1>5, <1>9, <3>1 DEF TooFull
    <3>4. 2 * p < b
      BY <3>2, <3>3
    <3>5. Buckets(t) = Buckets(h.table)
      BY <1>3, <1>4, <1>5 DEF HasPut
    <3>6. PowerOf2(Buckets(t))
      BY <1>1, <3>5 DEF Room
    <3> QED BY <3>1, <3>4, <3>6 DEF Room
  <2>4. Sound(m)
    BY <1>3, <1>4, <1>5, <2>3 DEF Sound
  <2>5. ASSUME Lean(h) PROVE Lean(m)
    <3>1. Buckets(t) = Buckets(h.table)
      BY <1>3, <1>4 DEF HasPut
    <3>2. PICK b \in Nat, i \in Nat : b = Buckets(t) /\ i = h.cItems
      BY <1>1, TableHas, TableIs
    <3>3. b < 2 * MIN_HASH_SIZE \/ b <= 5 * i
      BY <2>5, <3>1, <3>2 DEF Lean
    <3>4. b < 2 * MIN_HASH_SIZE \/ b <= 5 * (i + 1)
      BY <3>2, <3>3
    <3> QED BY <1>3, <1>4, <2>5, <3>2, <3>4 DEF Lean
  <2>6. HasAfter(h, a)
    BY <1>3, <1>4, <1>5, <2>2, <2>4, <2>5 DEF HasAfter
  <2>7. Brought(t, w, a)
    BY <1>4, <2>2 DEF Brought, HasItems
  <2> QED BY <1>3, <1>4, <1>5, <2>6, <2>7
<1> QED BY <1>8, <1>9

(* A search of a table that is sound.                                        *)
LEMMA FoundIs ==
    ASSUME NEW h, Sound(h), Buckets(h.table) # 0, NEW key \in Keys,
           NEW r, r = Find(h.table, key)
    PROVE  /\ Stops(h.table, key) # {}
           /\ r.item \in LivePointers(h.table) \cup {NULL}
           /\ r.item = NULL => IsOpen(h.table, r.empty)
<1>1. PICK t \in Seq(Group) : t = h.table /\ Room(t) /\ Buckets(t) # 0
  BY TableHas DEF Sound
<1>2. Roomy(t)
  BY <1>1, RoomIs
<1> QED BY <1>1, <1>2, FindIs

(* The items with a key.                                                     *)
ItemsOf(t, key) == {i \in Contents(t) : i.key = key}

(* What a search says of them.                                               *)
Tells(t, key, r) ==
    /\ r.item # NULL =>
          /\ r.item \in LivePointers(t) /\ Deref(t, r.item).key = key
          /\ ItemsOf(t, key) = {Deref(t, r.item)}
    /\ r.item = NULL => ItemsOf(t, key) = {} /\ Reached(t, key, r.empty)

LEMMA FoundItem ==
    ASSUME NEW h, Sound(h), Buckets(h.table) # 0, Chained(h.table), NEW key \in Keys,
           NEW r, r = Find(h.table, key)
    PROVE  Tells(h.table, key, r)
<1>1. PICK t \in Seq(Group) : t = h.table /\ Room(t) /\ Buckets(t) # 0 /\ Chained(t)
  BY TableHas DEF Sound
<1>2. Roomy(t)
  BY <1>1, RoomIs
<1>3. /\ r.item # NULL => r.item \in LivePointers(t) /\ Deref(t, r.item).key = key
      /\ r.item = NULL =>
            (\A i \in Contents(t) : i.key # key) /\ Reached(t, key, r.empty)
  BY <1>1, <1>2, SearchIs
<1>4. ASSUME r.item # NULL PROVE ItemsOf(t, key) = {Deref(t, r.item)}
  <2>1. Deref(t, r.item) \in ItemsOf(t, key)
    BY <1>3, <1>4 DEF ItemsOf, Contents
  <2>2. ASSUME NEW i \in ItemsOf(t, key) PROVE i = Deref(t, r.item)
    <3>1. PICK p \in LivePointers(t) : i = Deref(t, p) /\ i.key = key
      BY DEF ItemsOf, Contents
    <3> QED BY <1>1, <1>3, <1>4, <3>1, KeysOnce
  <2> QED BY <2>1, <2>2
<1>5. r.item = NULL => ItemsOf(t, key) = {} /\ Reached(t, key, r.empty)
  BY <1>3 DEF ItemsOf
<1>6. Tells(t, key, r)
  BY <1>3, <1>4, <1>5 DEF Tells
<1> QED BY <1>1, <1>6

LastReset(h) == [h EXCEPT !.posLastFind = NULL]
Stored(h, p, item) == [LastFindReset(h) EXCEPT !.table = Store(@, p, item)]
InsertOver(h, key, data) == Insert(h, key, data, TRUE)
InsertBeside(h, key, data) == Insert(h, key, data, FALSE)

LEMMA StoredIs ==
    ASSUME NEW h \in Table, NEW p, NEW item, Store(h.table, p, item) \in Tables,
           NEW x, x = Stored(h, p, item)
    PROVE  /\ x \in Table /\ x.table = Store(h.table, p, item) /\ x.posLastFind = NULL
           /\ x.did = h.did /\ x.cItems = h.cItems /\ x.cDeletedItems = h.cDeletedItems
           /\ x.cDeltaGoalSize = h.cDeltaGoalSize
<1>1. PICK u \in Tables, z \in Lasts : u = Store(h.table, p, item) /\ z = NULL
  BY NullsIn
<1>2. x = [h EXCEPT !.posLastFind = z, !.table = u]
  BY <1>1 DEF Stored, LastFindReset, Table
<1>3. /\ x \in Table /\ x.table = u /\ x.posLastFind = z
      /\ x.did = h.did /\ x.cItems = h.cItems /\ x.cDeletedItems = h.cDeletedItems
      /\ x.cDeltaGoalSize = h.cDeltaGoalSize
  BY <1>2 DEF Table
<1> QED BY <1>1, <1>3

LEMMA LastResetIs ==
    ASSUME NEW h \in Table, NEW x, x = LastReset(h)
    PROVE  /\ x \in Table /\ x.table = h.table /\ x.posLastFind = NULL
           /\ x.did = h.did /\ x.cItems = h.cItems /\ x.cDeletedItems = h.cDeletedItems
           /\ x.cDeltaGoalSize = h.cDeltaGoalSize
<1>1. PICK z \in Lasts : z = NULL
  BY NullsIn
<1>2. x = [h EXCEPT !.posLastFind = z]
  BY <1>1 DEF LastReset
<1>3. /\ x \in Table /\ x.table = h.table /\ x.posLastFind = z
      /\ x.did = h.did /\ x.cItems = h.cItems /\ x.cDeletedItems = h.cDeletedItems
      /\ x.cDeltaGoalSize = h.cDeltaGoalSize
  BY <1>2 DEF Table
<1> QED BY <1>1, <1>3

ItemOf(key, data) == [key |-> key, data |-> data]
Made(h, put) == AfterMore(More(h, put), put.at)

(* An insertion, step by step.                                               *)
LEMMA InsertOverSteps ==
    ASSUME NEW h, NEW key, NEW data
    PROVE  InsertOver(h, key, data) =
               IF Find(h.table, key).item # NULL
               THEN [ht |-> IF TRUE THEN Stored(h, Find(h.table, key).item, ItemOf(key, data))
                            ELSE LastFindReset(h),
                     item |-> Find(h.table, key).item]
               ELSE Made(h, PutOnto(h.table, ItemOf(key, data), Find(h.table, key).empty))
  BY Zenon DEF InsertOver, Insert, Stored, ItemOf, Made, PutOnto, AfterMore, More, Grow, GoalOf

LEMMA InsertBesideSteps ==
    ASSUME NEW h, NEW key, NEW data
    PROVE  InsertBeside(h, key, data) =
               IF Find(h.table, key).item # NULL
               THEN [ht |-> IF FALSE THEN Stored(h, Find(h.table, key).item, ItemOf(key, data))
                            ELSE LastFindReset(h),
                     item |-> Find(h.table, key).item]
               ELSE Made(h, PutBeside(h.table, ItemOf(key, data), Find(h.table, key).empty))
  BY Zenon DEF InsertBeside, Insert, Stored, ItemOf, Made, PutBeside, AfterMore, More, Grow, GoalOf

(* Insertion over what there is: the item is in the table, in the place of   *)
(* the one with its key.                                                     *)
LEMMA InsertOverIs ==
    ASSUME NEW h, Sound(h), Buckets(h.table) # 0, NEW key \in Keys, NEW data \in Datas,
           NEW a, a = InsertOver(h, key, data)
    PROVE  /\ HasAfter(h, a) /\ a.item \in LivePointers(a.ht.table)
           /\ Deref(a.ht.table, a.item) = ItemOf(key, data)
           /\ Clean(h.table) => Clean(a.ht.table)
           /\ Chained(h.table) =>
                 HasItems(a.ht.table,
                          (Contents(h.table) \ ItemsOf(h.table, key)) \cup {ItemOf(key, data)})
<1>1. PICK t \in Seq(Group) : t = h.table /\ PowerOf2(Buckets(t))
  BY TableHas DEF Sound, Room
<1>2. PICK found : found = Find(t, key)
  OBVIOUS
<1>3. found.item \in LivePointers(t) \cup {NULL} /\ (found.item = NULL => IsOpen(t, found.empty))
  BY <1>1, <1>2, FoundIs
<1>4. PICK item : item = ItemOf(key, data)
  OBVIOUS
<1>5. item \in Item /\ item.data # DELETED /\ item.key = key
  BY <1>4, HashTableAssumption DEF Item, ItemOf
<1>6. ASSUME Chained(t)
      PROVE  /\ found.item # NULL => /\ Deref(t, found.item).key = key
                                     /\ ItemsOf(t, key) = {Deref(t, found.item)}
             /\ found.item = NULL => ItemsOf(t, key) = {} /\ Fits(t, item, found.empty)
  <2>1. found = Find(h.table, key) /\ Chained(h.table)
    BY <1>1, <1>2, <1>6
  <2>2. Tells(t, key, found)
    BY <1>1, <2>1, FoundItem
  <2> QED BY <1>5, <2>2 DEF Tells, Fits, ItemsOf
<1>7. CASE found.item # NULL
  <2>1. a = [ht |-> Stored(h, found.item, item), item |-> found.item]
    BY <1>1, <1>2, <1>4, <1>7, InsertOverSteps
  <2>2. PICK x : x = Stored(h, found.item, item)
    OBVIOUS
  <2>3. PICK p \in LivePointers(t) : p = found.item
    BY <1>3, <1>7
  <2>4. p \in Pointers(t)
    BY LiveAre
  <2>5. PICK u : u = Store(t, p, item)
    OBVIOUS
  <2>6. /\ u \in Seq(Group) /\ Buckets(u) = Buckets(t) /\ Pointers(u) = Pointers(t)
        /\ LivePointers(u) = LivePointers(t) /\ Deref(u, p) = item
    <3>1. LivePointers(t) \cup {p} = LivePointers(t)
      OBVIOUS
    <3>2. \A q \in Pointers(t) : Deref(u, q) = IF q = p THEN item ELSE Deref(t, q)
      BY <1>5, <2>4, <2>5, StoreIs
    <3>3. Deref(u, p) = item
      BY <2>4, <3>2
    <3> QED BY <1>5, <2>4, <2>5, <3>1, <3>3, StoreIs, StoreLive
  <2>7. /\ x \in Table /\ x.table = u /\ x.posLastFind = NULL /\ x.did = h.did
        /\ x.cItems = h.cItems /\ x.cDeletedItems = h.cDeletedItems
        /\ x.cDeltaGoalSize = h.cDeltaGoalSize
    <3>1. Store(h.table, p, item) \in Tables /\ h \in Table
      BY <1>1, <2>5, <2>6 DEF Tables, Sound
    <3>2. x = Stored(h, p, item)
      BY <2>2, <2>3
    <3> QED BY <1>1, <2>5, <3>1, <3>2, StoredIs
  <2>8. a.ht = x /\ a.item = p
    BY <2>1, <2>2, <2>3
  <2>9. Sound(x) /\ (Exact(h) => Exact(x)) /\ (Lean(h) => Lean(x))
    BY <1>1, <2>6, <2>7 DEF Sound, Room, Counted, Exact, Lean
  <2>10. Chained(t) => HasItems(u, (Contents(t) \ ItemsOf(t, key)) \cup {item})
    <3> SUFFICES ASSUME Chained(t)
                 PROVE  HasItems(u, (Contents(t) \ ItemsOf(t, key)) \cup {item})
      OBVIOUS
    <3>1. Deref(t, p).key = item.key /\ ItemsOf(t, key) = {Deref(t, p)} /\ NewOf(item) = {item}
      BY <1>5, <1>6, <1>7, <2>3 DEF NewOf
    <3> QED BY <1>1, <1>5, <2>5, <3>1, StoreChained DEF HasItems
  <2>11. HasAfter(h, a) /\ a.item \in LivePointers(a.ht.table)
    BY <2>4, <2>6, <2>7, <2>8, <2>9 DEF HasAfter
  <2> QED BY <1>1, <1>4, <2>6, <2>7, <2>8, <2>10, <2>11 DEF Clean
<1>8. CASE found.item = NULL
  <2>1. PICK l : l = found.empty
    OBVIOUS
  <2>2. l \in Locations(t) /\ (SparseIsEmpty(t, l) \/ IsDeleted(t, SparseFind(t, l)))
    BY <1>3, <1>8, <2>1 DEF IsOpen
  <2>3. PICK put : put = PutOnto(t, item, l)
    OBVIOUS
  <2>4. a = AfterMore(More(h, put), put.at)
    BY <1>1, <1>2, <1>4, <1>8, <2>1, <2>3, InsertOverSteps DEF Made
  <2>5. HasPut(t, put) /\ put.at \in LivePointers(put.table) /\ PutIn(t, item, l, put)
    <3>1. CASE SparseIsEmpty(t, l)
      <4>1. PICK f : f = TRUE
        OBVIOUS
      <4>2. put = SparseInsert(t, item, l, f)
        BY <2>3, <4>1, Zenon DEF PutOnto
      <4> QED BY <1>1, <1>5, <2>2, <3>1, <4>2, PutEmpty
    <3>2. CASE ~SparseIsEmpty(t, l)
      <4>1. IsDeleted(t, Pointer(t, l))
        BY <2>2, <3>2, SparseFindIs
      <4> QED BY <1>1, <1>5, <2>2, <2>3, <3>2, <4>1, PutOver
    <3> QED BY <3>1, <3>2
  <2>6. HasAfter(h, a) /\ Brought(put.table, put.at, a)
    BY <1>1, <2>4, <2>5, AfterIs
  <2>7. Chained(t) => HasItems(a.ht.table, (Contents(t) \ ItemsOf(t, key)) \cup {item})
    <3> SUFFICES ASSUME Chained(t)
                 PROVE  HasItems(a.ht.table, (Contents(t) \ ItemsOf(t, key)) \cup {item})
      OBVIOUS
    <3>1. ItemsOf(t, key) = {} /\ Fits(t, item, l)
      BY <1>6, <1>8, <2>1
    <3>2. HasItems(put.table, Contents(t) \cup {item})
      BY <2>5, <3>1 DEF PutIn
    <3> QED BY <2>6, <3>1, <3>2 DEF Brought, HasItems
  <2> QED BY <1>1, <1>4, <2>5, <2>6, <2>7 DEF Brought, PutIn
<1> QED BY <1>7, <1>8

(* Insertion beside what there is: the item with the key stays, if there is  *)
(* one; a new one is in the table, or was skipped.                           *)
LEMMA InsertBesideIs ==
    ASSUME NEW h, Sound(h), Buckets(h.table) # 0, NEW key \in Keys, NEW data \in Datas,
           NEW a, a = InsertBeside(h, key, data)
    PROVE  /\ HasAfter(h, a)
           /\ Clean(h.table) => Clean(a.ht.table)
           /\ Chained(h.table) =>
                 \/ /\ a.item \in LivePointers(a.ht.table)
                    /\ ItemsOf(h.table, key) = {Deref(a.ht.table, a.item)}
                    /\ HasItems(a.ht.table, Contents(h.table))
                 \/ /\ a.item \in LivePointers(a.ht.table) /\ ItemsOf(h.table, key) = {}
                    /\ Deref(a.ht.table, a.item) = ItemOf(key, data)
                    /\ HasItems(a.ht.table, Contents(h.table) \cup {ItemOf(key, data)})
                 \/ /\ a.item \notin LivePointers(a.ht.table) /\ ItemsOf(h.table, key) = {}
                    /\ ~Clean(h.table) /\ HasItems(a.ht.table, Contents(h.table))
<1>1. PICK t \in Seq(Group) : t = h.table /\ PowerOf2(Buckets(t))
  BY TableHas DEF Sound, Room
<1>2. PICK found : found = Find(t, key)
  OBVIOUS
<1>3. found.item \in LivePointers(t) \cup {NULL} /\ (found.item = NULL => IsOpen(t, found.empty))
  BY <1>1, <1>2, FoundIs
<1>4. PICK item : item = ItemOf(key, data)
  OBVIOUS
<1>5. item \in Item /\ item.data # DELETED /\ item.key = key
  BY <1>4, HashTableAssumption DEF Item, ItemOf
<1>6. ASSUME Chained(t)
      PROVE  /\ found.item # NULL => ItemsOf(t, key) = {Deref(t, found.item)}
             /\ found.item = NULL => ItemsOf(t, key) = {} /\ Fits(t, item, found.empty)
  <2>1. found = Find(h.table, key) /\ Chained(h.table)
    BY <1>1, <1>2, <1>6
  <2>2. Tells(t, key, found)
    BY <1>1, <2>1, FoundItem
  <2> QED BY <1>5, <2>2 DEF Tells, Fits, ItemsOf
<1>7. CASE found.item # NULL
  <2>1. a = [ht |-> LastReset(h), item |-> found.item]
    BY <1>1, <1>2, <1>7, InsertBesideSteps DEF LastReset, LastFindReset
  <2>2. PICK x : x = LastReset(h)
    OBVIOUS
  <2>3. found.item \in Pointers(t) /\ found.item \in LivePointers(t)
    BY <1>3, <1>7, LiveAre
  <2>4. /\ x \in Table /\ x.table = h.table /\ x.posLastFind = NULL /\ x.did = h.did
        /\ x.cItems = h.cItems /\ x.cDeletedItems = h.cDeletedItems
        /\ x.cDeltaGoalSize = h.cDeltaGoalSize
    BY <2>2, LastResetIs DEF Sound
  <2>5. a.ht = x /\ a.item = found.item
    BY <2>1, <2>2
  <2>6. Sound(x) /\ (Exact(h) => Exact(x)) /\ (Lean(h) => Lean(x))
    BY <2>4 DEF Sound, Counted, Exact, Lean
  <2>7. HasAfter(h, a)
    BY <1>1, <2>3, <2>4, <2>5, <2>6 DEF HasAfter
  <2> QED BY <1>1, <1>6, <1>7, <2>3, <2>4, <2>5, <2>7 DEF HasItems
<1>8. CASE found.item = NULL
  <2>1. PICK l : l = found.empty
    OBVIOUS
  <2>2. l \in Locations(t) /\ (SparseIsEmpty(t, l) \/ IsDeleted(t, SparseFind(t, l)))
    BY <1>3, <1>8, <2>1 DEF IsOpen
  <2>3. PICK put : put = PutBeside(t, item, l)
    OBVIOUS
  <2>4. a = AfterMore(More(h, put), put.at)
    BY <1>1, <1>2, <1>4, <1>8, <2>1, <2>3, InsertBesideSteps DEF Made
  <2>5. ASSUME Chained(t) PROVE ItemsOf(t, key) = {} /\ Fits(t, item, l)
    BY <1>6, <1>8, <2>1, <2>5
  <2>6. CASE SparseIsEmpty(t, l)
    <3>1. PICK f : f = FALSE
      OBVIOUS
    <3>2. put = SparseInsert(t, item, l, f)
      BY <2>3, <3>1, Zenon DEF PutBeside
    <3>3. HasPut(t, put) /\ put.at \in LivePointers(put.table) /\ PutIn(t, item, l, put)
      BY <1>1, <1>5, <2>2, <2>6, <3>2, PutEmpty
    <3>4. HasAfter(h, a) /\ Brought(put.table, put.at, a)
      BY <1>1, <2>4, <3>3, AfterIs
    <3>5. Chained(t) => HasItems(a.ht.table, Contents(t) \cup {item})
      BY <2>5, <3>3, <3>4 DEF PutIn, Brought, HasItems
    <3> QED BY <1>1, <1>4, <2>5, <3>3, <3>4, <3>5 DEF PutIn, Brought
  <2>7. CASE ~SparseIsEmpty(t, l)
    <3>1. IsDeleted(t, Pointer(t, l))
      BY <2>2, <2>7, SparseFindIs
    <3>2. HasPut(t, put) /\ put.table = t /\ put.at \notin LivePointers(t) /\ ~Clean(t)
      BY <2>2, <2>3, <2>7, <3>1, PutSkipped
    <3>3. HasAfter(h, a) /\ Brought(t, put.at, a)
      BY <1>1, <2>4, <3>2, AfterIs
    <3> QED BY <1>1, <2>5, <3>2, <3>3 DEF Brought
  <2> QED BY <2>6, <2>7
<1> QED BY <1>7, <1>8

Less(h, p) ==
    [h EXCEPT !.table = Store(@, p, [Deref(@, p) EXCEPT !.data = DELETED]),
              !.cItems = @ - 1,
              !.cDeletedItems = @ + 1,
              !.cDeltaGoalSize = IF @ < 0 THEN @ + 1 ELSE @,
              !.posLastFind = NULL]

Shrinks(h, less) ==
    /\ 5 * less.cItems < Buckets(h.table)
    /\ less.cDeltaGoalSize >= 0
    /\ Buckets(h.table) \div 2 >= MIN_HASH_SIZE

Shrunk(less) == Rehash(less, NextPow2(2 * (less.cItems + less.cDeltaGoalSize)), NULL).ht

LEMMA DeleteSteps ==
    ASSUME NEW h, NEW p
    PROVE  Delete(h, p) = IF Shrinks(h, Less(h, p)) THEN Shrunk(Less(h, p)) ELSE Less(h, p)
  BY Zenon DEF Delete, Shrinks, Shrunk, Less

LEMMA LessIs ==
    ASSUME NEW h, Sound(h), NEW p \in LivePointers(h.table), NEW m, m = Less(h, p)
    PROVE  /\ Sound(m) /\ m.posLastFind = NULL /\ m.did = h.did /\ (Exact(h) => Exact(m))
           /\ Buckets(h.table) \in Nat \ {0} /\ Buckets(m.table) = Buckets(h.table)
           /\ h.cItems \in Nat /\ m.cItems = h.cItems - 1
           /\ h.cDeltaGoalSize = 0 => m.cDeltaGoalSize = 0
           /\ Chained(h.table) => HasItems(m.table, Contents(h.table) \ {Deref(h.table, p)})
<1>1. h \in Table /\ Counted(h) /\ Room(h.table)
  BY DEF Sound
<1>2. PICK t \in Seq(Group), a \in Nat, d \in Int :
          t = h.table /\ a = h.cItems /\ d = h.cDeletedItems
  BY <1>1, TableHas
<1>3. p \in LivePointers(t) /\ p \in Pointers(t)
  BY <1>2, LiveAre
<1>4. PICK item : item = [Deref(t, p) EXCEPT !.data = DELETED]
  OBVIOUS
<1>5. item \in Item /\ item.data = DELETED /\ item.key = Deref(t, p).key
  <2>1. PICK old \in Item : old = Deref(t, p)
    BY <1>3, DerefIs
  <2>2. item = [old EXCEPT !.data = DELETED]
    BY <1>4, <2>1
  <2>3. item \in Item /\ item.data = DELETED /\ item.key = old.key
    BY <2>2 DEF Item
  <2> QED BY <2>1, <2>3
<1>6. PICK u : u = Store(t, p, item)
  OBVIOUS
<1>7. /\ u \in Seq(Group) /\ Buckets(u) = Buckets(t) /\ Pointers(u) = Pointers(t)
      /\ LivePointers(u) = LivePointers(t) \ {p}
  BY <1>3, <1>5, <1>6, StoreIs, StoreLive
<1>8. PICK k \in Nat, l \in Nat, q \in Nat :
          /\ k = Cardinality(Pointers(t)) /\ l = Cardinality(LivePointers(t))
          /\ q = Cardinality(LivePointers(u))
  BY <1>7, PointersAre, LiveAre
<1>9. q = l - 1
  <2>1. Cardinality(LivePointers(t) \ {p}) = Cardinality(LivePointers(t)) - 1
    BY <1>3, LiveAre, FS_RemoveElement
  <2> QED BY <1>7, <1>8, <2>1
<1>10. PICK g \in Int :
          g = IF h.cDeltaGoalSize < 0 THEN h.cDeltaGoalSize + 1 ELSE h.cDeltaGoalSize
  BY <1>1, TableHas
<1>11. a >= l /\ a + d >= k
  BY <1>1, <1>2, <1>8 DEF Counted
<1>12. PICK b \in Nat, e \in Int, z \in Lasts : b = a - 1 /\ e = d + 1 /\ z = NULL
  BY <1>8, <1>9, <1>11, NullsIn
<1>13. m = [h EXCEPT !.table = u, !.cItems = b, !.cDeletedItems = e, !.cDeltaGoalSize = g,
                     !.posLastFind = z]
  BY <1>1, <1>2, <1>4, <1>6, <1>10, <1>12 DEF Less, Table
<1>14. /\ m \in Table /\ m.table = u /\ m.posLastFind = z /\ m.did = h.did
       /\ m.cItems = b /\ m.cDeletedItems = e /\ m.cDeltaGoalSize = g
  <2>1. u \in Tables
    BY <1>7 DEF Tables
  <2> QED BY <1>1, <1>13, <2>1 DEF Table
<1>15. Counted(m)
  <2>1. b >= q /\ b + e >= k
    BY <1>9, <1>11, <1>12
  <2> QED BY <1>7, <1>8, <1>14, <2>1 DEF Counted
<1>16. Room(m.table)
  BY <1>1, <1>2, <1>7, <1>14 DEF Room
<1>17. ASSUME Exact(h) PROVE Exact(m)
  <2>1. a = l /\ a + d = k
    BY <1>2, <1>8, <1>17 DEF Exact
  <2>2. b = q /\ b + e = k
    BY <1>9, <1>12, <2>1
  <2> QED BY <1>7, <1>8, <1>14, <2>2 DEF Exact
<1>18. Buckets(t) \in Nat \ {0} /\ PowerOf2(Buckets(t))
  <2>1. PICK j \in Nat : j = Buckets(t)
    BY TableIs
  <2>2. PICK n \in 0 .. j - 1 : TRUE
    BY <1>3, <2>1, LiveOnto DEF Locations
  <2>3. j # 0
    BY <2>1, <2>2
  <2> QED BY <1>1, <1>2, <2>1, <2>3 DEF Room
<1>19. h.cDeltaGoalSize = 0 => g = 0
  BY <1>10
<1>20. Chained(t) => HasItems(u, Contents(t) \ {Deref(t, p)})
  <2>1. NewOf(item) = {}
    BY <1>5 DEF NewOf
  <2>2. Contents(t) \ {Deref(t, p)} = (Contents(t) \ {Deref(t, p)}) \cup NewOf(item)
    BY <2>1
  <2> QED BY <1>3, <1>5, <1>6, <1>18, <2>2, StoreChained DEF HasItems
<1> QED BY <1>2, <1>7, <1>12, <1>14, <1>15, <1>16, <1>17, <1>18, <1>19, <1>20 DEF Sound

LEMMA DeleteIs ==
    ASSUME NEW h, Sound(h), NEW p \in LivePointers(h.table), NEW x, x = Delete(h, p)
    PROVE  /\ Sound(x) /\ x.posLastFind = NULL /\ x.did = h.did /\ (Exact(h) => Exact(x))
           /\ Chained(h.table) => HasItems(x.table, Contents(h.table) \ {Deref(h.table, p)})
           /\ Lean(h) => Lean(x) /\ Buckets(x.table) # 0
<1>1. PICK m : m = Less(h, p)
  OBVIOUS
<1>2. /\ Sound(m) /\ m.posLastFind = NULL /\ m.did = h.did /\ (Exact(h) => Exact(m))
      /\ Buckets(h.table) \in Nat \ {0} /\ Buckets(m.table) = Buckets(h.table)
      /\ h.cItems \in Nat /\ m.cItems = h.cItems - 1
      /\ h.cDeltaGoalSize = 0 => m.cDeltaGoalSize = 0
      /\ Chained(h.table) => HasItems(m.table, Contents(h.table) \ {Deref(h.table, p)})
  BY <1>1, LessIs
<1>3. m \in Table /\ Counted(m)
  BY <1>2 DEF Sound
<1>4. CASE ~Shrinks(h, m)
  <2>1. x = m
    BY <1>1, <1>4, DeleteSteps
  <2>2. ASSUME Lean(h) PROVE Lean(m)
    <3>1. m.cDeltaGoalSize = 0 /\ m.cItems \in Nat
      BY <1>2, <1>3, <2>2, TableHas DEF Lean
    <3>2. PICK b \in Nat \ {0}, i \in Nat : b = Buckets(h.table) /\ i = m.cItems
      BY <1>2, <3>1
    <3>3. MIN_HASH_SIZE \in Nat \ {0}
      BY HashTableAssumption DEF PowerOf2
    <3>4. ~(5 * i < b) \/ ~(b \div 2 >= MIN_HASH_SIZE)
      BY <1>4, <3>1, <3>2 DEF Shrinks
    <3>5. b < 2 * MIN_HASH_SIZE \/ b <= 5 * i
      BY <3>2, <3>3, <3>4
    <3> QED BY <1>2, <3>1, <3>2, <3>5 DEF Lean
  <2> QED BY <1>2, <2>1, <2>2
<1>5. CASE Shrinks(h, m)
  <2>1. PICK n \in Nat : n = m.cItems + m.cDeltaGoalSize /\ n >= m.cItems
    BY <1>3, <1>5, TableHas DEF Shrinks
  <2>2. PICK c : c = NextPow2(2 * n)
    OBVIOUS
  <2>3. PICK w : w = NULL
    OBVIOUS
  <2>4. PICK r : r = Rehash(m, c, w)
    OBVIOUS
  <2>5. x = r.ht
    BY <1>1, <1>5, <2>1, <2>2, <2>3, <2>4, DeleteSteps DEF Shrunk
  <2>6. m.cItems >= Cardinality(Kept(m.table, w))
    <3>1. Kept(m.table, w) = LivePointers(m.table)
      BY <2>3 DEF Kept
    <3> QED BY <1>3, <3>1 DEF Counted
  <2>7. /\ Sound(r.ht) /\ r.ht.posLastFind = m.posLastFind /\ r.ht.did = m.did
        /\ r.ht.cItems = m.cItems /\ r.ht.cDeltaGoalSize = m.cDeltaGoalSize
        /\ Buckets(r.ht.table) = Buckets(SparseAllocate(c))
        /\ Chained(m.table) => HasItems(r.ht.table, Contents(m.table))
        /\ w = NULL \/ w \in LivePointers(m.table) =>
              /\ m.cItems = Cardinality(LivePointers(m.table)) => Exact(r.ht)
              /\ Clean(r.ht.table)
    <3>1. w \in Pointers(m.table) \cup {NULL}
      BY <2>3
    <3> QED BY <1>3, <2>1, <2>2, <2>4, <2>6, <3>1, RehashSound
  <2>8. Exact(m) => Exact(r.ht)
    BY <2>3, <2>7 DEF Exact
  <2>9. Chained(h.table) => HasItems(r.ht.table, Contents(h.table) \ {Deref(h.table, p)})
    BY <1>2, <2>7 DEF HasItems
  <2>10. ASSUME Lean(h) PROVE Lean(r.ht) /\ Buckets(r.ht.table) # 0
    <3>1. m.cDeltaGoalSize = 0 /\ m.cItems \in Nat /\ n = m.cItems
      BY <1>2, <1>3, <2>1, <2>10, TableHas DEF Lean
    <3>2. PICK b \in Nat \ {0}, i \in Nat, k \in Nat :
              b = Buckets(h.table) /\ i = h.cItems /\ k = MIN_HASH_SIZE /\ k >= 4
      BY <1>2, HashTableAssumption DEF PowerOf2
    <3>3. b \div 2 >= k /\ (b < 2 * k \/ b <= 5 * i)
      BY <1>5, <2>10, <3>2 DEF Shrinks, Lean
    <3>4. i >= 2
      BY <3>2, <3>3
    <3>5. n \in Nat \ {0}
      BY <1>2, <3>1, <3>2, <3>4
    <3>6. PICK j : j = Buckets(SparseAllocate(c))
      OBVIOUS
    <3>7. j \in Nat \ {0} /\ (j < 2 * MIN_HASH_SIZE \/ j <= 5 * n)
      BY <2>2, <3>5, <3>6, NewSize
    <3> QED BY <2>7, <3>1, <3>6, <3>7 DEF Lean
  <2> QED BY <1>2, <2>5, <2>7, <2>8, <2>9, <2>10
<1> QED BY <1>4, <1>5

-------------------------------------------------------------------------------
(* The actions *)

Good(h, r) ==
    /\ Sound(h)
    /\ "skipped" \notin h.did => Exact(h)
    /\ h.posLastFind \in LivePointers(h.table) \cup {NULL, Unset}
    /\ h.iter \in LivePointers(h.table) \cup {NULL}
    /\ r \in Pointers(h.table) \cup {NULL}

(* What holds in every state: a table is sound, it counts what it has unless *)
(* an item was skipped, and the pointers that are kept are to its items.     *)
IInv == ht # NULL => Good(ht, ret)

LEMMA PointersTyped ==
    ASSUME NEW t \in Seq(Group)
    PROVE  /\ LivePointers(t) \cup {NULL, Unset} \subseteq Lasts
           /\ LivePointers(t) \cup {NULL} \subseteq Iters
           /\ LivePointers(t) \cup {NULL} \subseteq Pointers(t) \cup {NULL}
           /\ LivePointers(t) \subseteq Nat \X Nat
<1>1. LivePointers(t) \subseteq Pointers(t) /\ Pointers(t) \subseteq Nat \X Nat
  BY LiveAre, PointersAre
<1> QED BY <1>1 DEF Lasts, Iters

LEMMA SettleIs ==
    ASSUME NEW h \in Table, NEW x, x = Settle(h)
    PROVE  /\ x \in Table /\ x.table = h.table /\ x.posLastFind = h.posLastFind
           /\ x.did = h.did /\ x.cItems = h.cItems /\ x.cDeletedItems = h.cDeletedItems
           /\ x.cDeltaGoalSize = h.cDeltaGoalSize /\ x.iter = NULL
<1>1. PICK z \in Iters : z = NULL
  BY NullsIn
<1>2. x = [h EXCEPT !.iter = z]
  BY <1>1 DEF Settle
<1>3. /\ x \in Table /\ x.table = h.table /\ x.posLastFind = h.posLastFind
      /\ x.did = h.did /\ x.cItems = h.cItems /\ x.cDeletedItems = h.cDeletedItems
      /\ x.cDeltaGoalSize = h.cDeltaGoalSize /\ x.iter = z
  BY <1>2 DEF Table
<1> QED BY <1>1, <1>3

LEMMA DidIs ==
    ASSUME NEW h \in Table, NEW s \in {"deleted", "goal", "skipped"}, NEW x, x = Did(h, s)
    PROVE  /\ x \in Table /\ x.table = h.table /\ x.posLastFind = h.posLastFind
           /\ x.did = h.did \cup {s} /\ x.cItems = h.cItems /\ x.cDeletedItems = h.cDeletedItems
           /\ x.cDeltaGoalSize = h.cDeltaGoalSize /\ x.iter = NULL
<1>1. PICK z \in Iters : z = NULL
  BY NullsIn
<1>2. PICK d \in Dids : d = h.did \cup {s}
  BY DEF Table, Dids
<1>3. x = [h EXCEPT !.did = d, !.iter = z]
  BY <1>1, <1>2 DEF Did, Table
<1>4. /\ x \in Table /\ x.table = h.table /\ x.posLastFind = h.posLastFind
      /\ x.did = d /\ x.cItems = h.cItems /\ x.cDeletedItems = h.cDeletedItems
      /\ x.cDeltaGoalSize = h.cDeltaGoalSize /\ x.iter = z
  BY <1>3 DEF Table
<1> QED BY <1>1, <1>2, <1>4

(* A table from which only the pointers that are kept have changed.          *)
LEMMA StillGood ==
    ASSUME NEW h, Sound(h), NEW x \in Table, x.table = h.table, x.cItems = h.cItems,
           x.cDeletedItems = h.cDeletedItems
    PROVE  Sound(x) /\ (Exact(h) => Exact(x))
  BY DEF Sound, Counted, Exact

LEMMA OpenIs ==
    ASSUME IInv, Open
    PROVE  Good(ht, ret) /\ Sound(ht) /\ Buckets(ht.table) # 0 /\ ht.table \in Seq(Group)
           /\ ht \in Table
<1>1. Good(ht, ret) /\ Sound(ht) /\ ht \in Table
  BY DEF IInv, Open, Good, Sound
<1>2. Buckets(ht.table) > 0 /\ Buckets(ht.table) \in Nat /\ ht.table \in Seq(Group)
  BY <1>1, TableHas, TableIs DEF Open
<1>3. Buckets(ht.table) # 0
  BY <1>2
<1> QED BY <1>1, <1>2, <1>3

LEMMA NewTableIs ==
    /\ Sound(NewTable) /\ Exact(NewTable)
    /\ NewTable.posLastFind = Unset /\ NewTable.iter = NULL
<1>1. PICK t : t = SparseAllocate(MIN_HASH_SIZE)
  OBVIOUS
<1>2. MIN_HASH_SIZE \in Nat \ {0} /\ PowerOf2(MIN_HASH_SIZE)
  BY HashTableAssumption DEF PowerOf2
<1>3. /\ t \in Seq(Group) /\ Pointers(t) = {} /\ LivePointers(t) = {}
      /\ Buckets(t) >= MIN_HASH_SIZE /\ PowerOf2(Buckets(t))
  BY <1>1, <1>2, AllocatedIs
<1>4. PICK a \in Nat, b \in Int, c \in Int, d \in Dids, l \in Lasts, i \in Iters, u \in Tables :
          a = 0 /\ b = 0 /\ c = 0 /\ d = {} /\ l = Unset /\ i = NULL /\ u = t
  <2>1. {} \in Dids /\ t \in Tables
    BY <1>3 DEF Dids, Tables
  <2> QED BY <2>1, NullsIn
<1>5. PICK x : x = NewTable
  OBVIOUS
<1>6. x = [table |-> u, cItems |-> a, cDeletedItems |-> b, cDeltaGoalSize |-> c,
           posLastFind |-> l, iter |-> i, did |-> d]
  BY <1>1, <1>4, <1>5 DEF NewTable
<1>7. /\ x \in Table /\ x.table = u /\ x.cItems = a /\ x.cDeletedItems = b
      /\ x.posLastFind = l /\ x.iter = i /\ x.did = d
  BY <1>6 DEF Table
<1>8. Cardinality({}) = 0
  BY FS_EmptySet
<1>9. Counted(x) /\ Exact(x)
  <2>1. Cardinality(Pointers(x.table)) = 0 /\ Cardinality(LivePointers(x.table)) = 0
    BY <1>3, <1>4, <1>7, <1>8
  <2>2. a + b = 0 /\ a = 0
    BY <1>4
  <2>3. x.cItems = 0 /\ x.cItems + x.cDeletedItems = 0
    BY <1>7, <2>2
  <2> QED BY <2>1, <2>3 DEF Counted, Exact
<1>10. Room(x.table)
  <2>1. 2 * 0 < Buckets(t)
    BY <1>2, <1>3, TableIs
  <2> QED BY <1>3, <1>4, <1>7, <1>8, <2>1 DEF Room
<1> QED BY <1>4, <1>5, <1>7, <1>9, <1>10 DEF Sound

LEMMA AllocateKeeps ==
    ASSUME AllocateHashTable
    PROVE  Good(ht', ret')
<1>1. ht' = NewTable /\ ret' = NULL
  BY DEF AllocateHashTable
<1>2. PICK x : x = NewTable
  OBVIOUS
<1>3. Good(x, NULL)
  BY <1>2, NewTableIs DEF Good
<1> QED BY <1>1, <1>2, <1>3

LEMMA ClearKeeps ==
    ASSUME ClearHashTable
    PROVE  Good(ht', ret')
<1>1. PICK x : x = [NewTable EXCEPT !.posLastFind = NULL]
  OBVIOUS
<1>2. ht' = x /\ ret' = NULL
  BY <1>1 DEF ClearHashTable
<1>3. PICK h : h = NewTable
  OBVIOUS
<1>4. Sound(h) /\ Exact(h) /\ h.iter = NULL /\ h \in Table
  BY <1>3, NewTableIs DEF Sound
<1>5. x = LastReset(h)
  BY <1>1, <1>3 DEF LastReset
<1>6. /\ x \in Table /\ x.table = h.table /\ x.posLastFind = NULL
      /\ x.cItems = h.cItems /\ x.cDeletedItems = h.cDeletedItems
  BY <1>4, <1>5, LastResetIs
<1>7. x.iter = NULL
  BY <1>4, <1>5 DEF LastReset, Table
<1>8. Sound(x) /\ Exact(x)
  BY <1>4, <1>6, StillGood
<1>9. Good(x, NULL)
  BY <1>6, <1>7, <1>8 DEF Good
<1> QED BY <1>2, <1>9

FoundLast(h, v) == [h EXCEPT !.posLastFind = v]
Iterating(h, v) == [h EXCEPT !.iter = v]
WithGoal(h, delta) == [h EXCEPT !.cDeltaGoalSize = delta, !.did = @ \cup {"goal"}]

LEMMA FindKeeps ==
    ASSUME IInv, NEW key \in Keys, HashFind(key)
    PROVE  Good(ht', ret')
<1>1. /\ Good(ht, ret) /\ Sound(ht) /\ Buckets(ht.table) # 0 /\ ht.table \in Seq(Group)
      /\ ht \in Table
  BY OpenIs DEF HashFind
<1>2. PICK v : v = Find(ht.table, key).item
  OBVIOUS
<1>3. v \in LivePointers(ht.table) \cup {NULL}
  BY <1>1, <1>2, FoundIs
<1>4. v \in Lasts /\ v \in Pointers(ht.table) \cup {NULL}
  BY <1>1, <1>3, PointersTyped, NullsIn
<1>5. PICK x : x = FoundLast(ht, v)
  OBVIOUS
<1>6. /\ x \in Table /\ x.table = ht.table /\ x.cItems = ht.cItems
      /\ x.cDeletedItems = ht.cDeletedItems /\ x.did = ht.did /\ x.iter = ht.iter
      /\ x.posLastFind = v
  BY <1>1, <1>4, <1>5 DEF FoundLast, Table
<1>7. ht' = x /\ ret' = v
  BY <1>2, <1>5, <1>6 DEF HashFind, FoundLast
<1>8. Sound(x) /\ (Exact(ht) => Exact(x))
  BY <1>1, <1>6, StillGood
<1>9. Good(x, v)
  BY <1>1, <1>3, <1>4, <1>6, <1>8 DEF Good
<1> QED BY <1>7, <1>9

LEMMA FindLastKeeps ==
    ASSUME IInv, HashFindLast
    PROVE  Good(ht', ret')
<1>1. Open /\ ht.posLastFind # Unset /\ ht' = ht /\ ret' = ht.posLastFind
  BY DEF HashFindLast, LastFindSet
<1>2. Good(ht, ret) /\ ht.table \in Seq(Group)
  BY <1>1, OpenIs
<1>3. PICK v : v = ht.posLastFind
  OBVIOUS
<1>4. v \in Pointers(ht.table) \cup {NULL}
  BY <1>1, <1>2, <1>3, LiveAre DEF Good
<1>5. Good(ht, v)
  BY <1>2, <1>4 DEF Good
<1> QED BY <1>1, <1>3, <1>5

(* What an insertion comes to, once its caller has settled.                  *)
LEMMA SettledGood ==
    ASSUME NEW h, Sound(h), h.posLastFind = NULL, "skipped" \notin h.did => Exact(h),
           NEW r \in Pointers(h.table) \cup {NULL}, NEW x, x = Settle(h)
    PROVE  Good(x, r)
<1>1. h \in Table
  BY DEF Sound
<1>2. /\ x \in Table /\ x.table = h.table /\ x.posLastFind = h.posLastFind
      /\ x.did = h.did /\ x.cItems = h.cItems /\ x.cDeletedItems = h.cDeletedItems
      /\ x.iter = NULL
  BY <1>1, SettleIs
<1>3. Sound(x) /\ (Exact(h) => Exact(x))
  BY <1>2, StillGood
<1> QED BY <1>2, <1>3 DEF Good

LEMMA DeletedGood ==
    ASSUME NEW h, Sound(h), h.posLastFind = NULL, "skipped" \notin h.did => Exact(h),
           NEW x, x = Did(h, "deleted")
    PROVE  Good(x, NULL)
<1>1. h \in Table
  BY DEF Sound
<1>2. PICK s \in {"deleted", "goal", "skipped"} : s = "deleted"
  OBVIOUS
<1>3. /\ x \in Table /\ x.table = h.table /\ x.posLastFind = h.posLastFind
      /\ x.did = h.did \cup {s} /\ x.cItems = h.cItems /\ x.cDeletedItems = h.cDeletedItems
      /\ x.iter = NULL
  BY <1>1, <1>2, DidIs
<1>4. Sound(x) /\ (Exact(h) => Exact(x))
  BY <1>3, StillGood
<1>5. "skipped" \notin x.did => "skipped" \notin h.did
  BY <1>3
<1> QED BY <1>3, <1>4, <1>5 DEF Good

LEMMA SkippedGood ==
    ASSUME NEW h, Sound(h), h.posLastFind = NULL, NEW r \in Pointers(h.table) \cup {NULL},
           NEW x, x = Did(h, "skipped")
    PROVE  Good(x, r)
<1>1. h \in Table
  BY DEF Sound
<1>2. PICK s \in {"deleted", "goal", "skipped"} : s = "skipped"
  OBVIOUS
<1>3. /\ x \in Table /\ x.table = h.table /\ x.posLastFind = h.posLastFind
      /\ x.did = h.did \cup {s} /\ x.cItems = h.cItems /\ x.cDeletedItems = h.cDeletedItems
      /\ x.iter = NULL
  BY <1>1, <1>2, DidIs
<1>4. Sound(x)
  BY <1>3, StillGood
<1>5. "skipped" \in x.did
  BY <1>2, <1>3
<1> QED BY <1>3, <1>4, <1>5 DEF Good

LEMMA InsertKeeps ==
    ASSUME IInv, NEW key \in Keys, NEW data \in Datas, HashInsert(key, data)
    PROVE  Good(ht', ret')
<1>1. Good(ht, ret) /\ Sound(ht) /\ Buckets(ht.table) # 0
  BY OpenIs DEF HashInsert
<1>2. PICK a : a = InsertOver(ht, key, data)
  OBVIOUS
<1>3. ht' = Settle(a.ht) /\ ret' = a.item
  BY <1>2 DEF HashInsert, InsertOver
<1>4. HasAfter(ht, a) /\ a.item \in LivePointers(a.ht.table)
  BY <1>1, <1>2, InsertOverIs
<1>5. PICK h, r, x : h = a.ht /\ r = a.item /\ x = Settle(h)
  OBVIOUS
<1>6. /\ Sound(h) /\ h.posLastFind = NULL /\ h.did = ht.did
      /\ r \in Pointers(h.table) /\ (Exact(ht) => Exact(h))
  BY <1>4, <1>5 DEF HasAfter
<1>7. "skipped" \notin h.did => Exact(h)
  BY <1>1, <1>6 DEF Good
<1>8. Good(x, r)
  BY <1>5, <1>6, <1>7, SettledGood
<1> QED BY <1>3, <1>5, <1>8

LEMMA FindOrInsertKeeps ==
    ASSUME IInv, NEW key \in Keys, NEW data \in Datas, HashFindOrInsert(key, data)
    PROVE  Good(ht', ret')
<1>1. Good(ht, ret) /\ Sound(ht) /\ Buckets(ht.table) # 0
  BY OpenIs DEF HashFindOrInsert
<1>2. PICK a : a = InsertBeside(ht, key, data)
  OBVIOUS
<1>3. /\ ht' = IF a.item \in LivePointers(a.ht.table) THEN Settle(a.ht) ELSE Did(a.ht, "skipped")
      /\ ret' = a.item
  BY <1>2 DEF HashFindOrInsert, InsertBeside
<1>4. HasAfter(ht, a)
  BY <1>1, <1>2, InsertBesideIs
<1>5. PICK h, r : h = a.ht /\ r = a.item
  OBVIOUS
<1>6. /\ Sound(h) /\ h.posLastFind = NULL /\ h.did = ht.did
      /\ r \in Pointers(h.table) /\ (Exact(ht) /\ r \in LivePointers(h.table) => Exact(h))
  BY <1>4, <1>5 DEF HasAfter
<1>7. CASE r \in LivePointers(h.table)
  <2>1. PICK x : x = Settle(h)
    OBVIOUS
  <2>2. "skipped" \notin h.did => Exact(h)
    BY <1>1, <1>6, <1>7 DEF Good
  <2>3. Good(x, r)
    BY <1>6, <2>1, <2>2, SettledGood
  <2> QED BY <1>3, <1>5, <1>7, <2>1, <2>3
<1>8. CASE r \notin LivePointers(h.table)
  <2>1. PICK x : x = Did(h, "skipped")
    OBVIOUS
  <2>2. Good(x, r)
    BY <1>6, <2>1, SkippedGood
  <2> QED BY <1>3, <1>5, <1>8, <2>1, <2>2
<1> QED BY <1>7, <1>8

LEMMA DeletesGood ==
    ASSUME NEW h, Good(h, ret), NEW p \in LivePointers(h.table),
           NEW x, x = Did(Delete(h, p), "deleted")
    PROVE  Good(x, NULL)
<1>1. PICK d : d = Delete(h, p)
  OBVIOUS
<1>2. Sound(d) /\ d.posLastFind = NULL /\ d.did = h.did /\ (Exact(h) => Exact(d))
  BY <1>1, DeleteIs DEF Good
<1>3. "skipped" \notin d.did => Exact(d)
  BY <1>2 DEF Good
<1> QED BY <1>1, <1>2, <1>3, DeletedGood

LEMMA DeleteKeeps ==
    ASSUME IInv, NEW key \in Keys, HashDelete(key)
    PROVE  Good(ht', ret')
<1>1. /\ Good(ht, ret) /\ Sound(ht) /\ Buckets(ht.table) # 0 /\ ht \in Table
  BY OpenIs DEF HashDelete
<1>2. PICK p : p = Find(ht.table, key).item
  OBVIOUS
<1>3. p \in LivePointers(ht.table) \cup {NULL}
  BY <1>1, <1>2, FoundIs
<1>4. ret' = NULL
  BY DEF HashDelete
<1>5. CASE p = NULL
  <2>1. PICK h, x : h = LastReset(ht) /\ x = Settle(h)
    OBVIOUS
  <2>2. ht' = x
    BY <1>2, <1>5, <2>1 DEF HashDelete, LastReset
  <2>3. /\ h \in Table /\ h.table = ht.table /\ h.posLastFind = NULL /\ h.did = ht.did
        /\ h.cItems = ht.cItems /\ h.cDeletedItems = ht.cDeletedItems
    BY <1>1, <2>1, LastResetIs
  <2>4. Sound(h) /\ (Exact(ht) => Exact(h))
    BY <1>1, <2>3, StillGood
  <2>5. "skipped" \notin h.did => Exact(h)
    BY <1>1, <2>3, <2>4 DEF Good
  <2>6. PICK r \in Pointers(h.table) \cup {NULL} : r = NULL
    OBVIOUS
  <2>7. Good(x, r)
    BY <2>1, <2>3, <2>4, <2>5, SettledGood
  <2> QED BY <1>4, <2>2, <2>6, <2>7
<1>6. CASE p # NULL
  <2>1. PICK x : x = Did(Delete(ht, p), "deleted")
    OBVIOUS
  <2>2. ht' = x
    BY <1>2, <1>6, <2>1 DEF HashDelete
  <2>3. Good(x, NULL)
    BY <1>1, <1>3, <1>6, <2>1, DeletesGood
  <2> QED BY <1>4, <2>2, <2>3
<1> QED BY <1>5, <1>6

LEMMA DeleteLastKeeps ==
    ASSUME IInv, HashDeleteLast
    PROVE  Good(ht', ret')
<1>1. Open /\ ht.posLastFind # Unset /\ ht.posLastFind # NULL /\ ret' = NULL
  BY DEF HashDeleteLast, LastFindSet
<1>2. Good(ht, ret)
  BY <1>1, OpenIs
<1>3. PICK p \in LivePointers(ht.table) : p = ht.posLastFind
  BY <1>1, <1>2 DEF Good
<1>4. PICK x : x = Did(Delete(ht, p), "deleted")
  OBVIOUS
<1>5. ht' = x
  BY <1>3, <1>4 DEF HashDeleteLast
<1>6. Good(x, NULL)
  BY <1>2, <1>4, DeletesGood
<1> QED BY <1>1, <1>5, <1>6

LEMMA GoalKeeps ==
    ASSUME IInv, NEW delta \in Goals, HashSetDeltaGoalSize(delta)
    PROVE  Good(ht', ret')
<1>1. Good(ht, ret) /\ Sound(ht) /\ ht \in Table
  BY OpenIs DEF HashSetDeltaGoalSize
<1>2. PICK x : x = WithGoal(ht, delta)
  OBVIOUS
<1>3. ht' = x /\ ret' = ret
  BY <1>2 DEF HashSetDeltaGoalSize, WithGoal
<1>4. PICK s : s = "goal"
  OBVIOUS
<1>5. PICK g \in Int, d \in Dids : g = delta /\ d = ht.did \cup {s}
  <2>1. delta \in Int
    BY HashTableAssumption
  <2>2. ht.did \cup {s} \in Dids
    BY <1>1, <1>4 DEF Table, Dids
  <2> QED BY <2>1, <2>2
<1>6. x = [ht EXCEPT !.cDeltaGoalSize = g, !.did = d]
  BY <1>1, <1>2, <1>5, <1>4 DEF WithGoal, Table
<1>7. /\ x \in Table /\ x.table = ht.table /\ x.posLastFind = ht.posLastFind
      /\ x.did = d /\ x.cItems = ht.cItems /\ x.cDeletedItems = ht.cDeletedItems
      /\ x.iter = ht.iter
  BY <1>1, <1>6 DEF Table
<1>8. Sound(x) /\ (Exact(ht) => Exact(x))
  BY <1>1, <1>7, StillGood
<1>9. "skipped" \notin x.did => "skipped" \notin ht.did
  BY <1>5, <1>7
<1>10. Good(x, ret)
  BY <1>1, <1>7, <1>8, <1>9 DEF Good
<1> QED BY <1>3, <1>10

LEMMA IteratingGood ==
    ASSUME IInv, Open, NEW v \in LivePointers(ht.table) \cup {NULL},
           NEW x, x = Iterating(ht, v)
    PROVE  Good(x, v)
<1>1. Good(ht, ret) /\ Sound(ht) /\ ht \in Table /\ ht.table \in Seq(Group)
  BY OpenIs
<1>2. v \in Iters /\ v \in Pointers(ht.table) \cup {NULL}
  BY <1>1, PointersTyped
<1>3. /\ x \in Table /\ x.table = ht.table /\ x.posLastFind = ht.posLastFind
      /\ x.did = ht.did /\ x.cItems = ht.cItems /\ x.cDeletedItems = ht.cDeletedItems
      /\ x.iter = v
  BY <1>1, <1>2 DEF Iterating, Table
<1>4. Sound(x) /\ (Exact(ht) => Exact(x))
  BY <1>1, <1>3, StillGood
<1> QED BY <1>1, <1>2, <1>3, <1>4 DEF Good

LEMMA NextBucketIs ==
    ASSUME NEW t \in Seq(Group), NEW p
    PROVE  SparseNextBucket(LivePointers(t), p) \in LivePointers(t) \cup {NULL}
<1>1. PICK ps : ps = {q \in LivePointers(t) : Precedes(p, q)}
  OBVIOUS
<1>2. ps \in SUBSET (Nat \X Nat) /\ ps \subseteq LivePointers(t)
  BY <1>1, PointersTyped
<1>3. First(ps) \in ps \cup {NULL}
  BY <1>2, FirstIs
<1>4. SparseNextBucket(LivePointers(t), p) = First(ps)
  BY <1>1 DEF SparseNextBucket
<1> QED BY <1>2, <1>3, <1>4

LEMMA IterationKeeps ==
    ASSUME IInv, HashFirstBucket \/ HashNextBucket
    PROVE  Good(ht', ret')
<1>1. PICK p : Open /\ ret' = SparseNextBucket(LivePointers(ht.table), p)
               /\ ht' = Iterating(ht, ret')
  BY DEF HashFirstBucket, HashNextBucket, Iterating
<1>2. ht.table \in Seq(Group)
  BY <1>1, OpenIs
<1>3. PICK v : v = SparseNextBucket(LivePointers(ht.table), p)
  OBVIOUS
<1>4. v \in LivePointers(ht.table) \cup {NULL}
  BY <1>2, <1>3, NextBucketIs
<1>5. PICK x : x = Iterating(ht, v)
  OBVIOUS
<1>6. Good(x, v)
  BY <1>1, <1>4, <1>5, IteratingGood
<1> QED BY <1>1, <1>3, <1>5, <1>6

LEMMA PrintKeeps ==
    ASSUME IInv, PrintHashTable, ht' # NULL
    PROVE  Good(ht', ret')
<1>1. Open /\ ht' = Settle(ht) /\ ret' = ret
  BY DEF PrintHashTable
<1>2. Good(ht, ret) /\ Sound(ht) /\ ht \in Table
  BY <1>1, OpenIs
<1>3. PICK x : x = Settle(ht)
  OBVIOUS
<1>4. /\ x \in Table /\ x.table = ht.table /\ x.posLastFind = ht.posLastFind
      /\ x.did = ht.did /\ x.cItems = ht.cItems /\ x.cDeletedItems = ht.cDeletedItems
      /\ x.iter = NULL
  BY <1>2, <1>3, SettleIs
<1>5. Sound(x) /\ (Exact(ht) => Exact(x))
  BY <1>2, <1>4, StillGood
<1>6. Good(x, ret)
  BY <1>2, <1>4, <1>5 DEF Good
<1> QED BY <1>1, <1>3, <1>6

LEMMA NextKeeps ==
    ASSUME IInv, [Next]_vars
    PROVE  IInv'
<1> SUFFICES ASSUME ht' # NULL PROVE Good(ht', ret')
  BY DEF IInv
<1>1. CASE UNCHANGED vars
  BY <1>1 DEF vars, IInv
<1>2. CASE AllocateHashTable
  BY <1>2, AllocateKeeps
<1>3. CASE ClearHashTable
  BY <1>3, ClearKeeps
<1>4. CASE FreeHashTable \/ Crash
  BY <1>4 DEF FreeHashTable, Crash
<1>5. CASE HashFindLast
  BY <1>5, FindLastKeeps
<1>6. CASE HashDeleteLast
  BY <1>6, DeleteLastKeeps
<1>7. CASE HashFirstBucket \/ HashNextBucket
  BY <1>7, IterationKeeps
<1>8. CASE PrintHashTable
  BY <1>8, PrintKeeps
<1>9. CASE \E key \in Keys : HashFind(key) \/ HashDelete(key)
  BY <1>9, FindKeeps, DeleteKeeps
<1>10. CASE \E key \in Keys, data \in Datas :
               HashInsert(key, data) \/ HashFindOrInsert(key, data)
  BY <1>10, InsertKeeps, FindOrInsertKeeps
<1>11. CASE \E delta \in Goals : HashSetDeltaGoalSize(delta)
  BY <1>11, GoalKeeps
<1> QED BY <1>1, <1>2, <1>3, <1>4, <1>5, <1>6, <1>7, <1>8, <1>9, <1>10, <1>11 DEF Next

-------------------------------------------------------------------------------
(* The map *)

(* What the abstract variables are, of a table and of a pointer to an item.  *)
OpenOf(h) == h # NULL /\ Buckets(h.table) > 0
ItemOfAt(h, p) == IF OpenOf(h) /\ p \in LivePointers(h.table) THEN Deref(h.table, p) ELSE NULL
StateOf(h) == IF h = NULL THEN "none" ELSE IF OpenOf(h) THEN "open" ELSE "broken"
MapOf(h) == IF OpenOf(h) THEN Contents(h.table) ELSE {}
LastOfAt(h) == IF OpenOf(h) THEN ItemOfAt(h, h.posLastFind) ELSE NULL
LeftOf(h) ==
    IF OpenOf(h) /\ h.iter # NULL
    THEN {Deref(h.table, p) : p \in {q \in LivePointers(h.table) : Precedes(h.iter, q)}}
    ELSE {}
RisksOf(h) == IF OpenOf(h) THEN h.did \ {"skipped"} ELSE {}

LEMMA NowIs ==
    /\ StateIs = StateOf(ht) /\ MapIs = MapOf(ht) /\ LastIs = LastOfAt(ht)
    /\ ItemAt(ret) = ItemOfAt(ht, ret) /\ LeftIs = LeftOf(ht) /\ RisksIs = RisksOf(ht)
  BY DEF Open, OpenOf, ItemAt, ItemOfAt, StateIs, StateOf, MapIs, MapOf, LastIs, LastOfAt,
         LeftIs, LeftOf, RisksIs, RisksOf

LEMMA ThenIs ==
    /\ StateIs' = StateOf(ht') /\ MapIs' = MapOf(ht') /\ LastIs' = LastOfAt(ht')
    /\ ItemAt(ret)' = ItemOfAt(ht', ret') /\ LeftIs' = LeftOf(ht') /\ RisksIs' = RisksOf(ht')
  BY DEF Open, OpenOf, ItemAt, ItemOfAt, StateIs, StateOf, MapIs, MapOf, LastIs, LastOfAt,
         LeftIs, LeftOf, RisksIs, RisksOf

(* What an open table shows.                                                 *)
LEMMA OpenShows ==
    ASSUME NEW h \in Table, Buckets(h.table) # 0
    PROVE  /\ StateOf(h) = "open" /\ MapOf(h) = Contents(h.table)
           /\ LastOfAt(h) = ItemOfAt(h, h.posLastFind)
           /\ h.iter = NULL => LeftOf(h) = {}
           /\ RisksOf(h) = h.did \ {"skipped"}
           /\ \A p : ItemOfAt(h, p) =
                     IF p \in LivePointers(h.table) THEN Deref(h.table, p) ELSE NULL
<1>1. OpenOf(h) /\ h # NULL
  <2>1. h # NULL /\ h.table \in Seq(Group)
    BY TableIn, TableHas
  <2>2. Buckets(h.table) \in Nat
    BY <2>1, TableIs
  <2> QED BY <2>1, <2>2 DEF OpenOf
<1> QED BY <1>1 DEF StateOf, MapOf, LastOfAt, LeftOf, RisksOf, ItemOfAt

LEMMA NullsDead ==
    ASSUME NEW t \in Seq(Group)
    PROVE  NULL \notin LivePointers(t) /\ Unset \notin LivePointers(t)
  BY PointersTyped, HashTableAssumption

(* What a table is besides, for the map: its items are where they are looked *)
(* for, and the risks that the map speaks of are the only ones.              *)
Mapped(h) ==
    /\ Chained(h.table)
    /\ ~Clean(h.table) => "deleted" \in h.did
    /\ "goal" \notin h.did => Lean(h)

MInv == ht # NULL => Mapped(ht)

LEMMA StillMapped ==
    ASSUME NEW h, Mapped(h), NEW x, x.table = h.table, x.cItems = h.cItems,
           x.cDeltaGoalSize = h.cDeltaGoalSize, h.did \subseteq x.did
    PROVE  Mapped(x)
  BY DEF Mapped, Lean

LEMMA NewMapped ==
    ASSUME NEW x \in Table, x.table = SparseAllocate(MIN_HASH_SIZE), x.cDeltaGoalSize = 0
    PROVE  Mapped(x) /\ Buckets(x.table) # 0 /\ Contents(x.table) = {} /\ LivePointers(x.table) = {}
<1>1. MIN_HASH_SIZE \in Nat \ {0} /\ PowerOf2(MIN_HASH_SIZE) /\ MIN_HASH_SIZE >= GroupSize
  BY HashTableAssumption DEF PowerOf2
<1>2. PICK t : t = x.table
  OBVIOUS
<1>3. /\ t \in Seq(Group) /\ Pointers(t) = {} /\ LivePointers(t) = {}
      /\ Buckets(t) >= MIN_HASH_SIZE /\ Buckets(t) \in {MIN_HASH_SIZE, GroupSize}
  BY <1>1, <1>2, AllocatedIs
<1>4. Buckets(t) # 0 /\ Buckets(t) < 2 * MIN_HASH_SIZE
  BY <1>1, <1>3, GroupSizeIs
<1>5. HasItems(t, {})
  BY <1>3, EmptyChained
<1>6. Clean(t)
  BY <1>3 DEF Clean
<1> QED BY <1>2, <1>3, <1>4, <1>5, <1>6 DEF Mapped, Lean, HasItems

(* A new table, and none.                                                    *)
LEMMA FreshOpen ==
    ASSUME ht' \in Table, ht'.table = SparseAllocate(MIN_HASH_SIZE), ht'.cDeltaGoalSize = 0,
           ht'.posLastFind \in {NULL, Unset}, ht'.iter = NULL, ht'.did = {}, ret' = NULL
    PROVE  Mapped(ht') /\ Map!Fresh("open")
<1>1. /\ Mapped(ht') /\ Buckets(ht'.table) # 0 /\ Contents(ht'.table) = {}
      /\ LivePointers(ht'.table) = {}
  BY NewMapped
<1>2. /\ StateOf(ht') = "open" /\ MapOf(ht') = {} /\ LastOfAt(ht') = NULL /\ LeftOf(ht') = {}
      /\ RisksOf(ht') = {} /\ ItemOfAt(ht', ret') = NULL
  BY <1>1, OpenShows
<1> QED BY <1>1, <1>2, ThenIs DEF Map!Fresh

LEMMA CloseSteps ==
    ASSUME ht' = NULL
    PROVE  Map!Close
<1>1. /\ StateOf(ht') = "none" /\ MapOf(ht') = {} /\ LastOfAt(ht') = NULL /\ LeftOf(ht') = {}
      /\ RisksOf(ht') = {} /\ ItemOfAt(ht', ret') = NULL
  BY DEF StateOf, MapOf, LastOfAt, LeftOf, RisksOf, ItemOfAt, OpenOf
<1> QED BY <1>1, ThenIs DEF Map!Close, Map!Fresh

LEMMA AllocateSteps ==
    ASSUME AllocateHashTable
    PROVE  Mapped(ht') /\ Map!Allocate
<1>1. ht = NULL /\ ht' = NewTable /\ ret' = NULL
  BY DEF AllocateHashTable
<1>2. ht' \in Table
  BY <1>1, NewTableIs DEF Sound
<1>3. Mapped(ht') /\ Map!Fresh("open")
  BY <1>1, <1>2, FreshOpen DEF NewTable
<1>4. StateIs = "none"
  BY <1>1 DEF StateIs
<1> QED BY <1>3, <1>4 DEF Map!Allocate

LEMMA ClearSteps ==
    ASSUME ClearHashTable
    PROVE  Mapped(ht') /\ Map!Clear
<1>1. PICK x : x = [NewTable EXCEPT !.posLastFind = NULL]
  OBVIOUS
<1>2. Open /\ ht' = x /\ ret' = NULL
  BY <1>1 DEF ClearHashTable
<1>3. /\ x.table = SparseAllocate(MIN_HASH_SIZE) /\ x.cDeltaGoalSize = 0
      /\ x.posLastFind \in {NULL, Unset} /\ x.iter = NULL /\ x.did = {}
  BY <1>1 DEF NewTable
<1>4. x \in Table
  BY <1>1, NewTableIs, LastResetIs DEF Sound, LastReset
<1>5. Mapped(ht') /\ Map!Fresh("open")
  BY <1>2, <1>3, <1>4, FreshOpen
<1>6. StateIs = "open"
  BY <1>2 DEF StateIs, Open
<1> QED BY <1>5, <1>6 DEF Map!Clear

(* Both sides of a step between open tables.                                 *)
LEMMA OpenNow ==
    ASSUME IInv, Open
    PROVE  /\ StateIs = "open" /\ MapIs = Contents(ht.table)
           /\ LastIs = ItemOfAt(ht, ht.posLastFind) /\ ItemAt(ret) = ItemOfAt(ht, ret)
           /\ LeftIs = LeftOf(ht) /\ RisksIs = ht.did \ {"skipped"}
           /\ \A key : Map!Item(key) = ItemsOf(ht.table, key)
<1>1. ht \in Table /\ Buckets(ht.table) # 0
  BY OpenIs
<1>2. MapIs = Contents(ht.table)
  BY <1>1, OpenShows, NowIs
<1> QED BY <1>1, <1>2, OpenShows, NowIs DEF Map!Item, ItemsOf

LEMMA OpenThen ==
    ASSUME NEW x \in Table, Buckets(x.table) # 0, ht' = x
    PROVE  /\ StateIs' = "open" /\ MapIs' = Contents(x.table)
           /\ LastIs' = ItemOfAt(x, x.posLastFind) /\ ItemAt(ret)' = ItemOfAt(x, ret')
           /\ LeftIs' = LeftOf(x) /\ RisksIs' = x.did \ {"skipped"}
           /\ x.iter = NULL => LeftIs' = {}
  BY OpenShows, ThenIs

LEMMA ItemOfAtIs ==
    ASSUME NEW h \in Table, Buckets(h.table) # 0
    PROVE  /\ ItemOfAt(h, NULL) = NULL /\ ItemOfAt(h, Unset) = NULL
           /\ \A p \in LivePointers(h.table) : ItemOfAt(h, p) = Deref(h.table, p)
           /\ \A p : p \notin LivePointers(h.table) => ItemOfAt(h, p) = NULL
<1>1. h.table \in Seq(Group)
  BY TableHas
<1> QED BY <1>1, OpenShows, NullsDead

LEMMA SameShown ==
    ASSUME NEW h \in Table, NEW x \in Table, x.table = h.table, Buckets(h.table) # 0
    PROVE  /\ \A p : ItemOfAt(x, p) = ItemOfAt(h, p)
           /\ x.iter = h.iter => LeftOf(x) = LeftOf(h)
<1>1. h # NULL /\ x # NULL
  BY TableIn
<1> QED BY <1>1 DEF ItemOfAt, LeftOf, OpenOf

LEMMA OnlyIs ==
    /\ Map!Only({}) = NULL
    /\ \A i : Map!Only({i}) = i
  BY DEF Map!Only

LEMMA FindSteps ==
    ASSUME IInv, MInv, NEW key \in Keys, HashFind(key)
    PROVE  Mapped(ht') /\ Map!Find(key)
<1>1. /\ Open /\ Sound(ht) /\ Buckets(ht.table) # 0 /\ ht.table \in Seq(Group)
      /\ ht \in Table /\ Mapped(ht)
  BY OpenIs DEF HashFind, MInv, Open
<1>2. PICK r : r = Find(ht.table, key)
  OBVIOUS
<1>3. Tells(ht.table, key, r) /\ r.item \in LivePointers(ht.table) \cup {NULL}
  BY <1>1, <1>2, FoundItem, FoundIs DEF Mapped
<1>4. PICK v : v = r.item
  OBVIOUS
<1>5. v \in Lasts
  BY <1>1, <1>3, <1>4, PointersTyped, NullsIn
<1>6. PICK x : x = FoundLast(ht, v)
  OBVIOUS
<1>7. /\ x \in Table /\ x.table = ht.table /\ x.cItems = ht.cItems /\ x.did = ht.did
      /\ x.cDeltaGoalSize = ht.cDeltaGoalSize /\ x.iter = ht.iter /\ x.posLastFind = v
  BY <1>1, <1>5, <1>6 DEF FoundLast, Table
<1>8. ht' = x /\ ret' = v
  BY <1>2, <1>4, <1>6, <1>7 DEF HashFind, FoundLast
<1>9. Mapped(x)
  BY <1>1, <1>7, StillMapped
<1>10. ItemOfAt(x, v) = Map!Only(ItemsOf(ht.table, key))
  <2>1. CASE v = NULL
    <3>1. ItemsOf(ht.table, key) = {}
      BY <1>3, <1>4, <2>1 DEF Tells
    <3> QED BY <1>1, <1>7, <2>1, <3>1, ItemOfAtIs, OnlyIs
  <2>2. CASE v # NULL
    <3>1. ItemsOf(ht.table, key) = {Deref(ht.table, v)} /\ v \in LivePointers(ht.table)
      BY <1>3, <1>4, <2>2 DEF Tells
    <3>2. ItemOfAt(x, v) = Deref(ht.table, v)
      BY <1>1, <1>7, <3>1, ItemOfAtIs
    <3> QED BY <3>1, <3>2, OnlyIs
  <2> QED BY <2>1, <2>2
<1>11. LeftOf(x) = LeftOf(ht)
  BY <1>1, <1>7, SameShown
<1>12. /\ StateIs = "open" /\ MapIs = Contents(ht.table) /\ LeftIs = LeftOf(ht)
       /\ RisksIs = ht.did \ {"skipped"} /\ Map!Item(key) = ItemsOf(ht.table, key)
  BY <1>1, OpenNow
<1>13. /\ StateIs' = "open" /\ MapIs' = Contents(ht.table) /\ LeftIs' = LeftOf(x)
       /\ RisksIs' = ht.did \ {"skipped"} /\ ItemAt(ret)' = ItemOfAt(x, v)
       /\ LastIs' = ItemOfAt(x, v)
  BY <1>1, <1>7, <1>8, OpenThen
<1>14. Map!Find(key)
  BY <1>10, <1>11, <1>12, <1>13 DEF Map!Find
<1> QED BY <1>8, <1>9, <1>14

LEMMA FindLastSteps ==
    ASSUME IInv, MInv, HashFindLast
    PROVE  Mapped(ht') /\ Map!FindLast
<1>1. Open /\ ht' = ht /\ ret' = ht.posLastFind
  BY DEF HashFindLast, LastFindSet
<1>2. ht \in Table /\ Buckets(ht.table) # 0 /\ Mapped(ht)
  BY <1>1, OpenIs DEF MInv, Open
<1>3. /\ StateIs = "open" /\ MapIs = Contents(ht.table) /\ LeftIs = LeftOf(ht)
      /\ RisksIs = ht.did \ {"skipped"} /\ LastIs = ItemOfAt(ht, ht.posLastFind)
  BY <1>1, OpenNow
<1>4. /\ StateIs' = "open" /\ MapIs' = Contents(ht.table) /\ LeftIs' = LeftOf(ht)
      /\ RisksIs' = ht.did \ {"skipped"} /\ LastIs' = ItemOfAt(ht, ht.posLastFind)
      /\ ItemAt(ret)' = ItemOfAt(ht, ht.posLastFind)
  BY <1>1, <1>2, OpenThen
<1>5. Map!FindLast
  BY <1>3, <1>4 DEF Map!FindLast
<1> QED BY <1>1, <1>2, <1>5

(* A table without buckets has no pointers.                                  *)
LEMMA NoneUnbucketed ==
    ASSUME NEW t \in Seq(Group), Buckets(t) = 0
    PROVE  Pointers(t) = {} /\ Contents(t) = {}
<1>1. Len(t) \in Nat /\ DOMAIN t = 1 .. Len(t) /\ GroupSize \in Nat \ {0}
  BY TableIs, GroupSizeIs
<1>2. PICK n \in Nat, s \in Nat \ {0} : n = Len(t) /\ s = GroupSize
  BY <1>1
<1>3. n * s = 0
  BY <1>2 DEF Buckets
<1>4. n = 0
  <2> SUFFICES ASSUME n >= 1 PROVE FALSE
    OBVIOUS
  <2>1. PICK m \in Nat : n = m + 1
    OBVIOUS
  <2>2. n * s = (m * s) + s /\ m * s \in Nat
    BY <2>1
  <2> QED BY <1>3, <2>2
<1>5. DOMAIN t = {}
  BY <1>1, <1>2, <1>4
<1>6. Pointers(t) = {}
  BY <1>5 DEF Pointers
<1>7. LivePointers(t) = {}
  BY <1>6, LiveAre
<1> QED BY <1>6, <1>7 DEF Contents

(* What an insertion leaves, once its caller has settled.                    *)
LEMMA AfterShows ==
    ASSUME IInv, MInv, Open, NEW a, HasAfter(ht, a), Chained(a.ht.table),
           Clean(ht.table) => Clean(a.ht.table), NEW x \in Table, ht' = x, ret' = a.item,
           x.table = a.ht.table, x.cItems = a.ht.cItems,
           x.cDeltaGoalSize = a.ht.cDeltaGoalSize, x.posLastFind = NULL, x.iter = NULL,
           x.did \ {"skipped"} = ht.did \ {"skipped"}
    PROVE  /\ Mapped(ht')
           /\ StateIs = "open" /\ UNCHANGED StateIs /\ LastIs' = NULL /\ LeftIs' = {}
           /\ UNCHANGED RisksIs /\ MapIs' = Contents(a.ht.table)
           /\ ItemAt(ret)' = IF a.item \in LivePointers(a.ht.table)
                             THEN Deref(a.ht.table, a.item) ELSE NULL
<1>1. /\ Mapped(ht) /\ a.item \in Pointers(x.table) /\ (Lean(ht) => Lean(a.ht))
      /\ a.ht.did = ht.did
  BY DEF HasAfter, MInv, Open
<1>2. x.table \in Seq(Group)
  BY TableHas
<1>3. Buckets(x.table) # 0
  BY <1>1, <1>2, NoneUnbucketed
<1>4. Mapped(x)
  <2>1. ~Clean(x.table) => "deleted" \in ht.did
    BY <1>1 DEF Mapped
  <2>2. "goal" \notin ht.did => Lean(x)
    BY <1>1 DEF Mapped, Lean
  <2>3. \A w : w # "skipped" => (w \in x.did <=> w \in ht.did)
    OBVIOUS
  <2>4. ("deleted" \in x.did <=> "deleted" \in ht.did) /\ ("goal" \in x.did <=> "goal" \in ht.did)
    BY <2>3
  <2> QED BY <2>1, <2>2, <2>4 DEF Mapped
<1>5. /\ StateIs' = "open" /\ MapIs' = Contents(x.table)
      /\ LastIs' = ItemOfAt(x, x.posLastFind) /\ ItemAt(ret)' = ItemOfAt(x, ret')
      /\ LeftIs' = {} /\ RisksIs' = x.did \ {"skipped"}
  BY <1>3, OpenThen
<1>6. StateIs = "open" /\ RisksIs = ht.did \ {"skipped"}
  BY OpenNow
<1>7. ItemOfAt(x, NULL) = NULL
  BY <1>3, ItemOfAtIs
<1>8. ItemOfAt(x, a.item) = IF a.item \in LivePointers(a.ht.table)
                            THEN Deref(a.ht.table, a.item) ELSE NULL
  BY <1>3, ItemOfAtIs
<1> QED BY <1>4, <1>5, <1>6, <1>7, <1>8

LEMMA InsertSteps ==
    ASSUME IInv, MInv, NEW key \in Keys, NEW data \in Datas, HashInsert(key, data)
    PROVE  Mapped(ht') /\ Map!Insert(key, data)
<1>1. Open /\ Good(ht, ret) /\ Sound(ht) /\ Buckets(ht.table) # 0 /\ Mapped(ht)
  BY OpenIs DEF HashInsert, MInv, Open
<1>2. PICK a : a = InsertOver(ht, key, data)
  OBVIOUS
<1>3. ht' = Settle(a.ht) /\ ret' = a.item
  BY <1>2 DEF HashInsert, InsertOver
<1>4. PICK items : items = (Contents(ht.table) \ ItemsOf(ht.table, key)) \cup {ItemOf(key, data)}
  OBVIOUS
<1>5. /\ HasAfter(ht, a) /\ a.item \in LivePointers(a.ht.table)
      /\ Deref(a.ht.table, a.item) = ItemOf(key, data)
      /\ Clean(ht.table) => Clean(a.ht.table)
      /\ HasItems(a.ht.table, items)
  BY <1>1, <1>2, <1>4, InsertOverIs DEF Mapped
<1>6. PICK h, x : h = a.ht /\ x = Settle(h)
  OBVIOUS
<1>7. h \in Table /\ h.posLastFind = NULL /\ h.did = ht.did
  BY <1>5, <1>6 DEF HasAfter, Sound
<1>8. /\ x \in Table /\ x.table = h.table /\ x.posLastFind = NULL /\ x.did = ht.did
      /\ x.cItems = h.cItems /\ x.cDeltaGoalSize = h.cDeltaGoalSize /\ x.iter = NULL
  BY <1>6, <1>7, SettleIs
<1>9. Chained(a.ht.table) /\ Contents(a.ht.table) = items
  BY <1>5 DEF HasItems
<1>10. /\ Mapped(ht')
       /\ StateIs = "open" /\ UNCHANGED StateIs /\ LastIs' = NULL /\ LeftIs' = {}
       /\ UNCHANGED RisksIs /\ MapIs' = Contents(a.ht.table)
       /\ ItemAt(ret)' = IF a.item \in LivePointers(a.ht.table)
                         THEN Deref(a.ht.table, a.item) ELSE NULL
  BY <1>1, <1>3, <1>5, <1>6, <1>8, <1>9, AfterShows
<1>11. MapIs = Contents(ht.table) /\ Map!Item(key) = ItemsOf(ht.table, key)
  BY <1>1, OpenNow
<1>12. /\ ItemAt(ret)' = ItemOf(key, data)
       /\ MapIs' = (MapIs \ Map!Item(key)) \cup {ItemAt(ret)'}
  BY <1>4, <1>5, <1>9, <1>10, <1>11
<1>13. Map!Insert(key, data)
  BY <1>10, <1>12 DEF Map!Insert, Map!Changed, ItemOf
<1> QED BY <1>10, <1>13

LEMMA FindOrInsertSteps ==
    ASSUME IInv, MInv, NEW key \in Keys, NEW data \in Datas, HashFindOrInsert(key, data)
    PROVE  Mapped(ht') /\ Map!FindOrInsert(key, data)
<1>1. Open /\ Good(ht, ret) /\ Sound(ht) /\ Buckets(ht.table) # 0 /\ Mapped(ht)
  BY OpenIs DEF HashFindOrInsert, MInv, Open
<1>2. PICK a : a = InsertBeside(ht, key, data)
  OBVIOUS
<1>3. /\ ht' = IF a.item \in LivePointers(a.ht.table) THEN Settle(a.ht) ELSE Did(a.ht, "skipped")
      /\ ret' = a.item
  BY <1>2 DEF HashFindOrInsert, InsertBeside
<1>4. /\ HasAfter(ht, a)
      /\ Clean(ht.table) => Clean(a.ht.table)
      /\ \/ /\ a.item \in LivePointers(a.ht.table)
            /\ ItemsOf(ht.table, key) = {Deref(a.ht.table, a.item)}
            /\ HasItems(a.ht.table, Contents(ht.table))
         \/ /\ a.item \in LivePointers(a.ht.table) /\ ItemsOf(ht.table, key) = {}
            /\ Deref(a.ht.table, a.item) = ItemOf(key, data)
            /\ HasItems(a.ht.table, Contents(ht.table) \cup {ItemOf(key, data)})
         \/ /\ a.item \notin LivePointers(a.ht.table) /\ ItemsOf(ht.table, key) = {}
            /\ ~Clean(ht.table) /\ HasItems(a.ht.table, Contents(ht.table))
  BY <1>1, <1>2, InsertBesideIs DEF Mapped
<1>5. PICK h, x : h = a.ht /\ x = ht'
  OBVIOUS
<1>6. h \in Table /\ h.posLastFind = NULL /\ h.did = ht.did
  BY <1>4, <1>5 DEF HasAfter, Sound
<1>7. /\ x \in Table /\ x.table = h.table /\ x.posLastFind = NULL
      /\ x.did \ {"skipped"} = ht.did \ {"skipped"}
      /\ x.cItems = h.cItems /\ x.cDeltaGoalSize = h.cDeltaGoalSize /\ x.iter = NULL
  <2>1. CASE a.item \in LivePointers(a.ht.table)
    <3>1. x = Settle(h)
      BY <1>3, <1>5, <2>1
    <3>2. /\ x \in Table /\ x.table = h.table /\ x.posLastFind = NULL /\ x.did = ht.did
          /\ x.cItems = h.cItems /\ x.cDeltaGoalSize = h.cDeltaGoalSize /\ x.iter = NULL
      BY <1>6, <3>1, SettleIs
    <3> QED BY <3>2
  <2>2. CASE a.item \notin LivePointers(a.ht.table)
    <3>1. PICK s \in {"deleted", "goal", "skipped"} : s = "skipped"
      OBVIOUS
    <3>2. x = Did(h, s)
      BY <1>3, <1>5, <2>2, <3>1
    <3>3. /\ x \in Table /\ x.table = h.table /\ x.posLastFind = NULL /\ x.did = ht.did \cup {s}
          /\ x.cItems = h.cItems /\ x.cDeltaGoalSize = h.cDeltaGoalSize /\ x.iter = NULL
      BY <1>6, <3>2, DidIs
    <3> QED BY <3>1, <3>3
  <2> QED BY <2>1, <2>2
<1>8. Chained(a.ht.table)
  BY <1>4 DEF HasItems
<1>9. /\ Mapped(ht')
      /\ StateIs = "open" /\ UNCHANGED StateIs /\ LastIs' = NULL /\ LeftIs' = {}
      /\ UNCHANGED RisksIs /\ MapIs' = Contents(a.ht.table)
      /\ ItemAt(ret)' = IF a.item \in LivePointers(a.ht.table)
                        THEN Deref(a.ht.table, a.item) ELSE NULL
  BY <1>1, <1>3, <1>4, <1>5, <1>7, <1>8, AfterShows
<1>10. /\ MapIs = Contents(ht.table) /\ Map!Item(key) = ItemsOf(ht.table, key)
       /\ RisksIs = ht.did \ {"skipped"}
  BY <1>1, OpenNow
<1>11. CASE /\ a.item \in LivePointers(a.ht.table)
            /\ ItemsOf(ht.table, key) = {Deref(a.ht.table, a.item)}
            /\ HasItems(a.ht.table, Contents(ht.table))
  <2>1. ItemAt(ret)' = Map!Only(Map!Item(key)) /\ Map!Item(key) # {} /\ UNCHANGED MapIs
    BY <1>9, <1>10, <1>11, OnlyIs DEF HasItems
  <2> QED BY <1>9, <2>1 DEF Map!FindOrInsert, Map!Changed
<1>12. CASE /\ a.item \in LivePointers(a.ht.table) /\ ItemsOf(ht.table, key) = {}
            /\ Deref(a.ht.table, a.item) = ItemOf(key, data)
            /\ HasItems(a.ht.table, Contents(ht.table) \cup {ItemOf(key, data)})
  <2>1. /\ Map!Item(key) = {} /\ ItemAt(ret)' = ItemOf(key, data)
        /\ MapIs' = (MapIs \ Map!Item(key)) \cup {ItemAt(ret)'}
    BY <1>9, <1>10, <1>12 DEF HasItems
  <2>2. Map!Insert(key, data)
    BY <1>9, <2>1 DEF Map!Insert, Map!Changed, ItemOf
  <2> QED BY <1>9, <2>1, <2>2 DEF Map!FindOrInsert
<1>13. CASE /\ a.item \notin LivePointers(a.ht.table) /\ ItemsOf(ht.table, key) = {}
            /\ ~Clean(ht.table) /\ HasItems(a.ht.table, Contents(ht.table))
  <2>1. "deleted" \in RisksIs
    BY <1>1, <1>10, <1>13 DEF Mapped
  <2>2. ItemAt(ret)' = Map!Only(Map!Item(key)) /\ UNCHANGED MapIs
    BY <1>9, <1>10, <1>13, OnlyIs DEF HasItems
  <2> QED BY <1>9, <2>1, <2>2 DEF Map!FindOrInsert, Map!Changed
<1> QED BY <1>4, <1>11, <1>12, <1>13

LEMMA DeletesSteps ==
    ASSUME IInv, MInv, Open, NEW p \in LivePointers(ht.table),
           ht' = Did(Delete(ht, p), "deleted"), ret' = NULL
    PROVE  Mapped(ht') /\ Map!Delete({Deref(ht.table, p)})
<1>1. Good(ht, ret) /\ Sound(ht) /\ ht.table \in Seq(Group) /\ Mapped(ht)
  BY OpenIs DEF MInv, Open
<1>2. PICK d, item : d = Delete(ht, p) /\ item = Deref(ht.table, p)
  OBVIOUS
<1>3. /\ Sound(d) /\ d.posLastFind = NULL /\ d.did = ht.did
      /\ Chained(d.table) /\ Contents(d.table) = Contents(ht.table) \ {item}
      /\ Lean(ht) => Lean(d) /\ Buckets(d.table) # 0
  BY <1>1, <1>2, DeleteIs DEF Mapped, HasItems
<1>4. PICK s \in {"deleted", "goal", "skipped"} : s = "deleted"
  OBVIOUS
<1>5. PICK x : x = ht'
  OBVIOUS
<1>6. d \in Table /\ x = Did(d, s)
  BY <1>2, <1>3, <1>4, <1>5 DEF Sound
<1>7. /\ x \in Table /\ x.table = d.table /\ x.posLastFind = NULL
      /\ x.did = ht.did \cup {s} /\ x.cItems = d.cItems
      /\ x.cDeltaGoalSize = d.cDeltaGoalSize /\ x.iter = NULL
  BY <1>3, <1>6, DidIs
<1>8. "deleted" \in x.did /\ ("goal" \notin x.did => "goal" \notin ht.did)
  BY <1>4, <1>7
<1>9. Mapped(x)
  BY <1>1, <1>3, <1>7, <1>8 DEF Mapped, Lean
<1>10. /\ StateIs = "open" /\ MapIs = Contents(ht.table)
       /\ RisksIs = ht.did \ {"skipped"}
  BY OpenNow
<1>11. CASE Buckets(d.table) # 0
  <2>1. /\ StateIs' = "open" /\ MapIs' = Contents(x.table)
        /\ LastIs' = ItemOfAt(x, NULL) /\ ItemAt(ret)' = ItemOfAt(x, NULL)
        /\ LeftIs' = {} /\ RisksIs' = x.did \ {"skipped"}
    BY <1>5, <1>7, <1>11, OpenThen
  <2>2. ItemOfAt(x, NULL) = NULL
    BY <1>7, <1>11, ItemOfAtIs
  <2>3. MapIs' = MapIs \ {item} /\ RisksIs' = RisksIs \cup {"deleted"}
    BY <1>3, <1>4, <1>7, <1>10, <2>1
  <2>4. {item} # {}
    OBVIOUS
  <2>5. Map!Delete({item})
    BY <1>10, <2>1, <2>2, <2>3, <2>4 DEF Map!Delete, Map!Changed
  <2> QED BY <1>2, <1>5, <1>9, <2>5
<1>12. CASE Buckets(d.table) = 0
  <2>1. "goal" \in RisksIs
    BY <1>1, <1>3, <1>10, <1>12 DEF Mapped
  <2>2. d.table \in Seq(Group)
    BY <1>6, TableHas
  <2>3. Contents(d.table) = {}
    BY <1>12, <2>2, NoneUnbucketed
  <2>4. item \in Contents(ht.table)
    BY <1>2 DEF Contents
  <2>5. MapIs = {item}
    BY <1>3, <1>10, <2>3, <2>4
  <2>6. ~OpenOf(x) /\ x # NULL
    BY <1>7, <1>12, TableIn DEF OpenOf
  <2>7. /\ StateOf(x) = "broken" /\ MapOf(x) = {} /\ LastOfAt(x) = NULL /\ LeftOf(x) = {}
        /\ RisksOf(x) = {} /\ ItemOfAt(x, ret') = NULL
    BY <2>6 DEF StateOf, MapOf, LastOfAt, LeftOf, RisksOf, ItemOfAt
  <2>8. Map!Fresh("broken")
    BY <1>5, <2>7, ThenIs DEF Map!Fresh
  <2>9. Map!Delete({item})
    BY <1>10, <2>1, <2>5, <2>8 DEF Map!Delete
  <2> QED BY <1>2, <1>5, <1>9, <2>9
<1> QED
  <2>1. Buckets(d.table) \in Nat
    BY <1>6, TableHas, TableIs
  <2> QED BY <1>11, <1>12, <2>1

LEMMA DeleteKeySteps ==
    ASSUME IInv, MInv, NEW key \in Keys, HashDelete(key)
    PROVE  Mapped(ht') /\ Map!Delete(Map!Item(key))
<1>1. /\ Open /\ Sound(ht) /\ Buckets(ht.table) # 0 /\ ht \in Table /\ Mapped(ht)
      /\ ret' = NULL
  BY OpenIs DEF HashDelete, MInv, Open
<1>2. PICK r, p : r = Find(ht.table, key) /\ p = r.item
  OBVIOUS
<1>3. Tells(ht.table, key, r)
  BY <1>1, <1>2, FoundItem DEF Mapped
<1>4. MapIs = Contents(ht.table) /\ Map!Item(key) = ItemsOf(ht.table, key)
  BY <1>1, OpenNow
<1>5. CASE p = NULL
  <2>1. PICK h, x : h = LastReset(ht) /\ x = Settle(h)
    OBVIOUS
  <2>2. ht' = x
    BY <1>2, <1>5, <2>1 DEF HashDelete, LastReset
  <2>3. /\ h \in Table /\ h.table = ht.table /\ h.posLastFind = NULL /\ h.did = ht.did
        /\ h.cItems = ht.cItems /\ h.cDeltaGoalSize = ht.cDeltaGoalSize
    BY <1>1, <2>1, LastResetIs
  <2>4. /\ x \in Table /\ x.table = ht.table /\ x.posLastFind = NULL /\ x.did = ht.did
        /\ x.cItems = ht.cItems /\ x.cDeltaGoalSize = ht.cDeltaGoalSize /\ x.iter = NULL
    BY <2>1, <2>3, SettleIs
  <2>5. Mapped(x)
    BY <1>1, <2>4, StillMapped
  <2>6. /\ StateIs = "open" /\ RisksIs = ht.did \ {"skipped"}
    BY <1>1, OpenNow
  <2>7. /\ StateIs' = "open" /\ MapIs' = Contents(ht.table) /\ LastIs' = ItemOfAt(x, NULL)
        /\ ItemAt(ret)' = ItemOfAt(x, NULL) /\ LeftIs' = {} /\ RisksIs' = ht.did \ {"skipped"}
    BY <1>1, <2>2, <2>4, OpenThen
  <2>8. ItemOfAt(x, NULL) = NULL
    BY <1>1, <2>4, ItemOfAtIs
  <2>9. Map!Item(key) = {}
    BY <1>2, <1>3, <1>4, <1>5 DEF Tells
  <2>10. MapIs \ {} = MapIs
    OBVIOUS
  <2>11. Map!Delete(Map!Item(key))
    BY <1>4, <2>6, <2>7, <2>8, <2>9, <2>10 DEF Map!Delete, Map!Changed
  <2> QED BY <2>2, <2>5, <2>11
<1>6. CASE p # NULL
  <2>1. p \in LivePointers(ht.table) /\ ItemsOf(ht.table, key) = {Deref(ht.table, p)}
    BY <1>2, <1>3, <1>6 DEF Tells
  <2>2. ht' = Did(Delete(ht, p), "deleted")
    BY <1>2, <1>6 DEF HashDelete
  <2>3. Mapped(ht') /\ Map!Delete({Deref(ht.table, p)})
    BY <1>1, <2>1, <2>2, DeletesSteps
  <2> QED BY <1>4, <2>1, <2>3
<1> QED BY <1>5, <1>6

LEMMA DeleteLastSteps ==
    ASSUME IInv, MInv, HashDeleteLast
    PROVE  Mapped(ht') /\ Map!DeleteLast
<1>1. /\ Open /\ ht.posLastFind # Unset /\ ht.posLastFind # NULL /\ ret' = NULL
      /\ ht' = Did(Delete(ht, ht.posLastFind), "deleted")
  BY DEF HashDeleteLast, LastFindSet
<1>2. Good(ht, ret) /\ ht \in Table /\ Buckets(ht.table) # 0 /\ ht.table \in Seq(Group)
  BY <1>1, OpenIs
<1>3. PICK p \in LivePointers(ht.table) : p = ht.posLastFind
  BY <1>1, <1>2 DEF Good
<1>4. Mapped(ht') /\ Map!Delete({Deref(ht.table, p)})
  BY <1>1, <1>3, DeletesSteps
<1>5. LastIs = ItemOfAt(ht, ht.posLastFind)
  BY <1>1, OpenNow
<1>6. LastIs = Deref(ht.table, p)
  BY <1>2, <1>3, <1>5, ItemOfAtIs
<1>7. LastIs # NULL
  <2>1. p \in Pointers(ht.table)
    BY <1>2, LiveAre
  <2>2. Deref(ht.table, p) \in Item
    BY <1>2, <2>1, DerefIs
  <2> QED BY <1>6, <2>2, HashTableAssumption
<1> QED BY <1>4, <1>6, <1>7 DEF Map!DeleteLast

LEMMA GoalSteps ==
    ASSUME IInv, MInv, NEW delta \in Goals, HashSetDeltaGoalSize(delta)
    PROVE  Mapped(ht') /\ Map!Hint
<1>1. /\ Open /\ ht \in Table /\ Buckets(ht.table) # 0 /\ Mapped(ht)
      /\ ht.table \in Seq(Group)
  BY OpenIs DEF HashSetDeltaGoalSize, MInv, Open
<1>2. PICK x : x = WithGoal(ht, delta)
  OBVIOUS
<1>3. ht' = x /\ ret' = ret
  BY <1>2 DEF HashSetDeltaGoalSize, WithGoal
<1>4. PICK s : s = "goal"
  OBVIOUS
<1>5. PICK g \in Int, d \in Dids : g = delta /\ d = ht.did \cup {s}
  <2>1. delta \in Int
    BY HashTableAssumption
  <2>2. ht.did \cup {s} \in Dids
    BY <1>1, <1>4 DEF Table, Dids
  <2> QED BY <2>1, <2>2
<1>6. x = [ht EXCEPT !.cDeltaGoalSize = g, !.did = d]
  BY <1>1, <1>2, <1>5, <1>4 DEF WithGoal, Table
<1>7. /\ x \in Table /\ x.table = ht.table /\ x.posLastFind = ht.posLastFind
      /\ x.did = d /\ x.iter = ht.iter
  BY <1>1, <1>6 DEF Table
<1>8. Mapped(x)
  <2>1. "goal" \in x.did /\ (~Clean(ht.table) => "deleted" \in x.did)
    BY <1>1, <1>4, <1>5, <1>7 DEF Mapped
  <2> QED BY <1>1, <1>7, <2>1 DEF Mapped
<1>9. /\ \A p : ItemOfAt(x, p) = ItemOfAt(ht, p)
      /\ LeftOf(x) = LeftOf(ht)
  BY <1>1, <1>7, SameShown
<1>10. /\ StateIs = "open" /\ MapIs = Contents(ht.table) /\ LeftIs = LeftOf(ht)
       /\ RisksIs = ht.did \ {"skipped"} /\ LastIs = ItemOfAt(ht, ht.posLastFind)
       /\ ItemAt(ret) = ItemOfAt(ht, ret)
  BY <1>1, OpenNow
<1>11. /\ StateIs' = "open" /\ MapIs' = Contents(ht.table) /\ LeftIs' = LeftOf(x)
       /\ RisksIs' = d \ {"skipped"} /\ LastIs' = ItemOfAt(x, ht.posLastFind)
       /\ ItemAt(ret)' = ItemOfAt(x, ret)
  BY <1>1, <1>3, <1>7, OpenThen
<1>12. RisksIs' = RisksIs \cup {"goal"}
  BY <1>4, <1>5, <1>10, <1>11
<1>13. Map!Hint
  BY <1>9, <1>10, <1>11, <1>12 DEF Map!Hint
<1> QED BY <1>3, <1>8, <1>13

LEMMA PrintSteps ==
    ASSUME IInv, MInv, PrintHashTable, ht' # NULL
    PROVE  Mapped(ht') /\ Map!Stop
<1>1. Open /\ ht' = Settle(ht) /\ ret' = ret
  BY DEF PrintHashTable
<1>2. ht \in Table /\ Buckets(ht.table) # 0 /\ Mapped(ht)
  BY <1>1, OpenIs DEF MInv, Open
<1>3. PICK x : x = Settle(ht)
  OBVIOUS
<1>4. /\ x \in Table /\ x.table = ht.table /\ x.posLastFind = ht.posLastFind
      /\ x.did = ht.did /\ x.cItems = ht.cItems /\ x.cDeltaGoalSize = ht.cDeltaGoalSize
      /\ x.iter = NULL
  BY <1>2, <1>3, SettleIs
<1>5. Mapped(x)
  BY <1>2, <1>4, StillMapped
<1>6. \A p : ItemOfAt(x, p) = ItemOfAt(ht, p)
  BY <1>2, <1>4, SameShown
<1>7. /\ StateIs = "open" /\ MapIs = Contents(ht.table) /\ RisksIs = ht.did \ {"skipped"}
      /\ LastIs = ItemOfAt(ht, ht.posLastFind) /\ ItemAt(ret) = ItemOfAt(ht, ret)
  BY <1>1, OpenNow
<1>8. /\ StateIs' = "open" /\ MapIs' = Contents(ht.table) /\ LeftIs' = {}
      /\ RisksIs' = ht.did \ {"skipped"} /\ LastIs' = ItemOfAt(x, ht.posLastFind)
      /\ ItemAt(ret)' = ItemOfAt(x, ret)
  BY <1>1, <1>2, <1>3, <1>4, OpenThen
<1>9. Map!Stop
  BY <1>6, <1>7, <1>8 DEF Map!Stop
<1> QED BY <1>1, <1>3, <1>5, <1>9

(* The items that come after a bucket in an iteration.                       *)
Beyond(t, p) == {q \in LivePointers(t) : Precedes(p, q)}
ItemsAt(t, ps) == {Deref(t, q) : q \in ps}

LEMMA NextLeaves ==
    ASSUME NEW t \in Seq(Group), Chained(t), NEW p \in Nat \X Nat,
           NEW v, v = SparseNextBucket(LivePointers(t), p)
    PROVE  /\ v = NULL => Beyond(t, p) = {}
           /\ v # NULL =>
                 /\ v \in LivePointers(t) /\ v \in Beyond(t, p)
                 /\ ItemsAt(t, Beyond(t, v)) = ItemsAt(t, Beyond(t, p)) \ {Deref(t, v)}
<1>1. PICK ps : ps = Beyond(t, p)
  OBVIOUS
<1>2. LivePointers(t) \subseteq Nat \X Nat /\ NULL \notin LivePointers(t)
  BY PointersTyped, NullsDead
<1>3. ps \in SUBSET (Nat \X Nat) /\ ps \subseteq LivePointers(t) /\ v = First(ps)
  BY <1>1, <1>2 DEF Beyond, SparseNextBucket
<1>4. CASE ps = {}
  <2>1. v = NULL
    BY <1>3, <1>4, FirstIs
  <2> QED BY <1>1, <1>4, <2>1
<1>5. CASE ps # {}
  <2>1. v \in ps /\ \A q \in ps : v = q \/ Precedes(v, q)
    BY <1>3, <1>5, FirstIs
  <2>2. v \in LivePointers(t) /\ v # NULL /\ v \in Nat \X Nat /\ Precedes(p, v)
    BY <1>1, <1>2, <1>3, <2>1 DEF Beyond
  <2>3. ASSUME NEW q \in Beyond(t, v)
        PROVE  q \in ps /\ Deref(t, q) # Deref(t, v)
    <3>1. q \in LivePointers(t) /\ q \in Nat \X Nat /\ Precedes(v, q)
      BY <1>2, <2>3 DEF Beyond
    <3>2. Precedes(p, q) /\ q # v
      <4>1. /\ p[1] \in Nat /\ p[2] \in Nat /\ v[1] \in Nat /\ v[2] \in Nat
            /\ q[1] \in Nat /\ q[2] \in Nat
        BY <2>2, <3>1
      <4> QED BY <2>2, <3>1, <4>1 DEF Precedes
    <3>3. Deref(t, q) # Deref(t, v)
      BY <2>2, <3>1, <3>2, KeysOnce
    <3> QED BY <1>1, <3>1, <3>2, <3>3 DEF Beyond
  <2>4. ASSUME NEW q \in ps, Deref(t, q) # Deref(t, v)
        PROVE  q \in Beyond(t, v)
    BY <1>3, <2>1, <2>4 DEF Beyond
  <2>5. ItemsAt(t, Beyond(t, v)) = ItemsAt(t, ps) \ {Deref(t, v)}
    BY <2>3, <2>4 DEF ItemsAt
  <2> QED BY <1>1, <2>1, <2>2, <2>5
<1> QED BY <1>4, <1>5

(* A step of an iteration that has the items beyond p to return.             *)
LEMMA IterationSteps ==
    ASSUME IInv, MInv, Open, NEW p \in Nat \X Nat,
           ret' = SparseNextBucket(LivePointers(ht.table), p), ht' = Iterating(ht, ret')
    PROVE  Mapped(ht') /\ Map!Return(ItemsAt(ht.table, Beyond(ht.table, p)))
<1>1. PICK t, v : t = ht.table /\ v = SparseNextBucket(LivePointers(t), p)
  OBVIOUS
<1>2. /\ ht \in Table /\ Buckets(t) # 0 /\ Mapped(ht)
      /\ t \in Seq(Group) /\ Chained(t)
  BY <1>1, OpenIs DEF MInv, Open, Mapped
<1>3. PICK items : items = ItemsAt(t, Beyond(t, p))
  OBVIOUS
<1>4. v = NULL => Beyond(t, p) = {}
  BY <1>1, <1>2, NextLeaves
<1>5. v # NULL => /\ v \in LivePointers(t) /\ v \in Beyond(t, p)
                  /\ ItemsAt(t, Beyond(t, v)) = items \ {Deref(t, v)}
  BY <1>1, <1>2, <1>3, NextLeaves
<1>6. v \in Iters
  BY <1>2, <1>5, PointersTyped DEF Iters
<1>7. PICK x : x = Iterating(ht, v)
  OBVIOUS
<1>8. /\ x \in Table /\ x.table = t /\ x.posLastFind = ht.posLastFind
      /\ x.did = ht.did /\ x.cItems = ht.cItems /\ x.cDeltaGoalSize = ht.cDeltaGoalSize
      /\ x.iter = v
  BY <1>1, <1>2, <1>6, <1>7 DEF Iterating, Table
<1>9. ht' = x /\ ret' = v
  BY <1>1, <1>7
<1>10. Mapped(x)
  BY <1>1, <1>2, <1>8, StillMapped
<1>11. \A q : ItemOfAt(x, q) = ItemOfAt(ht, q)
  BY <1>1, <1>2, <1>8, SameShown
<1>12. /\ StateIs = "open" /\ MapIs = Contents(t) /\ RisksIs = ht.did \ {"skipped"}
       /\ LastIs = ItemOfAt(ht, ht.posLastFind)
  BY <1>1, <1>2, OpenNow
<1>13. /\ StateIs' = "open" /\ MapIs' = Contents(t) /\ RisksIs' = ht.did \ {"skipped"}
       /\ LastIs' = ItemOfAt(x, ht.posLastFind) /\ ItemAt(ret)' = ItemOfAt(x, v)
       /\ LeftIs' = LeftOf(x) /\ (x.iter = NULL => LeftIs' = {})
  BY <1>1, <1>2, <1>8, <1>9, OpenThen
<1>14. CASE v = NULL
  <2>1. items = {}
    BY <1>3, <1>4, <1>14 DEF ItemsAt
  <2>2. ItemAt(ret)' = NULL /\ LeftIs' = items \ {ItemAt(ret)'}
    BY <1>1, <1>2, <1>8, <1>13, <1>14, <2>1, ItemOfAtIs
  <2>3. Map!Return(items)
    BY <1>11, <1>12, <1>13, <2>1, <2>2 DEF Map!Return
  <2> QED BY <1>1, <1>3, <1>9, <1>10, <2>3
<1>15. CASE v # NULL
  <2>1. Deref(t, v) \in items /\ items # {}
    BY <1>3, <1>5, <1>15 DEF ItemsAt
  <2>2. ItemAt(ret)' = Deref(t, v)
    BY <1>1, <1>2, <1>5, <1>8, <1>13, <1>15, ItemOfAtIs
  <2>3. OpenOf(x)
    <3>1. x # NULL /\ Buckets(t) \in Nat
      BY <1>2, <1>8, TableIn, TableIs
    <3> QED BY <1>2, <1>8, <3>1 DEF OpenOf
  <2>4. LeftOf(x) = ItemsAt(t, Beyond(t, v))
    BY <1>8, <1>15, <2>3 DEF LeftOf, ItemsAt, Beyond
  <2>5. LeftIs' = items \ {ItemAt(ret)'}
    BY <1>5, <1>13, <1>15, <2>2, <2>4
  <2>6. Map!Return(items)
    BY <1>11, <1>12, <1>13, <2>1, <2>2, <2>5 DEF Map!Return
  <2> QED BY <1>1, <1>3, <1>9, <1>10, <2>6
<1> QED BY <1>14, <1>15

LEMMA FirstSteps ==
    ASSUME IInv, MInv, HashFirstBucket
    PROVE  Mapped(ht') /\ Map!First
<1>1. PICK p \in Nat \X Nat : p = <<0, 0>>
  OBVIOUS
<1>2. /\ Open /\ ret' = SparseNextBucket(LivePointers(ht.table), p)
      /\ ht' = Iterating(ht, ret')
  BY <1>1 DEF HashFirstBucket, Iterating
<1>3. ht.table \in Seq(Group)
  BY <1>2, OpenIs
<1>4. ASSUME NEW q \in LivePointers(ht.table)
      PROVE  Precedes(p, q)
  <2>1. q \in Pointers(ht.table)
    BY <1>3, LiveAre
  <2>2. q[1] \in DOMAIN ht.table /\ DOMAIN ht.table = 1 .. Len(ht.table) /\ Len(ht.table) \in Nat
    BY <1>3, <2>1, PointersAre, TableIs
  <2>3. q[1] > 0 /\ p[1] = 0
    BY <1>1, <2>2
  <2> QED BY <2>3 DEF Precedes
<1>5. Beyond(ht.table, p) = LivePointers(ht.table)
  BY <1>4 DEF Beyond
<1>6. ItemsAt(ht.table, Beyond(ht.table, p)) = MapIs
  BY <1>2, <1>5, OpenNow DEF ItemsAt, Contents
<1>7. Mapped(ht') /\ Map!Return(MapIs)
  BY <1>2, <1>6, IterationSteps
<1> QED BY <1>7 DEF Map!First

LEMMA RestSteps ==
    ASSUME IInv, MInv, HashNextBucket
    PROVE  Mapped(ht') /\ Map!Rest
<1>1. /\ Open /\ ht.iter # NULL /\ ret' = SparseNextBucket(LivePointers(ht.table), ht.iter)
      /\ ht' = Iterating(ht, ret')
  BY DEF HashNextBucket, Iterating
<1>2. Good(ht, ret) /\ ht.table \in Seq(Group)
  BY <1>1, OpenIs
<1>3. PICK p \in Nat \X Nat : p = ht.iter
  BY <1>1, <1>2, PointersTyped DEF Good
<1>4. LeftIs = ItemsAt(ht.table, Beyond(ht.table, p))
  BY <1>1, <1>3 DEF LeftIs, ItemsAt, Beyond
<1>5. Mapped(ht') /\ Map!Return(LeftIs)
  BY <1>1, <1>3, <1>4, IterationSteps
<1> QED BY <1>5 DEF Map!Rest

(* Every step of the table is a step of the map, and keeps what the map      *)
(* rests on.                                                                 *)
LEMMA NextSteps ==
    ASSUME IInv, MInv, Next
    PROVE  MInv' /\ Map!Next
<1>1. CASE ht' = NULL
  BY <1>1, CloseSteps DEF MInv, Map!Next
<1>2. CASE ht' # NULL
  <2>1. CASE AllocateHashTable
    BY <2>1, AllocateSteps DEF MInv, Map!Next
  <2>2. CASE ClearHashTable
    BY <2>2, ClearSteps DEF MInv, Map!Next
  <2>3. CASE FreeHashTable \/ Crash
    BY <1>2, <2>3 DEF FreeHashTable, Crash
  <2>4. CASE HashFindLast
    BY <2>4, FindLastSteps DEF MInv, Map!Next
  <2>5. CASE HashDeleteLast
    BY <2>5, DeleteLastSteps DEF MInv, Map!Next
  <2>6. CASE HashFirstBucket
    BY <2>6, FirstSteps DEF MInv, Map!Next
  <2>7. CASE HashNextBucket
    BY <2>7, RestSteps DEF MInv, Map!Next
  <2>8. CASE PrintHashTable
    BY <1>2, <2>8, PrintSteps DEF MInv, Map!Next
  <2>9. CASE \E key \in Keys : HashFind(key)
    BY <2>9, FindSteps DEF MInv, Map!Next
  <2>10. CASE \E key \in Keys : HashDelete(key)
    BY <2>10, DeleteKeySteps DEF MInv, Map!Next
  <2>11. CASE \E key \in Keys, data \in Datas : HashInsert(key, data)
    BY <2>11, InsertSteps DEF MInv, Map!Next
  <2>12. CASE \E key \in Keys, data \in Datas : HashFindOrInsert(key, data)
    BY <2>12, FindOrInsertSteps DEF MInv, Map!Next
  <2>13. CASE \E delta \in Goals : HashSetDeltaGoalSize(delta)
    BY <2>13, GoalSteps DEF MInv, Map!Next
  <2> QED BY <2>1, <2>2, <2>3, <2>4, <2>5, <2>6, <2>7, <2>8, <2>9, <2>10, <2>11, <2>12, <2>13
          DEF Next
<1> QED BY <1>1, <1>2

LEMMA StutterSteps ==
    ASSUME MInv, UNCHANGED vars
    PROVE  MInv' /\ UNCHANGED Map!vars
<1>1. ht' = ht /\ ret' = ret
  BY DEF vars
<1>2. MInv'
  BY <1>1 DEF MInv
<1>3. /\ StateIs' = StateIs /\ MapIs' = MapIs /\ LastIs' = LastIs
      /\ ItemAt(ret)' = ItemAt(ret) /\ LeftIs' = LeftIs /\ RisksIs' = RisksIs
  BY <1>1, NowIs, ThenIs
<1> QED BY <1>2, <1>3 DEF Map!vars

(* No table is the empty map.                                                *)
LEMMA InitSteps ==
    ASSUME Init
    PROVE  MInv /\ Map!Init
<1>1. ht = NULL
  BY DEF Init
<1>2. /\ StateIs = "none" /\ MapIs = {} /\ LastIs = NULL /\ LeftIs = {}
      /\ RisksIs = {} /\ ItemAt(ret) = NULL
  BY <1>1 DEF StateIs, MapIs, LastIs, LeftIs, RisksIs, ItemAt, Open
<1> QED BY <1>1, <1>2 DEF MInv, Map!Init

-------------------------------------------------------------------------------
(* The theorems *)

LEMMA Invariant == Spec => []IInv
<1>1. Init => IInv
  BY DEF Init, IInv
<1>2. IInv /\ [Next]_vars => IInv'
  BY NextKeeps
<1> QED BY <1>1, <1>2, PTL DEF Spec

LEMMA TypesHold ==
    ASSUME IInv
    PROVE  TypeOK
<1> SUFFICES ASSUME ht # NULL
             PROVE  /\ ht \in HashTables
                    /\ \A g \in DOMAIN ht.table :
                          Len(ht.table[g].items) = Cardinality(ht.table[g].bmOccupied)
                    /\ ht.posLastFind \in LivePointers(ht.table) \cup {NULL, Unset}
                    /\ ht.iter \in LivePointers(ht.table) \cup {NULL}
                    /\ ret \in Pointers(ht.table) \cup {NULL}
  BY Zenon DEF TypeOK
<1>1. Good(ht, ret) /\ ht \in Table
  BY DEF IInv, Good, Sound
<1>2. ht.table \in Seq(Group)
  BY <1>1, TableHas
<1>3. ht \in HashTables
  BY <1>1, TableIn
<1>4. ASSUME NEW g \in DOMAIN ht.table
      PROVE  Len(ht.table[g].items) = Cardinality(ht.table[g].bmOccupied)
  BY <1>2, GroupIs
<1> QED BY <1>1, <1>3, <1>4 DEF Good

(* The array keeps as many items in a group as its bitmap says, whatever has *)
(* been inserted, deleted and rehashed, and the pointers that are kept, to   *)
(* what was last found and to where an iteration is, are to live items.      *)
THEOREM TypeCorrect == Spec => []TypeOK
<1>1. IInv => TypeOK
  BY TypesHold
<1> QED BY <1>1, Invariant, PTL

(* What PrintHashTable asserts: the two counters are of what the array has,  *)
(* unless HashFindOrInsert has skipped an item; then they are not below it.  *)
THEOREM CountsAreRight == Spec => []CountsAgree
<1>1. IInv => CountsAgree
  <2> SUFFICES ASSUME IInv, ht # NULL
               PROVE  IF "skipped" \in ht.did
                      THEN ht.cItems >= Cardinality(LivePointers(ht.table))
                      ELSE /\ ht.cItems = Cardinality(LivePointers(ht.table))
                           /\ ht.cItems + ht.cDeletedItems = Cardinality(Pointers(ht.table))
    BY DEF CountsAgree
  <2>1. Good(ht, ret) /\ Counted(ht)
    BY DEF IInv, Good, Sound
  <2> QED BY <2>1 DEF Good, Counted, Exact
<1> QED BY <1>1, Invariant, PTL

(* Find's loop ends: more than half of the buckets are empty, and quadratic  *)
(* probing comes to every bucket of a table of a power of 2.                 *)
THEOREM SearchesEnd == Spec => []FindEnds
<1>1. IInv => FindEnds
  <2> SUFFICES ASSUME IInv, Open, NEW key \in Keys PROVE Stops(ht.table, key) # {}
    BY DEF FindEnds
  <2>1. Sound(ht) /\ Buckets(ht.table) # 0
    BY OpenIs
  <2> QED BY <2>1, FoundIs
<1> QED BY <1>1, Invariant, PTL

(* The hash table implements the map: whatever keys collide, and however the *)
(* table grows, shrinks and reuses its buckets, each call returns and leaves *)
(* what the same call of the map would.                                      *)
THEOREM ImplementsMap == Spec => IsMap
<1>1. Init => MInv /\ Map!Init
  BY InitSteps
<1>2. IInv /\ MInv /\ [Next]_vars => MInv' /\ [Map!Next]_(Map!vars)
  BY NextSteps, StutterSteps
<1> QED BY <1>1, <1>2, Invariant, PTL DEF Spec, IsMap, Map!Spec

(* The probes of a key come to every bucket of a table of a power of 2, one  *)
(* after the other and to none twice.                                        *)
THEOREM ProbesCover ==
    ASSUME NEW key \in Keys, NEW c, PowerOf2(c)
    PROVE  /\ \A l \in 0 .. c - 1 : \E i \in 0 .. c - 1 : Probe(key, i, c) = l
           /\ \A i, j \in 0 .. c - 1 : i < j => Probe(key, i, c) # Probe(key, j, c)
  BY ProbesReachAll, ProbesDiffer
===============================================================================
