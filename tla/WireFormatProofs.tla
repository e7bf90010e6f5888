-------------------------- MODULE WireFormatProofs --------------------------
(***************************************************************************)
(* Theorems about WireFormat for every value of its constants: any widths  *)
(* of bytes, words and size_t, any digest size and files of any length.    *)
(* The induction is that of MerkleOpsProofs.                               *)
(***************************************************************************)
EXTENDS WireFormat, MerkleOpsProofs, SequenceTheorems

\* A function defined by recursion over 0..len exists.
LEMMA Recursion ==
  ASSUME NEW len \in Nat, NEW S, NEW x \in S, NEW G \in [(1..len) \X S -> S]
  PROVE  \E f \in [0..len -> S] : f[0] = x /\ \A i \in 1..len : f[i] = G[<<i, f[i - 1]>>]
<1> DEFINE Upto(m, f) == f[0] = x /\ \A i \in 1..m : f[i] = G[<<i, f[i - 1]>>]
           Possible == {m \in Nat : m <= len => \E f \in [0..m -> S] : Upto(m, f)}
<1>1. 0 \in Possible
  <2>1. [i \in 0..0 |-> x] \in [0..0 -> S] /\ Upto(0, [i \in 0..0 |-> x])
    OBVIOUS
  <2>. QED  BY <2>1
<1>2. ASSUME NEW m \in Nat, m \in Possible PROVE m + 1 \in Possible
  <2>. SUFFICES ASSUME m + 1 <= len PROVE \E f \in [0..(m + 1) -> S] : Upto(m + 1, f)
    OBVIOUS
  <2>1. PICK f \in [0..m -> S] : Upto(m, f)
    BY <1>2
  <2>. DEFINE g == [i \in 0..(m + 1) |-> IF i = m + 1 THEN G[<<m + 1, f[m]>>] ELSE f[i]]
  <2>2. G[<<m + 1, f[m]>>] \in S
    BY <2>1
  <2>3. g \in [0..(m + 1) -> S]
    BY <2>1, <2>2
  <2>4. ASSUME NEW i \in 1..(m + 1)
        PROVE  g[i] = G[<<i, g[i - 1]>>]
    <3>1. CASE i = m + 1
      <4>1. m + 1 \in 0..(m + 1) /\ m \in 0..(m + 1) /\ m # m + 1 /\ i - 1 = m
        BY <3>1
      <4>2. g[m + 1] = G[<<m + 1, f[m]>>] /\ g[m] = f[m]
        BY <4>1
      <4>. HIDE DEF g
      <4>. QED  BY <4>1, <4>2, <3>1
    <3>2. CASE i # m + 1
      <4>1. i \in 1..m /\ g[i] = f[i] /\ g[i - 1] = f[i - 1]
        BY <3>2
      <4>. QED  BY <2>1, <4>1
    <3>. QED  BY <3>1, <3>2
  <2>5. Upto(m + 1, g)
    <3>1. g[0] = x
      BY <2>1
    <3>. QED  BY <3>1, <2>4
  <2>. QED  BY <2>3, <2>5
<1>3. Nat \subseteq Possible
  <2>. HIDE DEF Possible
  <2>. QED  BY <1>1, <1>2, Induction
<1>4. len \in Possible
  <2>. HIDE DEF Possible
  <2>. QED  BY <1>3
<1>. QED  BY <1>4

\* The same for numbers.
LEMMA NatRecursion ==
  ASSUME NEW len \in Nat, NEW x \in Nat, NEW G \in [(1..len) \X Nat -> Nat]
  PROVE  \E f \in [0..len -> Nat] : f[0] = x /\ \A i \in 1..len : f[i] = G[<<i, f[i - 1]>>]
<1>. DEFINE On(S) == \A y \in S : \A g \in [(1..len) \X S -> S] :
                       \E f \in [0..len -> S] :
                         f[0] = y /\ \A i \in 1..len : f[i] = g[<<i, f[i - 1]>>]
<1>1. \A S : On(S)
  BY Recursion
<1>2. On(Nat)
  <2>. HIDE DEF On
  <2>. QED  BY <1>1
<1>. QED  BY <1>2

\* What the places of the bytes count.
LEMMA PlaceDef ==
  /\ Place \in [Nat -> Nat \ {0}] /\ Place[0] = 1
  /\ \A b \in Nat : Place[b + 1] = Base * Place[b]
<1>. DEFINE step == [m \in Nat |-> Base * m]
<1>0. Base \in Nat \ {0, 1}
  BY WidthAssumption
<1>1. PICK f \in [Nat -> Nat] : f[0] = 1 /\ \A b \in Nat : f[b + 1] = step[f[b]]
  <2>1. step \in [Nat -> Nat] /\ 1 \in Nat
    BY <1>0
  <2>. HIDE DEF step
  <2>. QED  BY <2>1, NatIterates
<1>2. f = [b \in Nat |-> IF b = 0 THEN 1 ELSE Base * f[b - 1]]
  <2>1. \A b \in Nat \ {0} : f[b] = Base * f[b - 1]
    <3>1. ASSUME NEW b \in Nat \ {0}
          PROVE  f[b] = step[f[b - 1]] /\ f[b - 1] \in Nat
      <4>. HIDE DEF step
      <4>1. b - 1 \in Nat /\ (b - 1) + 1 = b
        OBVIOUS
      <4>. QED  BY <4>1, <1>1
    <3>2. \A m \in Nat : step[m] = Base * m
      OBVIOUS
    <3>. HIDE DEF step
    <3>. QED  BY <3>1, <3>2
  <2>. QED  BY <1>1, <2>1
<1>3. Place = [b \in Nat |-> IF b = 0 THEN 1 ELSE Base * Place[b - 1]]
  BY <1>2 DEF Place
<1>4. Place[0] = 1 /\ \A b \in Nat : Place[b + 1] = Base * Place[b]
  BY <1>3
<1>5. \A b \in Nat : Place[b] \in Nat \ {0}
  <2>. DEFINE Good == {b \in Nat : Place[b] \in Nat \ {0}}
  <2>0. \A p \in Nat \ {0} : Base * p \in Nat \ {0}
    BY <1>0
  <2>1. 0 \in Good /\ \A b \in Nat : b \in Good => b + 1 \in Good
    BY <1>4, <2>0
  <2>2. Nat \subseteq Good
    <3>. HIDE DEF Good
    <3>. QED  BY <2>1, Induction
  <2>. QED  BY <2>2
<1>. QED  BY <1>3, <1>4, <1>5

\* Quotient and rest are what multiplies and adds up.
LEMMA Division ==
  ASSUME NEW p \in Nat \ {0}, NEW q \in Nat, NEW r \in 0..(p - 1)
  PROVE  (q * p + r) \div p = q /\ (q * p + r) % p = r
<1>1. PICK v \in Nat : v = q * p + r
  <2>1. q * p \in Nat
    OBVIOUS
  <2>. QED  BY <2>1
<1>2. PICK q2 \in Nat, r2 \in 0..(p - 1) : v = q2 * p + r2 /\ q2 = v \div p /\ r2 = v % p
  OBVIOUS
<1>3. ~(q < q2)
  <2>. SUFFICES ASSUME q < q2 PROVE FALSE
    OBVIOUS
  <2>1. PICK k \in Nat : q2 = q + 1 + k
    <3>1. q2 - q - 1 \in Nat /\ q2 = q + 1 + (q2 - q - 1)
      OBVIOUS
    <3>. QED  BY <3>1
  <2>2. q2 * p = q * p + p + k * p /\ k * p \in Nat /\ q * p \in Nat
    BY <2>1
  <2>. QED  BY <1>1, <1>2, <2>2
<1>4. ~(q2 < q)
  <2>. SUFFICES ASSUME q2 < q PROVE FALSE
    OBVIOUS
  <2>1. PICK k \in Nat : q = q2 + 1 + k
    <3>1. q - q2 - 1 \in Nat /\ q = q2 + 1 + (q - q2 - 1)
      OBVIOUS
    <3>. QED  BY <3>1
  <2>2. q * p = q2 * p + p + k * p /\ k * p \in Nat /\ q2 * p \in Nat
    BY <2>1
  <2>. QED  BY <1>1, <1>2, <2>2
<1>5. q = q2
  BY <1>3, <1>4
<1>6. q * p \in Nat /\ r = r2
  BY <1>1, <1>2, <1>5
<1>. QED  BY <1>1, <1>2, <1>5, <1>6

\* Products of numbers, where the provers do not multiply.
LEMMA Products ==
  ASSUME NEW a \in Nat, NEW b \in Nat, NEW c \in Nat
  PROVE  /\ a * b \in Nat /\ a * b = b * a
         /\ (a + b) * c = a * c + b * c /\ a * (b * c) = (a * b) * c
  OBVIOUS

\* One more byte of a number.
LEMMA NextByte ==
  ASSUME NEW v \in Nat, NEW p \in Nat \ {0}, NEW base \in Nat \ {0}
  PROVE  v % (base * p) = (v % p) + ((v \div p) % base) * p
<1>1. PICK q \in Nat, r \in 0..(p - 1) : v = q * p + r /\ q = v \div p /\ r = v % p
  OBVIOUS
<1>2. PICK t \in Nat, d \in 0..(base - 1) : q = t * base + d /\ t = q \div base /\ d = q % base
  OBVIOUS
<1>3. base * p \in Nat \ {0} /\ d * p + r \in 0..(base * p - 1)
  <2>1. PICK k \in Nat : base = d + 1 + k
    <3>1. base - d - 1 \in Nat /\ base = d + 1 + (base - d - 1)
      BY <1>2
    <3>. QED  BY <3>1
  <2>2. base * p = (d + 1) * p + k * p /\ (d + 1) * p = d * p + 1 * p
    BY <2>1, Products
  <2>3. k * p \in Nat /\ d * p \in Nat /\ 1 * p = p
    BY Products
  <2>4. \A x, y, z \in Nat : z = x + p + y => z \in Nat \ {0} /\ x + r \in 0..(z - 1)
    OBVIOUS
  <2>. QED  BY <2>2, <2>3, <2>4
<1>4. v = t * (base * p) + (d * p + r)
  <2>1. t * base \in Nat /\ d * p \in Nat /\ (t * base) * p \in Nat /\ t * (base * p) \in Nat
    BY Products
  <2>2. q * p = (t * base) * p + d * p
    BY <1>2, <2>1, Products
  <2>3. (t * base) * p = t * (base * p)
    BY Products
  <2>4. \A x, y, z \in Nat : v = z + r /\ z = x + y => v = x + (y + r)
    OBVIOUS
  <2>. QED  BY <1>1, <2>1, <2>2, <2>3, <2>4
<1>5. v % (base * p) = d * p + r
  BY <1>3, <1>4, Division
<1>6. d * p \in Nat /\ d * p + r = r + d * p
  <2>1. d * p \in Nat
    BY Products
  <2>. QED  BY <2>1
<1>. QED  BY <1>1, <1>2, <1>5, <1>6

\* The uint32_t are those below the weight of the byte after the last one.
LEMMA WordRange ==
  /\ U32Max \in Nat /\ U32Max + 1 = Place[WordSize]
  /\ \A value \in 0..U32Max : value \in Nat /\ value % Place[WordSize] = value
<1>1. PICK p \in Nat \ {0} : p = Place[WordSize]
  BY PlaceDef, WidthAssumption
<1>2. U32Max = p - 1
  BY <1>1 DEF U32Max
<1>3. \A value \in 0..(p - 1) : value \in Nat /\ value % p = value
  OBVIOUS
<1>. QED  BY <1>1, <1>2, <1>3

\* write_u32 writes bytes, and read_u32 reads what it wrote, for words of any size.
LEMMA BytesOfWord ==
  ASSUME NEW value \in Nat
  PROVE  WordBytes(value) \in Seq(0..(Base - 1)) /\ Len(WordBytes(value)) = WordSize
<1>0. Base \in Nat \ {0, 1} /\ WordSize \in Nat \ {0}
  BY WidthAssumption
<1>1. \A b \in 1..WordSize : (value \div Place[b - 1]) % Base \in 0..(Base - 1)
  <2> TAKE b \in 1..WordSize
  <2>1. b - 1 \in Nat
    BY <1>0
  <2>2. PICK p \in Nat \ {0} : p = Place[b - 1]
    BY <2>1, PlaceDef
  <2>3. value \div p \in Nat
    BY <2>2
  <2>. QED  BY <1>0, <2>2, <2>3
<1>2. WordBytes(value) \in [1..WordSize -> 0..(Base - 1)]
  BY <1>1 DEF WordBytes
<1>. QED  BY <1>0, <1>2

\* read_u32 undoes write_u32 for every number that fits.
LEMMA WordInverse ==
  ASSUME NEW value \in 0..U32Max
  PROVE  WordOf(WordBytes(value)) = value
<1> DEFINE w == WordBytes(value)
           G == [x \in (1..WordSize) \X Nat |-> x[2] + w[x[1]] * Place[x[1] - 1]]
           Sums(f) == f = [b \in 0..WordSize |->
                             IF b = 0 THEN 0 ELSE f[b - 1] + w[b] * Place[b - 1]]
<1>0. Base \in Nat \ {0, 1} /\ WordSize \in Nat \ {0} /\ value \in Nat
  BY WidthAssumption, WordRange
<1>1. \A b \in 1..WordSize : /\ w[b] = (value \div Place[b - 1]) % Base /\ w[b] \in Nat
                             /\ w[b] * Place[b - 1] \in Nat
  <2> TAKE b \in 1..WordSize
  <2>1. w[b] = (value \div Place[b - 1]) % Base
    BY DEF WordBytes
  <2>2. w[b] \in 0..(Base - 1)
    <3>1. w \in Seq(0..(Base - 1)) /\ Len(w) = WordSize
      BY <1>0, BytesOfWord
    <3>. HIDE DEF w
    <3>. QED  BY <1>0, <3>1
  <2>3. b - 1 \in Nat
    BY <1>0
  <2>4. Place[b - 1] \in Nat
    BY <2>3, PlaceDef
  <2>. HIDE DEF w
  <2>5. w[b] \in Nat
    BY <1>0, <2>2
  <2>. QED  BY <2>1, <2>4, <2>5, Products
<1>2. \E f : Sums(f)
  <2>1. G \in [(1..WordSize) \X Nat -> Nat]
    <3>. HIDE DEF w
    <3>. QED  BY <1>1
  <2>2. \A b \in 1..WordSize, m \in Nat : G[<<b, m>>] = m + w[b] * Place[b - 1]
    <3>. HIDE DEF w
    <3>. QED  OBVIOUS
  <2>. HIDE DEF G, w
  <2>3. PICK f \in [0..WordSize -> Nat] :
          f[0] = 0 /\ \A b \in 1..WordSize : f[b] = G[<<b, f[b - 1]>>]
    <3>1. WordSize \in Nat /\ 0 \in Nat
      BY <1>0
    <3>. QED  BY <2>1, <3>1, NatRecursion
  <2>4. \A b \in 0..WordSize : b # 0 => b \in 1..WordSize /\ f[b - 1] \in Nat
    BY <1>0
  <2>5. Sums(f)
    <3>1. \A b \in 0..WordSize : f[b] = IF b = 0 THEN 0 ELSE f[b - 1] + w[b] * Place[b - 1]
      BY <2>2, <2>3, <2>4
    <3>. QED  BY <3>1
  <2>. QED  BY <2>5
<1>3. PICK f : Sums(f) /\ WordOf(w) = f[WordSize]
  <2>. HIDE DEF w
  <2>. QED  BY <1>2 DEF WordOf
<1>. DEFINE Good == {b \in Nat : b <= WordSize => f[b] = value % Place[b]}
<1>4. 0 \in Good
  <2>1. f[0] = 0
    BY <1>0, <1>3
  <2>2. value % Place[0] = 0
    BY <1>0, PlaceDef
  <2>. QED  BY <2>1, <2>2
<1>5. ASSUME NEW b \in Nat, b \in Good
      PROVE  b + 1 \in Good
  <2>. SUFFICES ASSUME b + 1 <= WordSize PROVE f[b + 1] = value % Place[b + 1]
    OBVIOUS
  <2>1. f[b + 1] = f[b] + w[b + 1] * Place[b]
    <3>1. b + 1 \in 0..WordSize /\ b + 1 # 0 /\ (b + 1) - 1 = b
      BY <1>0
    <3>. HIDE DEF w
    <3>. QED  BY <3>1, <1>3
  <2>2. w[b + 1] = (value \div Place[b]) % Base
    <3>1. b + 1 \in 1..WordSize /\ (b + 1) - 1 = b
      BY <1>0
    <3>. QED  BY <3>1, <1>1
  <2>3. f[b] = value % Place[b]
    BY <1>0, <1>5
  <2>4. Place[b + 1] = Base * Place[b] /\ Place[b] \in Nat \ {0}
    BY PlaceDef
  <2>5. value % (Base * Place[b]) = (value % Place[b]) + ((value \div Place[b]) % Base) * Place[b]
    BY <1>0, <2>4, NextByte
  <2>. HIDE DEF w
  <2>. QED  BY <2>1, <2>2, <2>3, <2>4, <2>5
<1>6. WordSize \in Good
  <2>. HIDE DEF Good
  <2>. QED  BY <1>0, <1>4, <1>5, Induction
<1>7. f[WordSize] = value % Place[WordSize]
  BY <1>0, <1>6
<1>8. value % Place[WordSize] = value
  BY WordRange
<1>. QED  BY <1>3, <1>7, <1>8

\* The place of one byte behind others.
LEMMA PlaceSum ==
  ASSUME NEW a \in Nat, NEW b \in Nat
  PROVE  Place[a + b] = Place[a] * Place[b]
<1>0. Base \in Nat
  BY WidthAssumption
<1> DEFINE Good == {m \in Nat : Place[a + m] = Place[a] * Place[m]}
<1>1. 0 \in Good
  <2>1. PICK p \in Nat : p = Place[a]
    BY PlaceDef
  <2>2. a + 0 = a /\ Place[0] = 1 /\ p * 1 = p
    BY PlaceDef
  <2>. QED  BY <2>1, <2>2
<1>2. ASSUME NEW m \in Nat, m \in Good PROVE m + 1 \in Good
  <2>1. PICK p \in Nat, q \in Nat : p = Place[a] /\ q = Place[m]
    BY PlaceDef
  <2>2. a + (m + 1) = (a + m) + 1 /\ a + m \in Nat /\ a + (m + 1) \in Nat
    OBVIOUS
  <2>3. Place[a + (m + 1)] = Base * Place[a + m]
    BY <2>2, PlaceDef
  <2>4. Place[m + 1] = Base * q
    BY <2>1, PlaceDef
  <2>5. Place[a + m] = p * q
    BY <1>2, <2>1
  <2>6. Base * (p * q) = p * (Base * q)
    <3>1. Base * (p * q) = (Base * p) * q /\ p * (Base * q) = (p * Base) * q
      BY <1>0, <2>1, Products
    <3>2. Base * p = p * Base
      BY <1>0, <2>1, Products
    <3>. QED  BY <3>1, <3>2
  <2>7. Place[a + (m + 1)] = Place[a] * Place[m + 1]
    BY <2>1, <2>3, <2>4, <2>5, <2>6
  <2>. QED  BY <2>7
<1>3. b \in Good
  <2>. HIDE DEF Good
  <2>. QED  BY <1>1, <1>2, Induction
<1>. QED  BY <1>3

\* A cast to uint32_t keeps the bytes that write_u32 writes.
LEMMA CastBytes ==
  ASSUME NEW value \in Nat
  PROVE  WordBytes(value) = WordBytes(value % Place[WordSize])
<1>0. Base \in Nat \ {0, 1} /\ WordSize \in Nat \ {0}
  BY WidthAssumption
<1>1. ASSUME NEW b \in 1..WordSize
      PROVE  (value \div Place[b - 1]) % Base = ((value % Place[WordSize]) \div Place[b - 1]) % Base
  <2>1. PICK low \in Nat, high \in Nat : low = b - 1 /\ high = WordSize - b /\ WordSize = low + (high + 1)
    <3>1. b - 1 \in Nat /\ WordSize - b \in Nat /\ WordSize = (b - 1) + ((WordSize - b) + 1)
      BY <1>0
    <3>. QED  BY <3>1
  <2>2. PICK p \in Nat \ {0}, k \in Nat \ {0} : p = Place[low] /\ k = Place[high]
    BY PlaceDef
  <2>3. PICK whole \in Nat \ {0} : whole = Place[WordSize] /\ whole = p * (Base * k)
    <3>1. high + 1 \in Nat /\ Place[high + 1] = Base * k
      BY <2>2, PlaceDef
    <3>2. Place[WordSize] = p * (Base * k)
      BY <2>1, <2>2, <3>1, PlaceSum
    <3>3. Place[WordSize] \in Nat \ {0}
      BY <1>0, PlaceDef
    <3>. QED  BY <3>2, <3>3
  <2>4. PICK t \in Nat, r \in 0..(whole - 1) : value = t * whole + r /\ r = value % whole
    OBVIOUS
  <2>5. PICK q \in Nat, s \in 0..(p - 1) : r = q * p + s /\ q = r \div p
    OBVIOUS
  <2>6. PICK j \in Nat : j = t * k /\ t * whole = (j * Base) * p
    <3>1. t * k \in Nat /\ Base * k \in Nat /\ k * Base \in Nat /\ t * (k * Base) \in Nat
      BY <1>0, Products
    <3>2. whole = (Base * k) * p
      BY <2>3, <3>1, Products
    <3>3. Base * k = k * Base
      BY <1>0, Products
    <3>4. t * ((k * Base) * p) = (t * (k * Base)) * p
      BY <3>1, Products
    <3>5. t * (k * Base) = (t * k) * Base
      BY <1>0, Products
    <3>. QED  BY <3>1, <3>2, <3>3, <3>4, <3>5
  <2>7. value = (j * Base + q) * p + s
    <3>1. j * Base \in Nat /\ (j * Base) * p \in Nat /\ q * p \in Nat
      BY <1>0, Products
    <3>2. (j * Base + q) * p = (j * Base) * p + q * p
      BY <3>1, Products
    <3>3. \A x, y, z \in Nat : z = x + y => x + (y + s) = z + s
      OBVIOUS
    <3>4. (j * Base + q) * p \in Nat
      BY <3>1, Products
    <3>5. value = (j * Base) * p + (q * p + s)
      BY <2>4, <2>5, <2>6
    <3>. QED  BY <3>1, <3>2, <3>3, <3>4, <3>5
  <2>8. j * Base \in Nat /\ j * Base + q \in Nat
    <3>1. j * Base \in Nat
      BY <1>0, Products
    <3>. QED  BY <3>1
  <2>9. value \div p = j * Base + q
    BY <2>7, <2>8, Division
  <2>10. (j * Base + q) % Base = q % Base
    <3>1. PICK q2 \in Nat, d \in 0..(Base - 1) : q = q2 * Base + d /\ d = q % Base
      BY <1>0
    <3>2. (j + q2) * Base = j * Base + q2 * Base /\ j * Base \in Nat /\ q2 * Base \in Nat
      BY <1>0, Products
    <3>3. j * Base + q = (j + q2) * Base + d
      <4>1. \A x, y, z \in Nat : z = x + y => x + (y + d) = z + d
        BY <1>0
      <4>2. (j + q2) * Base \in Nat
        BY <1>0, Products
      <4>. QED  BY <3>1, <3>2, <4>1, <4>2
    <3>4. j + q2 \in Nat
      OBVIOUS
    <3>5. ((j + q2) * Base + d) % Base = d
      BY <1>0, <3>4, Division
    <3>. QED  BY <3>1, <3>3, <3>5
  <2>. QED  BY <2>1, <2>2, <2>3, <2>4, <2>5, <2>9, <2>10
<1>. QED  BY <1>1 DEF WordBytes
------------------------------------------------------------------------------
\* FlattenSeq, one sequence at a time.
Flattens(f, seqs) ==
  /\ f[0] = <<>>
  /\ \A i \in 1..Len(seqs) : f[i] = f[i - 1] \o seqs[i]

\* FlattenSeq joins one sequence after the other.
LEMMA FlattenDef ==
  ASSUME NEW T, NEW seqs \in Seq(Seq(T))
  PROVE  \E f \in [0..Len(seqs) -> Seq(T)] : Flattens(f, seqs) /\ FlattenSeq(seqs) = f[Len(seqs)]
<1> DEFINE m == Len(seqs)
           G == [x \in (1..m) \X Seq(T) |-> x[2] \o seqs[x[1]]]
           Flat(g) == g = [i \in 1..Len(seqs) |-> IF i = 1 THEN seqs[i] ELSE g[i - 1] \o seqs[i]]
<1>0. m \in Nat /\ \A i \in 1..m : seqs[i] \in Seq(T)
  OBVIOUS
<1>1. PICK f \in [0..m -> Seq(T)] : Flattens(f, seqs)
  <2>. DEFINE On(S) == \A y \in S : \A g \in [(1..m) \X S -> S] :
                         \E f \in [0..m -> S] :
                           f[0] = y /\ \A i \in 1..m : f[i] = g[<<i, f[i - 1]>>]
  <2>1. \A S : On(S)
    <3>. HIDE DEF m
    <3>. QED  BY <1>0, Recursion
  <2>2. On(Seq(T))
    <3>. HIDE DEF On
    <3>. QED  BY <2>1
  <2>3. \A i \in 1..m, s \in Seq(T) : s \o seqs[i] \in Seq(T) /\ G[<<i, s>>] = s \o seqs[i]
    <3>. HIDE DEF m
    <3>1. TAKE i \in 1..m, s \in Seq(T)
    <3>2. s \o seqs[i] \in Seq(T)
      BY <1>0, ConcatProperties
    <3>. QED  BY <3>2
  <2>4. G \in [(1..m) \X Seq(T) -> Seq(T)]
    BY <2>3
  <2>5. <<>> \in Seq(T)
    OBVIOUS
  <2>. HIDE DEF G, m
  <2>6. PICK f \in [0..m -> Seq(T)] :
          f[0] = <<>> /\ \A i \in 1..m : f[i] = G[<<i, f[i - 1]>>]
    BY <2>2, <2>4, <2>5
  <2>7. \A i \in 1..m : f[i - 1] \in Seq(T)
    BY <1>0
  <2>8. Flattens(f, seqs)
    BY <2>3, <2>6, <2>7 DEF Flattens, m
  <2>. QED  BY <2>8
<1>2. CASE m = 0
  <2>1. seqs = <<>> /\ FlattenSeq(seqs) = seqs
    BY <1>2 DEF FlattenSeq
  <2>. QED  BY <1>1, <1>2, <2>1 DEF Flattens
<1>3. CASE m # 0
  <2>1. Flat([i \in 1..Len(seqs) |-> f[i]])
    <3>. DEFINE g == [i \in 1..Len(seqs) |-> f[i]]
    <3>1. ASSUME NEW i \in 1..m
          PROVE  g[i] = IF i = 1 THEN seqs[i] ELSE g[i - 1] \o seqs[i]
      <4>1. g[i] = f[i] /\ f[i] = f[i - 1] \o seqs[i]
        BY <1>1 DEF Flattens
      <4>2. CASE i = 1
        <5>1. f[i - 1] = <<>>
          BY <1>1, <4>2 DEF Flattens
        <5>2. <<>> \o seqs[i] = seqs[i]
          BY <1>0
        <5>. QED  BY <4>1, <4>2, <5>1, <5>2
      <4>3. CASE i # 1
        <5>1. i - 1 \in 1..m /\ g[i - 1] = f[i - 1]
          BY <1>0, <4>3
        <5>. QED  BY <4>1, <4>3, <5>1
      <4>. QED  BY <4>2, <4>3
    <3>. QED  BY <3>1
  <2>2. PICK g : Flat(g) /\ FlattenSeq(seqs) = g[Len(seqs)]
    BY <1>3, <2>1 DEF FlattenSeq
  <2>. DEFINE Good == {i \in Nat : i + 1 <= m => g[i + 1] = f[i + 1]}
  <2>3. 0 \in Good
    <3>0. 1 \in 1..m
      BY <1>0, <1>3
    <3>1. g[1] = seqs[1]
      BY <2>2, <3>0
    <3>2. f[1] = <<>> \o seqs[1]
      <4>1. f[1] = f[1 - 1] \o seqs[1]
        BY <1>1, <3>0 DEF Flattens
      <4>2. 1 - 1 = 0 /\ f[0] = <<>>
        BY <1>1 DEF Flattens
      <4>. QED  BY <4>1, <4>2
    <3>3. <<>> \o seqs[1] = seqs[1]
      BY <1>0, <3>0
    <3>. QED  BY <3>1, <3>2, <3>3
  <2>4. ASSUME NEW i \in Nat, i \in Good PROVE i + 1 \in Good
    <3>. SUFFICES ASSUME (i + 1) + 1 <= m PROVE g[(i + 1) + 1] = f[(i + 1) + 1]
      OBVIOUS
    <3>1. (i + 1) + 1 \in 1..m /\ (i + 1) + 1 # 1 /\ ((i + 1) + 1) - 1 = i + 1 /\ i + 1 <= m
      BY <1>0
    <3>2. g[(i + 1) + 1] = g[i + 1] \o seqs[(i + 1) + 1]
      BY <2>2, <3>1
    <3>3. f[(i + 1) + 1] = f[i + 1] \o seqs[(i + 1) + 1]
      BY <1>1, <3>1 DEF Flattens
    <3>4. g[i + 1] = f[i + 1]
      BY <2>4, <3>1
    <3>. QED  BY <3>2, <3>3, <3>4
  <2>5. m - 1 \in Good
    <3>1. m - 1 \in Nat
      BY <1>0, <1>3
    <3>. HIDE DEF Good, m
    <3>. QED  BY <2>3, <2>4, <3>1, Induction
  <2>6. g[m] = f[m]
    BY <1>0, <1>3, <2>5
  <2>. QED  BY <1>1, <2>2, <2>6
<1>. QED  BY <1>2, <1>3

\* It yields a sequence, and one more sequence comes behind the others.
LEMMA FlattenMore ==
  ASSUME NEW T, NEW seqs \in Seq(Seq(T)), NEW e \in Seq(T)
  PROVE  /\ FlattenSeq(<<>>) = <<>>
         /\ FlattenSeq(seqs) \in Seq(T)
         /\ FlattenSeq(Append(seqs, e)) = FlattenSeq(seqs) \o e
<1> DEFINE m == Len(seqs)
           more == Append(seqs, e)
<1>1. /\ m \in Nat /\ more \in Seq(Seq(T)) /\ Len(more) = m + 1 /\ more[m + 1] = e
      /\ \A i \in 1..m : more[i] = seqs[i]
  OBVIOUS
<1>2. PICK f \in [0..Len(seqs) -> Seq(T)] : Flattens(f, seqs) /\ FlattenSeq(seqs) = f[Len(seqs)]
  BY FlattenDef
<1>. HIDE DEF more
<1>3. PICK g \in [0..Len(more) -> Seq(T)] : Flattens(g, more) /\ FlattenSeq(more) = g[Len(more)]
  BY <1>1, FlattenDef
<1>. DEFINE Good == {i \in Nat : i <= m => g[i] = f[i]}
<1>4. 0 \in Good
  BY <1>2, <1>3 DEF Flattens
<1>5. ASSUME NEW i \in Nat, i \in Good PROVE i + 1 \in Good
  <2>. SUFFICES ASSUME i + 1 <= m PROVE g[i + 1] = f[i + 1]
    OBVIOUS
  <2>1. i + 1 \in 1..m /\ i + 1 \in 1..(m + 1) /\ (i + 1) - 1 = i /\ i <= m
    BY <1>1
  <2>2. f[i + 1] = f[i] \o seqs[i + 1]
    BY <1>2, <2>1 DEF Flattens
  <2>3. g[i + 1] = g[i] \o more[i + 1]
    BY <1>1, <1>3, <2>1 DEF Flattens
  <2>. QED  BY <1>1, <1>5, <2>1, <2>2, <2>3
<1>6. m \in Good
  <2>. HIDE DEF Good, m
  <2>. QED  BY <1>1, <1>4, <1>5, Induction
<1>7. g[m + 1] = g[m] \o e
  <2>1. m + 1 \in 1..(m + 1) /\ (m + 1) - 1 = m
    BY <1>1
  <2>. HIDE DEF m
  <2>. QED  BY <1>1, <1>3, <2>1 DEF Flattens
<1>8. FlattenSeq(<<>>) = <<>>
  BY DEF FlattenSeq
<1>9. FlattenSeq(seqs) = f[m] /\ f[m] \in Seq(T) /\ g[m] = f[m] /\ FlattenSeq(more) = g[m + 1]
  <2>. HIDE DEF m
  <2>1. m \in 0..m
    BY <1>1
  <2>. QED  BY <1>1, <1>2, <1>3, <1>6, <2>1 DEF m
<1>. QED  BY <1>7, <1>8, <1>9 DEF more

\* Sequences of one length make one of a multiple of it.
LEMMA FlattenLen ==
  ASSUME NEW T, NEW seqs \in Seq(Seq(T)), NEW k \in Nat, \A i \in 1..Len(seqs) : Len(seqs[i]) = k
  PROVE  Len(FlattenSeq(seqs)) = Len(seqs) * k
<1> DEFINE m == Len(seqs)
<1>1. m \in Nat /\ \A i \in 1..m : seqs[i] \in Seq(T)
  OBVIOUS
<1>2. PICK f \in [0..Len(seqs) -> Seq(T)] : Flattens(f, seqs) /\ FlattenSeq(seqs) = f[Len(seqs)]
  BY FlattenDef
<1>. DEFINE Good == {i \in Nat : i <= m => Len(f[i]) = i * k}
<1>4. 0 \in Good
  <2>1. Len(<<>>) = 0 /\ 0 * k = 0
    OBVIOUS
  <2>. QED  BY <1>2, <2>1 DEF Flattens
<1>5. ASSUME NEW i \in Nat, i \in Good PROVE i + 1 \in Good
  <2>. SUFFICES ASSUME i + 1 <= m PROVE Len(f[i + 1]) = (i + 1) * k
    OBVIOUS
  <2>1. i + 1 \in 1..m /\ (i + 1) - 1 = i /\ i <= m /\ i \in 0..m
    BY <1>1
  <2>2. f[i + 1] = f[i] \o seqs[i + 1]
    BY <1>2, <2>1 DEF Flattens
  <2>. HIDE DEF m
  <2>3. f[i] \in Seq(T) /\ seqs[i + 1] \in Seq(T) /\ Len(seqs[i + 1]) = k
    BY <1>1, <1>2, <2>1 DEF m
  <2>4. Len(f[i] \o seqs[i + 1]) = Len(f[i]) + k
    BY <2>3, ConcatProperties
  <2>5. (i + 1) * k = i * k + 1 * k /\ 1 * k = k
    BY Products
  <2>. QED  BY <1>5, <2>1, <2>2, <2>4, <2>5
<1>6. m \in Good
  <2>. HIDE DEF Good, m
  <2>. QED  BY <1>1, <1>4, <1>5, Induction
<1>. QED  BY <1>2, <1>6
------------------------------------------------------------------------------
Byte == 0..(Base - 1)
Digests == Bytes(HashSize)

\* The parts of a file, in their order: up to the root hash, with it, with the root
\* signature, and the paths.
Opening(count) ==
  WordBytes(Version) \o WordBytes(HashSize) \o WordBytes(count) \o WordBytes(HashSize)
Hashed(count, hash) == Opening(count) \o hash
Rooted(count, hash, sign) == Hashed(count, hash) \o WordBytes(Len(sign)) \o sign
Paths(ps) == [i \in 1..Len(ps) |-> ProofBytes(ps[i])]
File(count, hash, sign, ps) == Rooted(count, hash, sign) \o FlattenSeq(Paths(ps))

\* The type and length of two sequences joined.
LEMMA Joined ==
  ASSUME NEW S, NEW s \in Seq(S), NEW t \in Seq(S)
  PROVE  s \o t \in Seq(S) /\ Len(s \o t) = Len(s) + Len(t)
OBVIOUS

\* The types and lengths of the parts of a file.
LEMMA DigestType ==
  Digests \subseteq Seq(Byte) /\ \A digest \in Digests : Len(digest) = HashSize
<1>1. HashSize \in Nat /\ Payload \subseteq Byte
  BY WidthAssumption, FileAssumption DEF Byte
<1>. QED  BY <1>1 DEF Digests, Bytes

\* The first four words.
LEMMA OpeningType ==
  ASSUME NEW count \in Nat
  PROVE  Opening(count) \in Seq(Byte) /\ Len(Opening(count)) = 4 * WordSize
<1> DEFINE a == WordBytes(Version)
           b == WordBytes(HashSize)
           c == WordBytes(count)
<1>1. /\ a \in Seq(Byte) /\ b \in Seq(Byte) /\ c \in Seq(Byte)
      /\ Len(a) = WordSize /\ Len(b) = WordSize /\ Len(c) = WordSize
  BY BytesOfWord, WidthAssumption DEF Version, Byte
<1>2. Opening(count) = a \o b \o c \o b
  BY DEF Opening
<1>. HIDE DEF a, b, c
<1>3. a \o b \in Seq(Byte) /\ Len(a \o b) = Len(a) + Len(b)
  BY <1>1, Joined
<1>4. a \o b \o c \in Seq(Byte) /\ Len(a \o b \o c) = Len(a \o b) + Len(c)
  BY <1>1, <1>3, Joined
<1>5. a \o b \o c \o b \in Seq(Byte) /\ Len(a \o b \o c \o b) = Len(a \o b \o c) + Len(b)
  BY <1>1, <1>4, Joined
<1>6. Len(a \o b \o c \o b) = WordSize + WordSize + WordSize + WordSize
  BY <1>1, <1>3, <1>4, <1>5
<1>. QED  BY <1>2, <1>5, <1>6, WidthAssumption

\* Up to the root hash, and with the root signature.
LEMMA RootedType ==
  ASSUME NEW count \in Nat, NEW hash \in Digests, NEW sign \in Seq(Payload)
  PROVE  /\ Hashed(count, hash) \in Seq(Byte)
         /\ Len(Hashed(count, hash)) = 4 * WordSize + HashSize
         /\ Rooted(count, hash, sign) \in Seq(Byte)
         /\ Len(Rooted(count, hash, sign)) = 5 * WordSize + HashSize + Len(sign)
         /\ sign \in Seq(Byte)
<1>0. WordSize \in Nat /\ HashSize \in Nat /\ Payload \subseteq Byte /\ Len(sign) \in Nat
  BY WidthAssumption, FileAssumption DEF Byte
<1>1. Opening(count) \in Seq(Byte) /\ Len(Opening(count)) = 4 * WordSize
  BY OpeningType
<1>2. hash \in Seq(Byte) /\ Len(hash) = HashSize /\ sign \in Seq(Byte)
  BY <1>0, DigestType
<1>3. WordBytes(Len(sign)) \in Seq(Byte) /\ Len(WordBytes(Len(sign))) = WordSize
  BY <1>0, BytesOfWord DEF Byte
<1>4. Hashed(count, hash) \in Seq(Byte) /\ Len(Hashed(count, hash)) = 4 * WordSize + HashSize
  BY <1>1, <1>2, Joined DEF Hashed
<1>5. /\ Hashed(count, hash) \o WordBytes(Len(sign)) \in Seq(Byte)
      /\ Len(Hashed(count, hash) \o WordBytes(Len(sign))) = 4 * WordSize + HashSize + WordSize
  BY <1>3, <1>4, Joined
<1>6. /\ Rooted(count, hash, sign) \in Seq(Byte)
      /\ Len(Rooted(count, hash, sign)) = 4 * WordSize + HashSize + WordSize + Len(sign)
  BY <1>2, <1>5, Joined DEF Rooted
<1>. QED  BY <1>0, <1>2, <1>4, <1>6

\* A path with its length.
LEMMA ProofBytesType ==
  ASSUME NEW p \in Seq(Digests)
  PROVE  /\ FlattenSeq(p) \in Seq(Byte) /\ p \in Seq(Seq(Byte))
         /\ Len(p) * HashSize \in Nat
         /\ ProofBytes(p) \in Seq(Byte) /\ Len(ProofBytes(p)) = WordSize + Len(p) * HashSize
<1>1. Len(p) \in Nat /\ HashSize \in Nat /\ WordSize \in Nat
  BY WidthAssumption
<1>2. p \in Seq(Seq(Byte)) /\ \A i \in 1..Len(p) : Len(p[i]) = HashSize
  BY DigestType
<1>3. FlattenSeq(p) \in Seq(Byte)
  <2>1. <<>> \in Seq(Byte)
    OBVIOUS
  <2>. QED  BY <1>2, <2>1, FlattenMore
<1>4. Len(FlattenSeq(p)) = Len(p) * HashSize
  BY <1>1, <1>2, FlattenLen
<1>5. WordBytes(Len(p)) \in Seq(Byte) /\ Len(WordBytes(Len(p))) = WordSize
  BY <1>1, BytesOfWord DEF Byte
<1>6. ProofBytes(p) \in Seq(Byte) /\ Len(ProofBytes(p)) = WordSize + Len(FlattenSeq(p))
  BY <1>3, <1>5, Joined DEF ProofBytes
<1>. QED  BY <1>1, <1>2, <1>3, <1>4, <1>6, Products

\* The paths one after the other.
LEMMA PathsType ==
  ASSUME NEW ps \in Seq(Seq(Digests)), NEW p \in Seq(Digests)
  PROVE  /\ Paths(ps) \in Seq(Seq(Byte)) /\ Len(Paths(ps)) = Len(ps)
         /\ Paths(Append(ps, p)) = Append(Paths(ps), ProofBytes(p))
<1>1. \A i \in 1..Len(ps) : ps[i] \in Seq(Digests) /\ ProofBytes(ps[i]) \in Seq(Byte)
  BY ProofBytesType
<1>2. Paths(ps) \in Seq(Seq(Byte)) /\ Len(Paths(ps)) = Len(ps)
  BY <1>1 DEF Paths
<1>3. /\ Append(ps, p) \in Seq(Seq(Digests)) /\ Len(Append(ps, p)) = Len(ps) + 1
      /\ \A i \in 1..(Len(ps) + 1) : Append(ps, p)[i] = IF i = Len(ps) + 1 THEN p ELSE ps[i]
  OBVIOUS
<1>4. \A i \in 1..(Len(ps) + 1) :
        Paths(Append(ps, p))[i] = IF i = Len(ps) + 1 THEN ProofBytes(p) ELSE Paths(ps)[i]
  BY <1>3 DEF Paths
<1>5. ProofBytes(p) \in Seq(Byte)
  BY ProofBytesType
<1>. HIDE DEF Paths
<1>6. \A i \in 1..(Len(ps) + 1) :
        Append(Paths(ps), ProofBytes(p))[i] = IF i = Len(ps) + 1 THEN ProofBytes(p) ELSE Paths(ps)[i]
  BY <1>2, <1>5, AppendProperties
<1>7. /\ Paths(Append(ps, p)) \in Seq(Seq(Byte)) /\ Len(Paths(Append(ps, p))) = Len(ps) + 1
      /\ Append(Paths(ps), ProofBytes(p)) \in Seq(Seq(Byte))
      /\ Len(Append(Paths(ps), ProofBytes(p))) = Len(ps) + 1
  <2>1. \A i \in 1..(Len(ps) + 1) : ProofBytes(Append(ps, p)[i]) \in Seq(Byte)
    BY <1>1, <1>3, <1>5
  <2>2. Paths(Append(ps, p)) \in Seq(Seq(Byte)) /\ Len(Paths(Append(ps, p))) = Len(ps) + 1
    BY <1>3, <2>1 DEF Paths
  <2>. QED  BY <1>2, <1>5, <2>2
<1>8. Paths(Append(ps, p)) = Append(Paths(ps), ProofBytes(p))
  BY <1>4, <1>6, <1>7, SeqEqual
<1>. QED  BY <1>2, <1>8

\* The first pass of serialize computes the length of what the second one writes.
LEMMA NeededIs ==
  ASSUME NEW s, s.root_hash \in Digests, s.root_signature \in Seq(Payload),
         s.proofs \in Seq(Seq(Digests))
  PROVE  /\ Encode(s) = File(Len(s.proofs), s.root_hash, s.root_signature, s.proofs)
         /\ Encode(s) \in Seq(Byte) /\ Needed(s) = Len(Encode(s))
<1> DEFINE ps == s.proofs
           m == Len(ps)
           base == 5 * WordSize + HashSize + Len(s.root_signature)
           Sums(g) == g = [i \in 0..m |->
                             IF i = 0 THEN base ELSE g[i - 1] + WordSize + Len(ps[i]) * HashSize]
<1>0. /\ m \in Nat /\ WordSize \in Nat /\ HashSize \in Nat /\ base \in Nat
      /\ Len(s.root_signature) \in Nat
  <2>1. m \in Nat /\ Len(s.root_signature) \in Nat
    OBVIOUS
  <2>2. WordSize \in Nat /\ HashSize \in Nat
    BY WidthAssumption
  <2>3. \A x \in Nat : 5 * WordSize + HashSize + x \in Nat
    BY <2>2
  <2>. QED  BY <2>1, <2>2, <2>3
<1>1. Encode(s) = File(m, s.root_hash, s.root_signature, ps)
  BY DEF Encode, File, Rooted, Hashed, Opening, Paths
<1>2. Paths(ps) \in Seq(Seq(Byte)) /\ Len(Paths(ps)) = m
  <2>1. <<>> \in Seq(Digests)
    OBVIOUS
  <2>. QED  BY <2>1, PathsType
<1>3. PICK f \in [0..m -> Seq(Byte)] : Flattens(f, Paths(ps)) /\ FlattenSeq(Paths(ps)) = f[m]
  BY <1>2, FlattenDef
<1>4. /\ Rooted(m, s.root_hash, s.root_signature) \in Seq(Byte)
      /\ Len(Rooted(m, s.root_hash, s.root_signature)) = base
  BY <1>0, RootedType
<1>5. \A i \in 1..m : /\ f[i - 1] \in Seq(Byte) /\ Len(ps[i]) * HashSize \in Nat
                      /\ Len(f[i]) = Len(f[i - 1]) + (WordSize + Len(ps[i]) * HashSize)
  <2> TAKE i \in 1..m
  <2>0. i - 1 \in 0..m /\ Paths(ps)[i] = ProofBytes(ps[i])
    BY <1>0 DEF Paths
  <2>1. f[i] = f[i - 1] \o ProofBytes(ps[i])
    BY <1>2, <1>3, <2>0 DEF Flattens
  <2>2. ps[i] \in Seq(Digests)
    OBVIOUS
  <2>3. /\ ProofBytes(ps[i]) \in Seq(Byte) /\ Len(ps[i]) * HashSize \in Nat
        /\ Len(ProofBytes(ps[i])) = WordSize + Len(ps[i]) * HashSize
    BY <2>2, ProofBytesType
  <2>4. f[i - 1] \in Seq(Byte)
    BY <1>3, <2>0
  <2>5. Len(f[i - 1] \o ProofBytes(ps[i])) = Len(f[i - 1]) + Len(ProofBytes(ps[i]))
    BY <2>3, <2>4, Joined
  <2>. QED  BY <2>1, <2>3, <2>4, <2>5
<1>. DEFINE size == [i \in 0..m |-> base + Len(f[i])]
<1>6. f[0] = <<>> /\ Len(f[0]) = 0
  BY <1>3 DEF Flattens
<1>7. Sums(size)
  <2>1. ASSUME NEW i \in 0..m
        PROVE  size[i] = IF i = 0 THEN base ELSE size[i - 1] + WordSize + Len(ps[i]) * HashSize
    <3>. HIDE DEF base, ps, m
    <3>1. CASE i = 0
      <4>1. 0 \in 0..m /\ size[0] = base + Len(f[0])
        BY <1>0
      <4>. HIDE DEF size
      <4>. QED  BY <1>0, <1>6, <3>1, <4>1
    <3>2. CASE i # 0
      <4>1. i \in 1..m /\ i - 1 \in 0..m
        BY <1>0, <3>2
      <4>2. size[i] = base + Len(f[i]) /\ size[i - 1] = base + Len(f[i - 1])
        BY <4>1
      <4>3. /\ Len(f[i - 1]) \in Nat /\ Len(ps[i]) * HashSize \in Nat
            /\ Len(f[i]) = Len(f[i - 1]) + (WordSize + Len(ps[i]) * HashSize)
        BY <1>5, <4>1
      <4>4. \A x, y \in Nat : base + (x + (WordSize + y)) = base + x + WordSize + y
        BY <1>0
      <4>. HIDE DEF size
      <4>. QED  BY <3>2, <4>2, <4>3, <4>4
    <3>. QED  BY <3>1, <3>2
  <2>. HIDE DEF base, m, ps
  <2>. QED  BY <2>1
<1>8. PICK g : Sums(g) /\ Needed(s) = g[m]
  <2>. HIDE DEF size
  <2>. QED  BY <1>7 DEF Needed
<1>. DEFINE Good == {i \in Nat : i <= m => g[i] = size[i]}
<1>9. 0 \in Good
  <2>1. 0 \in 0..m
    BY <1>0
  <2>. HIDE DEF size, base, m, ps
  <2>2. g[0] = base /\ size[0] = base
    BY <1>7, <1>8, <2>1
  <2>. QED  BY <2>2
<1>10. ASSUME NEW i \in Nat, i \in Good PROVE i + 1 \in Good
  <2>. SUFFICES ASSUME i + 1 <= m PROVE g[i + 1] = size[i + 1]
    OBVIOUS
  <2>1. i + 1 \in 0..m /\ i + 1 # 0 /\ (i + 1) - 1 = i /\ i <= m
    BY <1>0
  <2>. HIDE DEF size, m, ps, base
  <2>2. g[i + 1] = g[i] + WordSize + Len(ps[i + 1]) * HashSize
    BY <1>8, <2>1
  <2>3. size[i + 1] = size[i] + WordSize + Len(ps[i + 1]) * HashSize
    BY <1>7, <2>1
  <2>4. g[i] = size[i]
    BY <1>10, <2>1
  <2>. QED  BY <2>2, <2>3, <2>4
<1>11. m \in Good
  <2>. HIDE DEF Good, m
  <2>. QED  BY <1>0, <1>9, <1>10, Induction
<1>12. Needed(s) = base + Len(f[m]) /\ f[m] \in Seq(Byte)
  <2>. HIDE DEF m, ps, base
  <2>1. m \in 0..m
    BY <1>0
  <2>. QED  BY <1>3, <1>8, <1>11, <2>1
<1>13. Encode(s) \in Seq(Byte) /\ Len(Encode(s)) = base + Len(f[m])
  <2>. HIDE DEF m, ps, base
  <2>1. Encode(s) = Rooted(m, s.root_hash, s.root_signature) \o f[m]
    BY <1>1, <1>3 DEF File
  <2>. QED  BY <1>4, <1>12, <2>1, Joined
<1>. QED  BY <1>1, <1>12, <1>13
------------------------------------------------------------------------------
\* Writing twice is writing once the one after the other.
LEMMA Regroup ==
  ASSUME NEW a \in Seq(Byte), NEW b \in Seq(Byte), NEW c \in Seq(Byte)
  PROVE  (a \o b) \o c = a \o (b \o c)
BY ConcatAssociative

\* What one more path adds to the file.
OneMore(count, hash, sign, ps, p) ==
  File(count, hash, sign, Append(ps, p))
    = File(count, hash, sign, ps) \o WordBytes(Len(p)) \o FlattenSeq(p)

\* The file without paths, and with one more.
LEMMA FileGrows ==
  ASSUME NEW count \in Nat, NEW hash \in Digests, NEW sign \in Seq(Payload),
         NEW ps \in Seq(Seq(Digests)), NEW p \in Seq(Digests)
  PROVE  /\ File(count, hash, sign, <<>>) = Rooted(count, hash, sign)
         /\ File(count, hash, sign, ps) \in Seq(Byte)
         /\ OneMore(count, hash, sign, ps, p)
<1> DEFINE rooted == Rooted(count, hash, sign)
           flat == FlattenSeq(Paths(ps))
           word == WordBytes(Len(p))
<1>1. rooted \in Seq(Byte)
  BY RootedType
<1>2. Paths(ps) \in Seq(Seq(Byte)) /\ Paths(Append(ps, p)) = Append(Paths(ps), ProofBytes(p))
  BY PathsType
<1>3. FlattenSeq(p) \in Seq(Byte) /\ ProofBytes(p) \in Seq(Byte)
  BY ProofBytesType
<1>4. /\ FlattenSeq(<<>>) = <<>> /\ flat \in Seq(Byte)
      /\ FlattenSeq(Append(Paths(ps), ProofBytes(p))) = flat \o ProofBytes(p)
  BY <1>2, <1>3, FlattenMore
<1>5. word \in Seq(Byte)
  <2>1. Len(p) \in Nat
    OBVIOUS
  <2>. QED  BY <2>1, BytesOfWord DEF Byte
<1>6. ProofBytes(p) = word \o FlattenSeq(p)
  BY DEF ProofBytes
<1>7. Paths(<<>>) = <<>>
  BY DEF Paths
<1>. HIDE DEF rooted, flat, word
<1>8. rooted \o <<>> = rooted
  BY <1>1, ConcatEmptySeq
<1>9. rooted \o flat \in Seq(Byte)
  BY <1>1, <1>4, Joined
<1>10. (rooted \o flat) \o ProofBytes(p) = rooted \o (flat \o ProofBytes(p))
  BY <1>1, <1>3, <1>4, Regroup
<1>11. ((rooted \o flat) \o word) \o FlattenSeq(p) = (rooted \o flat) \o (word \o FlattenSeq(p))
  BY <1>3, <1>5, <1>9, Regroup
<1>12. File(count, hash, sign, <<>>) = rooted \o <<>>
  BY <1>4, <1>7 DEF File, rooted
<1>13. File(count, hash, sign, ps) = rooted \o flat
  BY DEF File, rooted, flat
<1>14. File(count, hash, sign, Append(ps, p)) = rooted \o (flat \o ProofBytes(p))
  BY <1>2, <1>4 DEF File, rooted
<1>15. File(count, hash, sign, Append(ps, p)) = ((rooted \o flat) \o word) \o FlattenSeq(p)
  BY <1>6, <1>10, <1>11, <1>14
<1>16. File(count, hash, sign, ps) \in Seq(Byte)
  BY <1>9, <1>13
<1>17. File(count, hash, sign, <<>>) = rooted
  BY <1>8, <1>12
<1>18. File(count, hash, sign, Append(ps, p)) = (File(count, hash, sign, ps) \o word) \o FlattenSeq(p)
  BY <1>13, <1>15
<1>. QED  BY <1>16, <1>17, <1>18 DEF OneMore, word, rooted

\* The last part of it, of the fields of the decoder.
LEMMA FileWithPath ==
  ASSUME n \in Nat, root_hash \in Digests, root_signature \in Seq(Payload),
         proofs \in Seq(Seq(Digests)), siblings \in Seq(Digests)
  PROVE  File(n, root_hash, root_signature, Append(proofs, siblings))
           = File(n, root_hash, root_signature, proofs) \o WordBytes(Len(siblings))
               \o FlattenSeq(siblings)
<1>1. PICK c \in Nat : c = n
  OBVIOUS
<1>2. PICK h \in Digests, r \in Seq(Payload) : h = root_hash /\ r = root_signature
  OBVIOUS
<1>3. PICK ps \in Seq(Seq(Digests)), p \in Seq(Digests) : ps = proofs /\ p = siblings
  OBVIOUS
<1>4. OneMore(c, h, r, ps, p)
  BY FileGrows
<1>5. OneMore(n, root_hash, root_signature, proofs, siblings)
  BY <1>1, <1>2, <1>3, <1>4, Zenon
<1>. QED  BY <1>5 DEF OneMore

\* A natural number below another one is the index, from zero, of one of so many entries.
LEMMA NextIndex ==
  ASSUME NEW x \in Nat, NEW y \in Nat, x < y
  PROVE  x \in 0..(y - 1) /\ x + 1 \in 1..y
OBVIOUS

\* Two ways to cut a sequence at one place.
LEMMA Splits ==
  ASSUME NEW S, NEW a \in Seq(S), NEW b \in Seq(S), NEW c \in Seq(S), NEW d \in Seq(S),
         Len(a) = Len(c), a \o b = c \o d
  PROVE  a = c /\ b = d
<1>1. a = c
  <2>1. \A i \in 1..Len(a) : (a \o b)[i] = a[i] /\ (c \o d)[i] = c[i]
    BY ConcatProperties
  <2>2. \A i \in 1..Len(a) : a[i] = c[i]
    BY <2>1
  <2>. QED  BY <2>2, SeqEqual
<1>2. b = d
  BY <1>1, ConcatSimplifications
<1>. QED  BY <1>1, <1>2

\* A prefix is what something comes behind.
LEMMA PrefixIsRest ==
  ASSUME NEW S, NEW s \in Seq(S), NEW t \in Seq(S)
  PROVE  IsPrefix(s, t) <=> \E rest \in Seq(S) : t = s \o rest
<1>1. ASSUME IsPrefix(s, t) PROVE \E rest \in Seq(S) : t = s \o rest
  <2>1. Len(s) <= Len(t) /\ SubSeq(s, 1, Len(s)) = SubSeq(t, 1, Len(s))
    BY <1>1 DEF IsPrefix
  <2>2. SubSeq(s, 1, Len(s)) = s /\ SubSeq(t, 1, Len(t)) = t
    BY SubSeqFull
  <2> DEFINE rest == SubSeq(t, Len(s) + 1, Len(t))
  <2>3. rest \in Seq(S)
    <3>1. \A i \in (Len(s) + 1)..Len(t) : t[i] \in S
      OBVIOUS
    <3>2. Len(s) + 1 \in Int /\ Len(t) \in Int
      OBVIOUS
    <3>. QED  BY <3>1, <3>2, SubSeqProperties
  <2>4. SubSeq(t, 1, Len(s)) \o rest = SubSeq(t, 1, Len(t))
    <3>1. 1 \in 1..(Len(t) + 1) /\ Len(s) \in (1 - 1)..Len(t) /\ Len(t) \in Len(s)..Len(t)
      BY <2>1
    <3>. QED  BY <3>1, ConcatAdjacentSubSeq
  <2>. QED  BY <2>1, <2>2, <2>3, <2>4
<1>2. ASSUME NEW rest \in Seq(S), t = s \o rest PROVE IsPrefix(s, t)
  <2>1. /\ Len(t) = Len(s) + Len(rest) /\ Len(s) <= Len(t)
        /\ \A i \in 1..Len(s) : t[i] = s[i]
    <3>1. /\ Len(s \o rest) = Len(s) + Len(rest)
          /\ \A i \in 1..Len(s) : (s \o rest)[i] = s[i]
      BY ConcatProperties
    <3>. QED  BY <1>2, <3>1
  <2>2. SubSeq(s, 1, Len(s)) = SubSeq(t, 1, Len(s))
    <3>1. /\ SubSeq(s, 1, Len(s)) \in Seq(S) /\ Len(SubSeq(s, 1, Len(s))) = Len(s)
          /\ \A i \in 1..Len(s) : SubSeq(s, 1, Len(s))[i] = s[i]
      BY SubSeqFull
    <3>2. /\ SubSeq(t, 1, Len(s)) \in Seq(S) /\ Len(SubSeq(t, 1, Len(s))) = Len(s)
          /\ \A i \in 1..Len(s) : SubSeq(t, 1, Len(s))[i] = t[i]
      BY <2>1
    <3>. QED  BY <2>1, <3>1, <3>2, SeqEqual
  <2>. QED  BY <2>1, <2>2 DEF IsPrefix
<1>. QED  BY <1>1, <1>2

\* The first elements and the next one.
LEMMA FirstOnes ==
  ASSUME NEW S, NEW s \in Seq(S)
  PROVE  /\ SubSeq(s, 1, 0) = <<>> /\ SubSeq(s, 1, Len(s)) = s
         /\ \A k \in 0..Len(s) :
              /\ SubSeq(s, 1, k) \in Seq(S) /\ Len(SubSeq(s, 1, k)) = k
              /\ \A i \in 1..k : SubSeq(s, 1, k)[i] = s[i]
         /\ \A k \in 0..(Len(s) - 1) : SubSeq(s, 1, k + 1) = Append(SubSeq(s, 1, k), s[k + 1])
<1>1. SubSeq(s, 1, 0) = <<>> /\ SubSeq(s, 1, Len(s)) = s
  BY SubSeqFull
<1>2. ASSUME NEW k \in 0..Len(s)
      PROVE  /\ SubSeq(s, 1, k) \in Seq(S) /\ Len(SubSeq(s, 1, k)) = k
             /\ \A i \in 1..k : SubSeq(s, 1, k)[i] = s[i]
  OBVIOUS
<1>3. ASSUME NEW k \in 0..(Len(s) - 1)
      PROVE  SubSeq(s, 1, k + 1) = Append(SubSeq(s, 1, k), s[k + 1])
  <2>1. k \in 0..Len(s) /\ k + 1 \in 0..Len(s) /\ k \in Nat /\ s[k + 1] \in S
    OBVIOUS
  <2> DEFINE a == SubSeq(s, 1, k)
             b == SubSeq(s, 1, k + 1)
  <2>2. a \in Seq(S) /\ Len(a) = k /\ \A i \in 1..k : a[i] = s[i]
    BY <1>2, <2>1
  <2>3. b \in Seq(S) /\ Len(b) = k + 1 /\ \A i \in 1..(k + 1) : b[i] = s[i]
    BY <1>2, <2>1
  <2>. HIDE DEF a, b
  <2>4. /\ Append(a, s[k + 1]) \in Seq(S) /\ Len(Append(a, s[k + 1])) = k + 1
        /\ \A i \in 1..k : Append(a, s[k + 1])[i] = a[i]
        /\ Append(a, s[k + 1])[k + 1] = s[k + 1]
    BY <2>1, <2>2, AppendProperties
  <2>5. \A i \in 1..(k + 1) : b[i] = Append(a, s[k + 1])[i]
    BY <2>1, <2>2, <2>3, <2>4
  <2>6. b = Append(a, s[k + 1])
    BY <2>3, <2>4, <2>5, SeqEqual
  <2>. QED  BY <2>6 DEF a, b
<1>. QED  BY <1>1, <1>2, <1>3

\* Flattening starts with the first sequences, the next one behind them.
LEMMA FlattenStarts ==
  ASSUME NEW T, NEW seqs \in Seq(Seq(T)), NEW k \in Nat, k < Len(seqs)
  PROVE  \E rest \in Seq(T) :
           FlattenSeq(seqs) = (FlattenSeq(SubSeq(seqs, 1, k)) \o seqs[k + 1]) \o rest
<1> DEFINE m == Len(seqs)
           G(i) == FlattenSeq(SubSeq(seqs, 1, i))
<1>0. m \in Nat /\ \A i \in 1..m : seqs[i] \in Seq(T)
  OBVIOUS
<1>1. \A i \in 0..m : G(i) \in Seq(T)
  <2> TAKE i \in 0..m
  <2>1. SubSeq(seqs, 1, i) \in Seq(Seq(T)) /\ <<>> \in Seq(T)
    BY FirstOnes
  <2>. QED  BY <2>1, FlattenMore
<1>2. \A i \in 0..(m - 1) : G(i + 1) = G(i) \o seqs[i + 1]
  <2> TAKE i \in 0..(m - 1)
  <2>1. SubSeq(seqs, 1, i + 1) = Append(SubSeq(seqs, 1, i), seqs[i + 1])
    BY FirstOnes
  <2>2. SubSeq(seqs, 1, i) \in Seq(Seq(T)) /\ seqs[i + 1] \in Seq(T)
    <3>1. i \in 0..m /\ i + 1 \in 1..m
      BY <1>0
    <3>. QED  BY <1>0, <3>1, FirstOnes
  <2>. QED  BY <2>1, <2>2, FlattenMore
<1>3. G(m) = FlattenSeq(seqs)
  BY FirstOnes
<1> DEFINE start == G(k) \o seqs[k + 1]
           Good == {i \in Nat : k + 1 + i <= m => \E rest \in Seq(T) : G(k + 1 + i) = start \o rest}
<1>. HIDE DEF G
<1>4. k \in 0..m /\ k \in 0..(m - 1) /\ k + 1 \in 1..m
  BY <1>0
<1>5. start \in Seq(T) /\ start \o <<>> = start /\ <<>> \in Seq(T)
  <2>1. G(k) \in Seq(T) /\ seqs[k + 1] \in Seq(T) /\ <<>> \in Seq(T)
    BY <1>0, <1>1, <1>4
  <2>2. start \in Seq(T)
    BY <2>1, Joined
  <2>. HIDE DEF start
  <2>. QED  BY <2>1, <2>2, ConcatEmptySeq
<1>6. 0 \in Good
  <2>1. G(k + 1) = start /\ k + 1 + 0 = k + 1
    BY <1>2, <1>4
  <2>. HIDE DEF start, m
  <2>. QED  BY <1>5, <2>1
<1>7. ASSUME NEW i \in Nat, i \in Good PROVE i + 1 \in Good
  <2>. HIDE DEF start, m
  <2>. SUFFICES ASSUME k + 1 + (i + 1) <= m
                PROVE  \E rest \in Seq(T) : G(k + 1 + (i + 1)) = start \o rest
    <3>1. i + 1 \in Nat
      OBVIOUS
    <3>. QED  BY <3>1
  <2>1. /\ k + 1 + i \in 0..(m - 1) /\ k + 1 + i <= m /\ k + 1 + (i + 1) = (k + 1 + i) + 1
        /\ (k + 1 + i) + 1 \in 1..m
    BY <1>0
  <2>2. PICK rest \in Seq(T) : G(k + 1 + i) = start \o rest
    BY <1>7, <2>1
  <2>3. G((k + 1 + i) + 1) = (start \o rest) \o seqs[(k + 1 + i) + 1]
    BY <1>2, <2>1, <2>2
  <2>4. seqs[(k + 1 + i) + 1] \in Seq(T)
    BY <1>0, <2>1
  <2>5. (start \o rest) \o seqs[(k + 1 + i) + 1] = start \o (rest \o seqs[(k + 1 + i) + 1])
    <3>1. PICK e \in Seq(T) : e = seqs[(k + 1 + i) + 1]
      BY <2>4
    <3>2. (start \o rest) \o e = start \o (rest \o e)
      BY <1>5, ConcatAssociative
    <3>. QED  BY <3>1, <3>2
  <2>6. rest \o seqs[(k + 1 + i) + 1] \in Seq(T)
    BY <2>2, <2>4, Joined
  <2>. QED  BY <2>1, <2>3, <2>5, <2>6
<1>8. PICK l \in Good : k + 1 + l = m
  <2>2. k + 1 + (m - (k + 1)) = m
    BY <1>0
  <2>1. m - (k + 1) \in Nat
    BY <1>0
  <2>. HIDE DEF Good, m
  <2>. QED  BY <1>6, <1>7, <2>1, <2>2, Induction
<1>9. \E rest \in Seq(T) : G(m) = start \o rest
  <2>. HIDE DEF start, m
  <2>1. k + 1 + l = m /\ k + 1 + l <= m
    BY <1>0, <1>8
  <2>2. \E rest \in Seq(T) : G(k + 1 + l) = start \o rest
    BY <1>8, <2>1
  <2>. QED  BY <2>1, <2>2
<1>. QED  BY <1>3, <1>9 DEF G

\* Sequences of at least one length make one of at least a multiple of it.
LEMMA FlattenAtLeast ==
  ASSUME NEW T, NEW seqs \in Seq(Seq(T)), NEW k \in Nat, \A i \in 1..Len(seqs) : Len(seqs[i]) >= k
  PROVE  Len(FlattenSeq(seqs)) >= Len(seqs) * k
<1> DEFINE m == Len(seqs)
<1>1. m \in Nat /\ \A i \in 1..m : seqs[i] \in Seq(T)
  OBVIOUS
<1>2. PICK f \in [0..Len(seqs) -> Seq(T)] : Flattens(f, seqs) /\ FlattenSeq(seqs) = f[Len(seqs)]
  BY FlattenDef
<1>. DEFINE Good == {i \in Nat : i <= m => Len(f[i]) >= i * k}
<1>4. 0 \in Good
  <2>1. Len(<<>>) = 0 /\ 0 * k = 0
    OBVIOUS
  <2>. QED  BY <1>2, <2>1 DEF Flattens
<1>5. ASSUME NEW i \in Nat, i \in Good PROVE i + 1 \in Good
  <2>. SUFFICES ASSUME i + 1 <= m PROVE Len(f[i + 1]) >= (i + 1) * k
    OBVIOUS
  <2>1. i + 1 \in 1..m /\ (i + 1) - 1 = i /\ i <= m /\ i \in 0..m
    BY <1>1
  <2>2. f[i + 1] = f[i] \o seqs[i + 1]
    BY <1>2, <2>1 DEF Flattens
  <2>. HIDE DEF m
  <2>3. f[i] \in Seq(T) /\ seqs[i + 1] \in Seq(T) /\ Len(seqs[i + 1]) >= k
    BY <1>1, <1>2, <2>1 DEF m
  <2>4. Len(f[i] \o seqs[i + 1]) = Len(f[i]) + Len(seqs[i + 1])
    BY <2>3, ConcatProperties
  <2>5. (i + 1) * k = i * k + 1 * k /\ 1 * k = k /\ i * k \in Nat
    BY Products
  <2>6. Len(f[i]) \in Nat /\ Len(seqs[i + 1]) \in Nat /\ Len(f[i]) >= i * k
    BY <1>5, <2>1, <2>3
  <2>7. \A x, y, z \in Nat : x >= z /\ y >= k => x + y >= z + k
    OBVIOUS
  <2>. QED  BY <2>2, <2>3, <2>4, <2>5, <2>6, <2>7
<1>6. m \in Good
  <2>. HIDE DEF Good, m
  <2>. QED  BY <1>1, <1>4, <1>5, Induction
<1>. QED  BY <1>2, <1>6

\* Several parts one after the other.  With definitions that the provers need not
\* look into, the ways to bracket them are a matter of logic.
Text == Seq(Byte)
Then(a, b) == a \o b

\* Joining texts gives a text, however it is bracketed.
LEMMA ThenText ==
  /\ \A a, b \in Text : Then(a, b) \in Text
  /\ \A a, b, c \in Text : Then(Then(a, b), c) = Then(a, Then(b, c))
<1>1. ASSUME NEW a \in Text, NEW b \in Text PROVE Then(a, b) \in Text
  BY Joined DEF Text, Then
<1>2. ASSUME NEW a \in Text, NEW b \in Text, NEW c \in Text
      PROVE  Then(Then(a, b), c) = Then(a, Then(b, c))
  BY Regroup DEF Text, Then
<1>. QED  BY <1>1, <1>2

OfLen(k) == {a \in Text : Len(a) = k}

\* Lengths add up, and what is joined to two texts of one length can be told apart.
LEMMA ThenLen ==
  /\ \A j, k \in Nat : \A a \in OfLen(j), b \in OfLen(k) : Then(a, b) \in OfLen(j + k)
  /\ \A j \in Nat : \A a, c \in OfLen(j) : \A b, d \in Text :
       Then(a, b) = Then(c, d) => a = c /\ b = d
<1>1. ASSUME NEW j \in Nat, NEW k \in Nat, NEW a \in OfLen(j), NEW b \in OfLen(k)
      PROVE  Then(a, b) \in OfLen(j + k)
  <2>1. a \in Seq(Byte) /\ b \in Seq(Byte) /\ Len(a) = j /\ Len(b) = k
    BY DEF OfLen, Text
  <2>2. a \o b \in Seq(Byte) /\ Len(a \o b) = j + k
    BY <2>1, Joined
  <2>. QED  BY <2>2 DEF OfLen, Then, Text
<1>2. ASSUME NEW j \in Nat, NEW a \in OfLen(j), NEW c \in OfLen(j), NEW b \in Text, NEW d \in Text,
             Then(a, b) = Then(c, d)
      PROVE  a = c /\ b = d
  <2>1. /\ a \in Seq(Byte) /\ b \in Seq(Byte) /\ c \in Seq(Byte) /\ d \in Seq(Byte)
        /\ Len(a) = Len(c) /\ a \o b = c \o d
    BY <1>2 DEF OfLen, Text, Then
  <2>. QED  BY <2>1, Splits
<1>. QED  BY <1>1, <1>2

\* Four parts of one length.
LEMMA FourParts ==
  \A k \in Nat : \A a, b, c, d \in OfLen(k) :
    Then(Then(Then(a, b), c), d) \in OfLen(((k + k) + k) + k)
<1> TAKE k \in Nat
<1> TAKE a, b, c, d \in OfLen(k)
<1>1. Then(a, b) \in OfLen(k + k)
  BY ThenLen
<1>2. k + k \in Nat /\ (k + k) + k \in Nat
  OBVIOUS
<1>3. Then(Then(a, b), c) \in OfLen((k + k) + k)
  BY <1>1, <1>2, ThenLen
<1>. QED  BY <1>2, <1>3, ThenLen

\* The first three of five parts, and the other two.
LEMMA FiveParts ==
  \A t, u, v, w, x \in Text :
    Then(t, Then(Then(u, Then(v, w)), x)) = Then(Then(Then(t, u), v), Then(w, x))
BY ThenText

\* What the payload is made of are bytes.
LEMMA PayloadBytes == \A bytes \in Seq(Payload) : bytes \in Seq(Byte)
<1>1. Payload \subseteq Byte
  BY WidthAssumption, FileAssumption DEF Byte
<1>. QED  BY <1>1

\* How often a number goes into what is no less than a multiple.
LEMMA Quotient ==
  ASSUME NEW x \in Nat, NEW p \in Nat \ {0}, NEW m \in Nat, m * p <= x
  PROVE  m <= x \div p
<1>1. PICK q \in Nat, r \in 0..(p - 1) : x = q * p + r /\ q = x \div p
  OBVIOUS
<1>2. SUFFICES ASSUME q < m PROVE FALSE
  BY <1>1
<1>3. PICK d \in Nat : m = (q + 1) + d
  <2>1. m - (q + 1) \in Nat /\ m = (q + 1) + (m - (q + 1))
    BY <1>2
  <2>. QED  BY <2>1
<1>4. m * p = (q + 1) * p + d * p /\ (q + 1) * p = q * p + 1 * p /\ d * p \in Nat
      /\ q * p \in Nat /\ 1 * p = p
  <2>1. p \in Nat /\ q + 1 \in Nat
    OBVIOUS
  <2>. QED  BY <1>3, <2>1, Products
<1>. QED  BY <1>1, <1>4

\* The other way round: what is no more than the quotient is a multiple that fits.
LEMMA Multiple ==
  ASSUME NEW x \in Nat, NEW p \in Nat \ {0}, NEW m \in Nat, m <= x \div p
  PROVE  m * p <= x
<1>1. PICK q \in Nat, r \in 0..(p - 1) : x = q * p + r /\ q = x \div p
  OBVIOUS
<1>2. PICK d \in Nat : q = m + d
  <2>1. q - m \in Nat /\ q = m + (q - m)
    BY <1>1
  <2>. QED  BY <2>1
<1>3. q * p = m * p + d * p /\ m * p \in Nat /\ d * p \in Nat
  BY <1>2, Products
<1>4. x = (m * p + d * p) + r
  BY <1>1, <1>3
<1>. QED  BY <1>3, <1>4

\* The parts of a file, and what comes behind them.
Parts(count, hash, sign, ps) ==
  LET file == File(count, hash, sign, ps)
  IN  /\ file \in Seq(Byte)
      /\ Len(file) >= 5 * WordSize + HashSize + Len(sign) + Len(ps) * WordSize
      /\ \E rest \in Seq(Byte) : file = (Opening(count) \o hash) \o rest
      /\ \E rest \in Seq(Byte) :
           file = (Hashed(count, hash) \o WordBytes(Len(sign))) \o (sign \o rest)
      /\ \A k \in 0..(Len(ps) - 1) : \E rest \in Seq(Byte) :
           file = (File(count, hash, sign, SubSeq(ps, 1, k)) \o WordBytes(Len(ps[k + 1])))
                    \o (FlattenSeq(ps[k + 1]) \o rest)

\* Every file is made of its parts.
LEMMA FileParts ==
  ASSUME NEW count \in Nat, NEW hash \in Digests, NEW sign \in Seq(Payload),
         NEW ps \in Seq(Seq(Digests))
  PROVE  Parts(count, hash, sign, ps)
<1> DEFINE file == File(count, hash, sign, ps)
           flat == FlattenSeq(Paths(ps))
           hashed == Hashed(count, hash)
           word == WordBytes(Len(sign))
           rooted == Rooted(count, hash, sign)
<1>1. /\ hashed \in Seq(Byte) /\ rooted \in Seq(Byte) /\ sign \in Seq(Byte)
      /\ Len(rooted) = 5 * WordSize + HashSize + Len(sign)
  BY RootedType
<1>2. Paths(ps) \in Seq(Seq(Byte)) /\ Len(Paths(ps)) = Len(ps) /\ flat \in Seq(Byte)
  <2>1. <<>> \in Seq(Digests) /\ <<>> \in Seq(Byte)
    OBVIOUS
  <2>2. Paths(ps) \in Seq(Seq(Byte)) /\ Len(Paths(ps)) = Len(ps)
    BY <2>1, PathsType
  <2>. QED  BY <2>1, <2>2, FlattenMore
<1>3. word \in Seq(Byte) /\ Opening(count) \in Seq(Byte) /\ hash \in Seq(Byte)
  <2>1. Len(sign) \in Nat
    OBVIOUS
  <2>. QED  BY <2>1, BytesOfWord, OpeningType, DigestType DEF Byte
<1>4. file = rooted \o flat /\ rooted = (hashed \o word) \o sign /\ hashed = Opening(count) \o hash
  BY DEF File, Rooted, Hashed
<1>. HIDE DEF file, flat, hashed, word, rooted
<1>5. file \in Seq(Byte) /\ Len(file) = Len(rooted) + Len(flat) /\ hashed \o word \in Seq(Byte)
  BY <1>1, <1>2, <1>3, <1>4, Joined
<1>6. Len(flat) >= Len(ps) * WordSize
  <2>1. \A i \in 1..Len(ps) : Len(Paths(ps)[i]) >= WordSize
    <3> TAKE i \in 1..Len(ps)
    <3>1. ps[i] \in Seq(Digests) /\ Paths(ps)[i] = ProofBytes(ps[i])
      BY DEF Paths
    <3>2. Len(ps[i]) * HashSize \in Nat /\ Len(ProofBytes(ps[i])) = WordSize + Len(ps[i]) * HashSize
      BY <3>1, ProofBytesType
    <3>. QED  BY <3>1, <3>2, WidthAssumption
  <2>2. WordSize \in Nat
    BY WidthAssumption
  <2>. QED  BY <1>2, <2>1, <2>2, FlattenAtLeast DEF flat
<1>7. Len(file) >= 5 * WordSize + HashSize + Len(sign) + Len(ps) * WordSize
  <2>1. Len(rooted) \in Nat /\ Len(flat) \in Nat /\ Len(ps) * WordSize \in Nat
    <3>1. Len(ps) \in Nat /\ WordSize \in Nat
      BY WidthAssumption
    <3>. QED  BY <1>1, <1>2, <3>1, Products
  <2>. QED  BY <1>1, <1>5, <1>6, <2>1
<1>8. \E rest \in Seq(Byte) : file = (hashed \o word) \o (sign \o rest)
  <2>1. ((hashed \o word) \o sign) \o flat = (hashed \o word) \o (sign \o flat)
    <3>1. hashed \o word \in Seq(Byte) /\ sign \in Seq(Byte) /\ flat \in Seq(Byte)
      BY <1>1, <1>2, <1>5
    <3>. QED  BY <3>1, Regroup
  <2>. QED  BY <1>2, <1>4, <2>1
<1>9. \E rest \in Seq(Byte) : file = hashed \o rest
  <2>1. PICK rest \in Seq(Byte) : file = (hashed \o word) \o (sign \o rest)
    BY <1>8
  <2>2. sign \o rest \in Seq(Byte)
    BY <1>1, Joined
  <2>3. (hashed \o word) \o (sign \o rest) = hashed \o (word \o (sign \o rest))
    <3>1. hashed \in Seq(Byte) /\ word \in Seq(Byte) /\ sign \o rest \in Seq(Byte)
      BY <1>1, <1>3, <2>2
    <3>. QED  BY <3>1, Regroup
  <2>4. word \o (sign \o rest) \in Seq(Byte)
    BY <1>3, <2>2, Joined
  <2>. QED  BY <2>1, <2>3, <2>4
<1>10. ASSUME NEW k \in 0..(Len(ps) - 1)
       PROVE  \E rest \in Seq(Byte) :
                file = (File(count, hash, sign, SubSeq(ps, 1, k)) \o WordBytes(Len(ps[k + 1])))
                         \o (FlattenSeq(ps[k + 1]) \o rest)
  <2> DEFINE first == SubSeq(ps, 1, k)
             p == ps[k + 1]
             start == FlattenSeq(Paths(first))
             w == WordBytes(Len(p))
             digests == FlattenSeq(p)
  <2>1. first \in Seq(Seq(Digests)) /\ p \in Seq(Digests) /\ k \in Nat /\ k < Len(ps)
        /\ k + 1 \in 1..Len(ps)
    <3>1. k \in 0..Len(ps)
      OBVIOUS
    <3>. QED  BY <3>1, FirstOnes
  <2>2. Paths(first) = SubSeq(Paths(ps), 1, k) /\ Paths(ps)[k + 1] = ProofBytes(p)
    <3>1. /\ Len(first) = k /\ \A i \in 1..k : first[i] = ps[i]
      <4>1. k \in 0..Len(ps)
        OBVIOUS
      <4>. QED  BY <4>1, FirstOnes
    <3>2. /\ SubSeq(Paths(ps), 1, k) \in Seq(Seq(Byte)) /\ Len(SubSeq(Paths(ps), 1, k)) = k
          /\ \A i \in 1..k : SubSeq(Paths(ps), 1, k)[i] = Paths(ps)[i]
      <4>1. k \in 0..Len(Paths(ps))
        BY <1>2
      <4>. QED  BY <1>2, <4>1, FirstOnes
    <3>3. Paths(first) \in Seq(Seq(Byte)) /\ Len(Paths(first)) = k
      <4>1. <<>> \in Seq(Digests)
        OBVIOUS
      <4>. HIDE DEF first
      <4>. QED  BY <2>1, <3>1, <4>1, PathsType
    <3>4. \A i \in 1..k : Paths(first)[i] = ProofBytes(ps[i]) /\ Paths(ps)[i] = ProofBytes(ps[i])
      <4>1. \A i \in 1..k : i \in 1..Len(ps)
        OBVIOUS
      <4>. HIDE DEF first
      <4>. QED  BY <3>1, <4>1 DEF Paths
    <3>5. \A i \in 1..k : Paths(first)[i] = SubSeq(Paths(ps), 1, k)[i]
      BY <3>2, <3>4
    <3>6. Paths(first) = SubSeq(Paths(ps), 1, k)
      BY <3>2, <3>3, <3>5, SeqEqual
    <3>7. Paths(ps)[k + 1] = ProofBytes(p)
      BY <2>1 DEF Paths
    <3>. QED  BY <3>6, <3>7
  <2>3. PICK rest \in Seq(Byte) : flat = (start \o ProofBytes(p)) \o rest
    <3>1. k < Len(Paths(ps))
      BY <1>2, <2>1
    <3>2. \E rest \in Seq(Byte) :
            FlattenSeq(Paths(ps)) = (FlattenSeq(SubSeq(Paths(ps), 1, k)) \o Paths(ps)[k + 1]) \o rest
      BY <1>2, <2>1, <3>1, FlattenStarts
    <3>. QED  BY <2>2, <3>2 DEF flat
  <2>4. /\ start \in Seq(Byte) /\ digests \in Seq(Byte) /\ ProofBytes(p) \in Seq(Byte)
        /\ w \in Seq(Byte) /\ ProofBytes(p) = w \o digests
    <3>1. start \in Seq(Byte)
      <4>1. SubSeq(Paths(ps), 1, k) \in Seq(Seq(Byte)) /\ <<>> \in Seq(Byte)
        <5>1. k \in 0..Len(Paths(ps))
          BY <1>2
        <5>. QED  BY <1>2, <5>1, FirstOnes
      <4>. QED  BY <2>2, <4>1, FlattenMore
    <3>2. digests \in Seq(Byte) /\ ProofBytes(p) \in Seq(Byte)
      BY <2>1, ProofBytesType
    <3>3. Len(p) \in Nat
      BY <2>1
    <3>4. w \in Seq(Byte)
      BY <3>3, BytesOfWord DEF Byte
    <3>. QED  BY <3>1, <3>2, <3>4 DEF ProofBytes
  <2>5. File(count, hash, sign, first) = rooted \o start
    BY DEF File, rooted
  <2>. HIDE DEF first, p, start, w, digests
  <2>6. rooted \o ((start \o (w \o digests)) \o rest) = ((rooted \o start) \o w) \o (digests \o rest)
    <3>1. /\ rooted \in Seq(Byte) /\ start \in Seq(Byte) /\ w \in Seq(Byte)
          /\ digests \in Seq(Byte) /\ rest \in Seq(Byte)
      BY <1>1, <2>4
    <3>2. rooted \in Text /\ start \in Text /\ w \in Text /\ digests \in Text /\ rest \in Text
      BY <3>1 DEF Text
    <3>3. Then(rooted, Then(Then(start, Then(w, digests)), rest))
            = Then(Then(Then(rooted, start), w), Then(digests, rest))
      BY <3>2, FiveParts
    <3>. QED  BY <3>3 DEF Then
  <2>7. file = (File(count, hash, sign, first) \o w) \o (digests \o rest)
    BY <1>4, <2>3, <2>4, <2>5, <2>6
  <2>. QED  BY <2>7 DEF first, w, digests, p
<1>. QED  BY <1>4, <1>5, <1>7, <1>8, <1>9, <1>10 DEF Parts, file, hashed, word
------------------------------------------------------------------------------
USE WidthAssumption, FileAssumption

\* What deserialize reads as a word is one of the numbers of the file.
LEMMA WordType ==
  \A word \in Words : /\ word \in Seq(0..(Base - 1)) /\ Len(word) = WordSize
                      /\ WordOf(word) \in Nat /\ WordOf(word) \in Values
                      /\ word = WordBytes(WordOf(word))
<1> SUFFICES ASSUME NEW value \in Values
             PROVE  /\ WordBytes(value) \in Seq(0..(Base - 1))
                    /\ Len(WordBytes(value)) = WordSize
                    /\ value \in Nat
                    /\ WordOf(WordBytes(value)) = value
  BY DEF Words
<1>1. value \in Nat /\ value \in 0..U32Max
  BY FileAssumption, WordRange
<1>. QED  BY <1>1, BytesOfWord, WordInverse

\* What deserialize reads as a digest or a root signature.
LEMMA BytesType ==
  ASSUME NEW len \in Nat, NEW bytes \in Bytes(len)
  PROVE  /\ bytes \in Seq(Payload) /\ bytes \in Seq(0..(Base - 1)) /\ Len(bytes) = len
         /\ bytes = <<>> <=> len = 0
<1>1. bytes \in [1..len -> Payload] /\ bytes \in [1..len -> 0..(Base - 1)]
  BY DEF Bytes
<1>2. QED
  BY <1>1

\* What TypeOK says of the numbers and sequences, without the control state.
LEMMA Reading ==
  ASSUME TypeOK, NEW bytes \in Seq(0..(Base - 1)), NEW next,
         Len(bytes) <= Left, Reads(bytes, next)
  PROVE  /\ data' \in Seq(0..(Base - 1)) /\ Left' = Left - Len(bytes)
         /\ Left' \in Nat /\ pc' = next /\ data_len' \in Nat /\ oom' \in BOOLEAN
<1>1. data \in Seq(0..(Base - 1)) /\ data_len \in Nat /\ oom \in BOOLEAN
  BY DEF TypeOK
<1>2. data' = data \o bytes /\ data_len' = data_len /\ oom' = oom /\ pc' = next
  BY DEF Reads
<1>3. data' \in Seq(0..(Base - 1)) /\ Len(data') = Len(data) + Len(bytes)
  BY <1>1, <1>2
<1>4. Len(data) \in Nat /\ Len(bytes) \in Nat
  BY <1>1
<1>5. QED
  BY <1>1, <1>2, <1>3, <1>4 DEF Left

\* A step that allocates leaves the cursor where it is.
LEMMA ReadingNothing ==
  ASSUME TypeOK, NEW next, Reads(<<>>, next)
  PROVE  /\ data' = data /\ Left' = Left /\ pc' = next /\ data_len' = data_len
         /\ oom' = oom
<1>1. data \in Seq(0..(Base - 1)) /\ data' = data \o <<>>
  BY DEF TypeOK, Reads
<1>2. data' = data
  BY <1>1
<1>3. QED
  BY <1>2 DEF Reads, Left

\* Outside a path nothing is owed.
LEMMA OwedNothing == (Fresh => Owed = 0) /\ (Fresh' => Owed' = 0)
<1>1. (0 - 0) * HashSize = 0 /\ Len(<<>>) = 0
  OBVIOUS
<1>2. QED
  BY <1>1 DEF Fresh, Owed

\* A rejection, for whatever reason, keeps the types.
LEMMA Rejecting ==
  ASSUME TypeOK, NEW S, NEW bytes \in Seq(0..(Base - 1)), Len(bytes) <= Left,
         RejectsRead(S, bytes) \/ RunsOut(S)
  PROVE  TypeOK'
<1>1. data \in Seq(0..(Base - 1)) /\ data_len \in Nat /\ oom \in BOOLEAN /\ Left >= 0
  BY DEF TypeOK
<1>2. /\ pc' = "rejected" /\ data_len' = data_len /\ fault' \in BOOLEAN /\ oom' \in BOOLEAN
      /\ n' = 0 /\ root_signature' = <<>> /\ proofs' = <<>> /\ siblings' = <<>> /\ proof_len' = 0
      /\ data' = data \o bytes \/ data' = data
  BY <1>1 DEF RejectsRead, RunsOut, Rejects, Frees, Clear
<1>3. data' \in Seq(0..(Base - 1)) /\ Left' >= 0
  <2>1. CASE data' = data
    BY <1>1, <1>2, <2>1 DEF Left
  <2>2. CASE data' = data \o bytes
    <3>1. data' \in Seq(0..(Base - 1)) /\ Len(data') = Len(data) + Len(bytes)
      BY <1>1, <2>2
    <3>2. QED
      BY <1>1, <1>2, <3>1 DEF Left
  <2>3. QED
    BY <1>2, <2>1, <2>2
<1>4. Fresh' /\ Owed' = 0
  BY <1>2, OwedNothing DEF Fresh
<1>5. Len(<<>>) = 0
  OBVIOUS
<1>6. QED
  BY <1>2, <1>3, <1>4, <1>5 DEF TypeOK

\* The types hold at first.
LEMMA TypeInit == Init => TypeOK
<1> SUFFICES ASSUME Init PROVE TypeOK
  OBVIOUS
<1>1. Len(<<>>) = 0 /\ 0 \in Nat /\ <<>> \in Seq(0..(Base - 1)) /\ <<>> \in Seq(Payload)
      /\ <<>> \in Seq(Bytes(HashSize)) /\ <<>> \in Seq(Seq(Bytes(HashSize)))
  OBVIOUS
<1>2. Fresh /\ Owed = 0
  BY OwedNothing DEF Init, Fresh
<1>3. Left = 0 - Len(<<>>)
  BY DEF Init, Left
<1>4. Left = 0
  <2>1. \A x \in Nat : x = 0 => 0 - x = 0
    OBVIOUS
  <2>2. QED
    BY <1>1, <1>3, <2>1, Zenon
<1>5. /\ pc = "idle" /\ data_len \in Nat /\ data \in Seq(0..(Base - 1)) /\ Left >= Owed
      /\ Left >= 0 /\ n \in Nat /\ proof_len \in Nat /\ Len(proofs) <= n
      /\ Len(siblings) <= proof_len /\ data = <<>> /\ proofs = <<>> /\ root_signature = <<>>
  BY <1>1, <1>2, <1>4 DEF Init
<1>6. QED
  BY <1>1, <1>2, <1>5 DEF Init, TypeOK

\* The bytes of the header.
LEMMA FourWords ==
  ASSUME NEW w \in [1..4 -> Words]
  PROVE  LET read == w[1] \o w[2] \o w[3] \o w[4]
         IN  read \in Seq(0..(Base - 1)) /\ Len(read) = 4 * WordSize
<1> DEFINE read == w[1] \o w[2] \o w[3] \o w[4]
<1>1. /\ w[1] \in OfLen(WordSize) /\ w[2] \in OfLen(WordSize)
      /\ w[3] \in OfLen(WordSize) /\ w[4] \in OfLen(WordSize)
  BY WordType DEF OfLen, Text, Byte
<1>2. WordSize \in Nat /\ ((WordSize + WordSize) + WordSize) + WordSize = 4 * WordSize
  OBVIOUS
<1>3. Then(Then(Then(w[1], w[2]), w[3]), w[4])
        \in OfLen(((WordSize + WordSize) + WordSize) + WordSize)
  BY <1>1, <1>2, FourParts
<1>4. read = Then(Then(Then(w[1], w[2]), w[3]), w[4])
  BY DEF Then
<1> HIDE DEF read
<1>5. read \in OfLen(4 * WordSize)
  BY <1>2, <1>3, <1>4
<1>6. read \in Seq(0..(Base - 1)) /\ Len(read) = 4 * WordSize
  BY <1>5 DEF OfLen, Text, Byte
<1>. QED  BY <1>6 DEF read

\* Every step keeps the types; one step of the proof for each action.
LEMMA TypeNext == TypeOK /\ [Next]_vars => TypeOK'
<1> SUFFICES ASSUME TypeOK, [Next]_vars PROVE TypeOK'
  OBVIOUS
<1>0. /\ data_len \in Nat /\ data \in Seq(0..(Base - 1)) /\ Left \in Nat
      /\ Len(<<>>) = 0 /\ 0 \in Nat /\ <<>> \in Seq(0..(Base - 1))
      /\ fault \in BOOLEAN /\ oom \in BOOLEAN /\ n \in Nat /\ proof_len \in Nat
      /\ Len(data) \in Nat
  BY DEF TypeOK, Left
<1>1. CASE \E len \in DataLens : Deserialize(len)
  <2>1. PICK len \in DataLens : Deserialize(len)
    BY <1>1
  <2>2. pc = "idle" /\ pc' = "header" /\ data_len' = len /\ data' = data
        /\ UNCHANGED <<sig, fault, oom>> /\ len \in Nat
    BY <2>1 DEF Deserialize
  <2>3. data = <<>> /\ n = 0 /\ proofs = <<>> /\ siblings = <<>> /\ proof_len = 0
        /\ root_signature = <<>>
    BY <2>2 DEF TypeOK, Fresh
  <2>4. QED
    BY <1>0, <2>2, <2>3 DEF TypeOK, Fresh, Owed, Left, sig
<1>2. CASE Header
  <2>1. PICK w \in [1..4 -> Words] :
          LET read == w[1] \o w[2] \o w[3] \o w[4]
          IN  IF HeaderFits(WordOf(w[1]), WordOf(w[2]), WordOf(w[3]), WordOf(w[4]))
              THEN /\ Reads(read, "sig") /\ n' = WordOf(w[3])
                   /\ UNCHANGED <<root_hash, root_signature, proofs, siblings, proof_len,
                                  heap, fault>>
              ELSE RejectsRead({}, read)
    BY <1>2 DEF Header
  <2> DEFINE read == w[1] \o w[2] \o w[3] \o w[4]
  <2>2. /\ w[1] \in Seq(0..(Base - 1)) /\ Len(w[1]) = WordSize
        /\ w[2] \in Seq(0..(Base - 1)) /\ Len(w[2]) = WordSize
        /\ w[3] \in Seq(0..(Base - 1)) /\ Len(w[3]) = WordSize
        /\ w[4] \in Seq(0..(Base - 1)) /\ Len(w[4]) = WordSize
        /\ WordOf(w[3]) \in Nat
    BY WordType
  <2>3. read \in Seq(0..(Base - 1)) /\ Len(read) = 4 * WordSize
    BY FourWords
  <2>4. pc = "header" /\ Len(read) <= Left
    BY <1>2, <2>3 DEF Header
  <2>5. data = <<>> /\ proofs = <<>> /\ siblings = <<>> /\ proof_len = 0
        /\ root_signature = <<>>
    BY <2>4 DEF TypeOK, Fresh
  <2> HIDE DEF read
  <2>6. CASE HeaderFits(WordOf(w[1]), WordOf(w[2]), WordOf(w[3]), WordOf(w[4]))
    <3>1. Reads(read, "sig") /\ n' = WordOf(w[3])
          /\ UNCHANGED <<root_hash, root_signature, proofs, siblings, proof_len, heap, fault>>
      BY <2>1, <2>6 DEF read
    <3>2. /\ data' \in Seq(0..(Base - 1)) /\ Left' = Left - Len(read) /\ Left' \in Nat
          /\ pc' = "sig" /\ data_len' \in Nat /\ oom' \in BOOLEAN
      BY <2>3, <2>4, <3>1, Reading
    <3>3. data_len - 4 * WordSize >= HashSize
      BY <2>6 DEF HeaderFits
    <3>4. Left' >= HashSize
      BY <1>0, <2>3, <2>5, <3>2, <3>3 DEF Left
    <3>5. Fresh' /\ Owed' = 0
      BY <2>5, <3>1, OwedNothing DEF Fresh
    <3>6. QED
      BY <1>0, <2>2, <2>5, <3>1, <3>2, <3>4, <3>5 DEF TypeOK, Fresh
  <2>7. CASE ~HeaderFits(WordOf(w[1]), WordOf(w[2]), WordOf(w[3]), WordOf(w[4]))
    <3>1. RejectsRead({}, read)
      BY <2>1, <2>7 DEF read
    <3>2. QED
      BY <2>3, <2>4, <3>1, Rejecting
  <2>8. QED
    BY <2>6, <2>7
<1>3. CASE \/ HeaderShort \/ AllocateSigFails \/ RootHashFails \/ RootSigFails
           \/ ArraysTooLarge \/ AllocateArraysFails \/ AllocateProofFails
           \/ TakeSiblingFails \/ Trailing
  <2>1. \E S : RejectsRead(S, <<>>) \/ RunsOut(S)
    BY <1>3 DEF HeaderShort, AllocateSigFails, RootHashFails, RootSigFails, ArraysTooLarge,
                AllocateArraysFails, AllocateProofFails, TakeSiblingFails, Trailing
  <2>2. PICK S : RejectsRead(S, <<>>) \/ RunsOut(S)
    BY <2>1
  <2>3. Len(<<>>) <= Left
    BY <1>0
  <2>4. QED
    BY <1>0, <2>2, <2>3, Rejecting
<1>4. CASE RootSigShort \/ ProofShort
  <2>1. \E S : \/ RejectsRead(S, <<>>)
               \/ Left >= WordSize /\ \E word \in Words : RejectsRead(S, word)
    BY <1>4 DEF RootSigShort, ProofShort
  <2>2. PICK S : \/ RejectsRead(S, <<>>)
                 \/ Left >= WordSize /\ \E word \in Words : RejectsRead(S, word)
    BY <2>1
  <2>3. CASE RejectsRead(S, <<>>)
    <3>1. Len(<<>>) <= Left
      BY <1>0
    <3>2. QED
      BY <1>0, <2>3, <3>1, Rejecting
  <2>4. CASE Left >= WordSize /\ \E word \in Words : RejectsRead(S, word)
    <3>1. PICK word \in Words : RejectsRead(S, word)
      BY <2>4
    <3>2. word \in Seq(0..(Base - 1)) /\ Len(word) <= Left
      BY <1>0, <2>4, WordType
    <3>3. QED
      BY <3>1, <3>2, Rejecting
  <2>5. QED
    BY <2>2, <2>3, <2>4
<1>5. CASE AllocateSig
  <2>1. pc = "sig" /\ Reads(<<>>, "root_hash") /\ UNCHANGED <<sig, fault>>
    BY <1>5 DEF AllocateSig, Allocates
  <2>2. data' = data /\ Left' = Left /\ pc' = "root_hash" /\ UNCHANGED <<data_len, oom>>
    BY <2>1, ReadingNothing
  <2>3. QED
    BY <1>0, <2>1, <2>2 DEF TypeOK, Fresh, Owed, sig
<1>6. CASE RootHash
  <2>1. PICK bytes \in Bytes(HashSize) : Reads(bytes, "root_sig")
    BY <1>6 DEF RootHash
  <2>2. pc = "root_hash" /\ UNCHANGED <<n, root_signature, proofs, siblings, proof_len, fault>>
    BY <1>6 DEF RootHash, Allocates
  <2>3. bytes \in Seq(0..(Base - 1)) /\ Len(bytes) = HashSize /\ HashSize <= Left
    BY <2>2, BytesType DEF TypeOK
  <2>4. /\ data' \in Seq(0..(Base - 1)) /\ Left' = Left - HashSize /\ Left' \in Nat
        /\ pc' = "root_sig" /\ data_len' \in Nat /\ oom' \in BOOLEAN
    BY <2>1, <2>3, Reading
  <2>5. Fresh' /\ Owed' = 0
    BY <2>2, OwedNothing DEF TypeOK, Fresh
  <2>6. QED
    BY <1>0, <2>2, <2>4, <2>5 DEF TypeOK, Fresh
<1>7. CASE RootSig
  <2>1. PICK word \in Words :
          /\ RootSigFits(word)
          /\ \E bytes \in Bytes(WordOf(word)) :
               Reads(word \o bytes, "arrays") /\ root_signature' = bytes
    BY <1>7 DEF RootSig
  <2>2. PICK bytes \in Bytes(WordOf(word)) :
          Reads(word \o bytes, "arrays") /\ root_signature' = bytes
    BY <2>1
  <2>3. pc = "root_sig" /\ UNCHANGED <<n, proofs, siblings, proof_len, fault>>
    BY <1>7 DEF RootSig, Allocates
  <2>4. /\ word \in Seq(0..(Base - 1)) /\ Len(word) = WordSize /\ WordOf(word) \in Nat
        /\ bytes \in Seq(0..(Base - 1)) /\ bytes \in Seq(Payload) /\ Len(bytes) = WordOf(word)
    BY WordType, BytesType
  <2>5. word \o bytes \in Seq(0..(Base - 1)) /\ Len(word \o bytes) = WordSize + WordOf(word)
    BY <2>4
  <2>6. /\ data' \in Seq(0..(Base - 1)) /\ Left' \in Nat
        /\ pc' = "arrays" /\ data_len' \in Nat /\ oom' \in BOOLEAN
    BY <2>1, <2>2, <2>5, Reading DEF RootSigFits
  <2>7. Fresh' /\ Owed' = 0
    BY <2>3, OwedNothing DEF TypeOK, Fresh
  <2>8. QED
    BY <1>0, <2>2, <2>3, <2>4, <2>6, <2>7 DEF TypeOK, Fresh
<1>8. CASE AllocateArrays \/ ArraysDone \/ Accept
  <2>1. PICK next \in {"arrays_done", "proof_len", "decoded"} :
          /\ Reads(<<>>, next) /\ UNCHANGED <<sig, fault>>
          /\ pc \in {"arrays", "arrays_done", "proof_len"}
          /\ next = "arrays_done" => pc = "arrays"
    BY <1>8 DEF AllocateArrays, ArraysDone, Accept, Allocates
  <2>2. data' = data /\ Left' = Left /\ pc' = next /\ UNCHANGED <<data_len, oom>>
    BY <2>1, ReadingNothing
  <2>3. QED
    BY <1>0, <2>1, <2>2 DEF TypeOK, Fresh, Owed, sig
<1>9. CASE AllocateProof
  <2>1. PICK word \in Words : PathFits(word) /\ Reads(word, "sibling") /\ proof_len' = WordOf(word)
    BY <1>9 DEF AllocateProof
  <2>2. pc = "proof_len" /\ Len(proofs) < n
        /\ UNCHANGED <<n, root_signature, proofs, siblings, fault>>
    BY <1>9 DEF AllocateProof, Allocates
  <2>3. word \in Seq(0..(Base - 1)) /\ Len(word) = WordSize /\ WordOf(word) \in Nat
    BY WordType
  <2> DEFINE L == WordOf(word)
  <2>4. L * HashSize \in Nat /\ Left >= WordSize + L * HashSize
    <3>1. \A a, b \in Nat : a * b \in Nat
      OBVIOUS
    <3>2. QED
      BY <2>1, <2>3, <3>1 DEF PathFits
  <2>5. /\ data' \in Seq(0..(Base - 1)) /\ Left' = Left - WordSize /\ Left' \in Nat
        /\ pc' = "sibling" /\ data_len' \in Nat /\ oom' \in BOOLEAN
    <3>1. Len(word) <= Left
      <4>1. \A p \in Nat : Left >= WordSize + p => WordSize <= Left
        BY <1>0
      <4>2. QED
        BY <2>3, <2>4, <4>1
    <3>2. QED
      BY <2>1, <2>3, <3>1, Reading
  <2>6. siblings' = <<>> /\ Len(siblings') = 0 /\ Left' >= Owed'
    <3>1. siblings' = <<>> /\ Len(siblings') = 0
      BY <1>0, <2>2 DEF TypeOK, Fresh
    <3>2. proof_len' - Len(siblings') = L
      BY <2>1, <2>3, <3>1
    <3>3. Owed' = L * HashSize
      BY <3>2 DEF Owed
    <3>4. \A p \in Nat : Left >= WordSize + p => Left - WordSize >= p
      BY <1>0
    <3>5. QED
      BY <2>4, <2>5, <3>1, <3>3, <3>4
  <2>7. QED
    BY <1>0, <2>1, <2>2, <2>3, <2>5, <2>6 DEF TypeOK, Fresh
<1>10. CASE TakeSibling
  <2>1. PICK bytes \in Bytes(HashSize) :
          Reads(bytes, "sibling") /\ siblings' = Append(siblings, bytes)
    BY <1>10 DEF TakeSibling
  <2>2. pc = "sibling" /\ Len(siblings) < proof_len
        /\ UNCHANGED <<n, root_signature, proofs, proof_len, fault>>
    BY <1>10 DEF TakeSibling, Allocates
  <2>3. bytes \in Seq(0..(Base - 1)) /\ Len(bytes) = HashSize
    BY BytesType
  <2>4. siblings \in Seq(Bytes(HashSize)) /\ Len(siblings) \in Nat
        /\ Left >= (proof_len - Len(siblings)) * HashSize
    BY DEF TypeOK, Owed
  <2>5. siblings' \in Seq(Bytes(HashSize)) /\ Len(siblings') = Len(siblings) + 1
    BY <2>1, <2>4
  <2>6. HashSize <= Left /\ Left - HashSize >= (proof_len - (Len(siblings) + 1)) * HashSize
    <3>1. \A a, b \in Nat, h \in Nat \ {0} :
            b < a => (a - b) * h >= h /\ (a - b) * h - h = (a - (b + 1)) * h
      <4> TAKE a, b \in Nat, h \in Nat \ {0}
      <4> HAVE b < a
      <4>1. PICK d \in Nat : a - b = d + 1
        BY SMT
      <4>2. a - (b + 1) = d
        BY <4>1
      <4>3. (d + 1) * h = d * h + h /\ d * h \in Nat
        OBVIOUS
      <4>4. QED
        BY <4>1, <4>2, <4>3
    <3>2. PICK d \in Int : d = (proof_len - Len(siblings)) * HashSize
      BY <1>0, <2>4
    <3>3. PICK e \in Int : e = (proof_len - (Len(siblings) + 1)) * HashSize
      BY <1>0, <2>4
    <3>4. d >= HashSize /\ d - HashSize = e
      <4>1. proof_len \in Nat /\ Len(siblings) \in Nat /\ Len(siblings) < proof_len
        BY <1>0, <2>2, <2>4
      <4>2. /\ (proof_len - Len(siblings)) * HashSize >= HashSize
            /\ (proof_len - Len(siblings)) * HashSize - HashSize
                 = (proof_len - (Len(siblings) + 1)) * HashSize
        BY <3>1, <4>1, Zenon
      <4>3. QED
        BY <3>2, <3>3, <4>2
    <3>5. Left >= d
      BY <2>4, <3>2
    <3>6. HashSize <= Left /\ Left - HashSize >= e
      BY <1>0, <3>4, <3>5
    <3>7. QED
      BY <3>3, <3>6
  <2>7. /\ data' \in Seq(0..(Base - 1)) /\ Left' = Left - HashSize /\ Left' \in Nat
        /\ pc' = "sibling" /\ data_len' \in Nat /\ oom' \in BOOLEAN
    BY <2>1, <2>3, <2>6, Reading
  <2>8. Left' >= Owed' /\ Len(siblings') <= proof_len'
    <3>1. Owed' = (proof_len - (Len(siblings) + 1)) * HashSize
      BY <2>2, <2>5 DEF Owed
    <3>2. Left' >= Owed'
      BY <2>6, <2>7, <3>1
    <3>3. QED
      BY <1>0, <2>2, <2>4, <2>5, <3>2
  <2>9. QED
    BY <2>2, <2>5, <2>7, <2>8 DEF TypeOK, Fresh
<1>11. CASE ProofDone
  <2>1. /\ pc = "sibling" /\ Len(siblings) = proof_len /\ Reads(<<>>, "proof_len")
        /\ proofs' = Append(proofs, siblings) /\ siblings' = <<>> /\ proof_len' = 0
        /\ UNCHANGED <<n, root_signature, fault>>
    BY <1>11 DEF ProofDone
  <2>2. data' = data /\ Left' = Left /\ pc' = "proof_len" /\ UNCHANGED <<data_len, oom>>
    BY <2>1, ReadingNothing
  <2>3. proofs' \in Seq(Seq(Bytes(HashSize))) /\ Len(proofs') = Len(proofs) + 1
        /\ Len(proofs) < n /\ Len(proofs) \in Nat
    BY <2>1 DEF TypeOK
  <2>4. Fresh' /\ Owed' = 0 /\ Len(siblings') = 0
    BY <1>0, <2>1, OwedNothing DEF Fresh
  <2>5. QED
    BY <1>0, <2>1, <2>2, <2>3, <2>4 DEF TypeOK
<1>12. CASE \E room \in {NoRoom, data_len - 1, data_len} : Serialize(room)
  <2>1. UNCHANGED <<pc, data_len, data, sig, fault, oom>>
    BY <1>12 DEF Serialize
  <2>2. QED
    BY <2>1 DEF TypeOK, Fresh, Owed, Left, sig
<1>13. CASE Free \/ Again
  <2>1. /\ pc' = "idle" /\ data_len' = 0 /\ data' = <<>> /\ oom' = FALSE /\ fault' \in BOOLEAN
        /\ n' = 0 /\ root_signature' = <<>> /\ proofs' = <<>> /\ siblings' = <<>> /\ proof_len' = 0
    <3>1. CASE Free
      BY <1>0, <3>1 DEF Free, Forget, Clear, Frees
    <3>2. CASE Again
      <4>1. pc = "rejected" /\ Forget /\ UNCHANGED <<sig, fault>>
        BY <3>2 DEF Again
      <4>2. n = 0 /\ root_signature = <<>> /\ proofs = <<>> /\ siblings = <<>> /\ proof_len = 0
        BY <4>1 DEF TypeOK, Fresh
      <4>3. QED
        BY <1>0, <4>1, <4>2 DEF Forget, sig
    <3>3. QED
      BY <1>13, <3>1, <3>2
  <2>2. Fresh' /\ Owed' = 0
    BY <2>1, OwedNothing DEF Fresh
  <2>3. Left' = 0 - Len(<<>>)
    BY <2>1 DEF Left
  <2>4. Left' = 0
    <3>1. \A x \in Nat : x = 0 => 0 - x = 0
      OBVIOUS
    <3>2. QED
      BY <1>0, <2>3, <3>1, Zenon
  <2>5. Len(proofs') <= n' /\ Len(siblings') <= proof_len' /\ Left' >= Owed'
    BY <1>0, <2>1, <2>2, <2>4
  <2>6. data_len' \in Nat /\ data' \in Seq(0..(Base - 1)) /\ oom' \in BOOLEAN
    BY <1>0, <2>1
  <2>7. Left' >= 0
    BY <2>4
  <2>8. /\ <<>> \in Seq(Payload) /\ <<>> \in Seq(Bytes(HashSize))
        /\ <<>> \in Seq(Seq(Bytes(HashSize)))
    OBVIOUS
  <2>9. QED
    BY <1>0, <2>1, <2>2, <2>5, <2>6, <2>7, <2>8 DEF TypeOK
<1>14. CASE UNCHANGED vars
  BY <1>14 DEF vars, sig, TypeOK, Fresh, Owed, Left
<1>15. QED
  BY <1>1, <1>2, <1>3, <1>4, <1>5, <1>6, <1>7, <1>8, <1>9, <1>10, <1>11, <1>12, <1>13, <1>14
     DEF Next

\* The cursor of deserialize never passes the end of the file, for files of any
\* length and whatever lengths they claim.
THEOREM TypeCorrect == Spec => []TypeOK
BY TypeInit, TypeNext, PTL DEF Spec
------------------------------------------------------------------------------
\* The blocks of the path being read.
Partial == IF proof_len = 0 THEN {} ELSE {<<"proof", Len(proofs)>>} \cup Taken

\* The blocks that live at each step of deserialize, and no fault so far.
HeapInv ==
  /\ pc \in {"idle", "header", "sig", "rejected"} => heap = {}
  /\ pc = "root_hash" => heap = {<<"sig">>}
  /\ pc \in {"root_sig", "arrays"} => heap = Struct
  /\ pc = "arrays_done" =>
       heap = Struct \cup (Arrays \cap heap) /\ (n = 0 => Arrays \cap heap = {})
  /\ pc \in {"proof_len", "decoded"} => heap = Built
  /\ pc = "sibling" => heap = Built \cup Partial
  /\ ~fault

\* A failure path that frees what lives leaves nothing.
LEMMA RejectingAll ==
  ASSUME HeapInv, NEW bytes, RejectsRead(heap, bytes) \/ RunsOut(heap)
  PROVE  HeapInv'
<1>1. /\ pc' = "rejected" /\ heap' = heap \ heap /\ fault' = (fault \/ ~(heap \subseteq heap))
  BY DEF RejectsRead, RunsOut, Rejects, Frees
<1>2. heap' = {} /\ ~fault'
  BY <1>1 DEF HeapInv
<1>3. QED
  BY <1>1, <1>2 DEF HeapInv

\* What Built holds before the first path and after one more.
LEMMA BuiltNone ==
  ASSUME proofs = <<>>
  PROVE  Built = Struct \cup (IF n = 0 THEN {} ELSE Arrays)
<1>1. UNION {PathBlocks(i - 1, Len(proofs[i])) : i \in DOMAIN proofs} = {}
  OBVIOUS
<1>2. QED
  BY <1>1 DEF Built

\* The path that is done is one more that batch_signature_free frees.
LEMMA BuiltMore ==
  ASSUME TypeOK, proofs' = Append(proofs, siblings), UNCHANGED <<n, root_signature>>
  PROVE  Built' = Built \cup PathBlocks(Len(proofs), Len(siblings))
<1> DEFINE m == Len(proofs)
           paths == UNION {PathBlocks(i - 1, Len(proofs[i])) : i \in 1..m}
           paths2 == UNION {PathBlocks(i - 1, Len(proofs'[i])) : i \in 1..(m + 1)}
<1>1. m \in Nat /\ proofs \in Seq(Seq(Bytes(HashSize))) /\ siblings \in Seq(Bytes(HashSize))
  BY DEF TypeOK
<1>2. /\ DOMAIN proofs = 1..m /\ DOMAIN proofs' = 1..(m + 1)
      /\ \A i \in 1..m : proofs'[i] = proofs[i]
      /\ proofs'[m + 1] = siblings
  BY <1>1
<1>3. 1..(m + 1) = (1..m) \cup {m + 1} /\ (m + 1) - 1 = m
  BY <1>1
<1> HIDE DEF m
<1>4. paths2 = paths \cup PathBlocks(m, Len(siblings))
  <2>1. \A i \in 1..m : PathBlocks(i - 1, Len(proofs'[i])) = PathBlocks(i - 1, Len(proofs[i]))
    BY <1>2
  <2>2. PathBlocks((m + 1) - 1, Len(proofs'[m + 1])) = PathBlocks(m, Len(siblings))
    BY <1>2, <1>3
  <2>3. QED
    BY <1>3, <2>1, <2>2
<1>5. Struct' = Struct
  BY DEF Struct, RootSigBlocks
<1>6. Built = Struct \cup (IF n = 0 THEN {} ELSE Arrays) \cup paths
  BY <1>2 DEF Built
<1>7. Built' = Struct \cup (IF n = 0 THEN {} ELSE Arrays) \cup paths2
  BY <1>2, <1>5 DEF Built, Arrays
<1>8. QED
  BY <1>4, <1>6, <1>7 DEF m

\* Every step keeps what is said of the heap.
LEMMA HeapNext == TypeOK /\ HeapInv /\ [Next]_vars => HeapInv'
<1> SUFFICES ASSUME TypeOK, HeapInv, [Next]_vars PROVE HeapInv'
  OBVIOUS
<1>1. CASE \E len \in DataLens : Deserialize(len)
  BY <1>1 DEF Deserialize, HeapInv
<1>2. CASE Header
  <2>1. pc = "header" /\ heap = {}
    BY <1>2 DEF Header, HeapInv
  <2>2. (pc' = "sig" /\ UNCHANGED <<heap, fault>>) \/ \E read : RejectsRead({}, read)
    BY <1>2 DEF Header, Reads
  <2>3. CASE pc' = "sig" /\ UNCHANGED <<heap, fault>>
    BY <2>1, <2>3 DEF HeapInv
  <2>4. CASE \E read : RejectsRead({}, read)
    BY <2>1, <2>4, RejectingAll
  <2>5. QED
    BY <2>2, <2>3, <2>4
<1>3. CASE \/ HeaderShort \/ AllocateSigFails \/ RootHashFails \/ RootSigShort
           \/ RootSigFails \/ ArraysTooLarge
  <2>1. \/ /\ HeaderShort \/ AllocateSigFails
           /\ RejectsRead({}, <<>>) \/ RunsOut({})
           /\ pc \in {"header", "sig"}
        \/ RootHashFails /\ RunsOut({<<"sig">>}) /\ pc = "root_hash"
        \/ (\E read : RejectsRead(Struct, read) \/ RunsOut(Struct)) /\ pc \in {"root_sig", "arrays"}
    BY <1>3 DEF HeaderShort, AllocateSigFails, RootHashFails, RootSigShort, RootSigFails,
                ArraysTooLarge
  <2>2. \E bytes : RejectsRead(heap, bytes) \/ RunsOut(heap)
    BY <2>1 DEF HeapInv
  <2>3. QED
    BY <2>2, RejectingAll
<1>4. CASE AllocateArraysFails
  <2>1. pc = "arrays_done" /\ RunsOut(Struct \cup (Arrays \cap heap))
    BY <1>4 DEF AllocateArraysFails
  <2>2. RunsOut(heap)
    BY <2>1 DEF HeapInv
  <2>3. QED
    BY <2>2, RejectingAll
<1>5. CASE ProofShort \/ AllocateProofFails \/ Trailing
  <2>1. pc = "proof_len" /\ \E read : RejectsRead(Built, read) \/ RunsOut(Built)
    BY <1>5 DEF ProofShort, AllocateProofFails, Trailing
  <2>2. \E read : RejectsRead(heap, read) \/ RunsOut(heap)
    BY <2>1 DEF HeapInv
  <2>3. QED
    BY <2>2, RejectingAll
<1>6. CASE TakeSiblingFails
  <2>1. /\ pc = "sibling" /\ Len(siblings) < proof_len
        /\ RunsOut(Built \cup {<<"proof", Len(proofs)>>} \cup Taken)
    BY <1>6 DEF TakeSiblingFails
  <2>2. proof_len # 0
    BY <2>1 DEF TypeOK
  <2>3. heap = Built \cup {<<"proof", Len(proofs)>>} \cup Taken
    BY <2>1, <2>2 DEF HeapInv, Partial
  <2>4. RunsOut(heap)
    BY <2>1, <2>3
  <2>5. QED
    BY <2>4, RejectingAll
<1>7. CASE AllocateSig
  <2>1. pc = "sig" /\ pc' = "root_hash" /\ heap' = heap \cup {<<"sig">>} /\ fault' = fault
    BY <1>7 DEF AllocateSig, Reads, Allocates
  <2>2. QED
    BY <2>1 DEF HeapInv
<1>8. CASE RootHash
  <2>1. /\ pc = "root_hash" /\ pc' = "root_sig" /\ heap' = heap \cup {<<"root_hash">>}
        /\ fault' = fault /\ root_signature' = root_signature
    BY <1>8 DEF RootHash, Reads, Allocates
  <2>2. root_signature = <<>> /\ Struct' = {<<"sig">>, <<"root_hash">>}
    BY <2>1 DEF TypeOK, Struct, RootSigBlocks
  <2>3. QED
    BY <2>1, <2>2 DEF HeapInv
<1>9. CASE RootSig
  <2>1. PICK word \in Words :
          /\ \E bytes \in Bytes(WordOf(word)) : pc' = "arrays" /\ root_signature' = bytes
          /\ Allocates(IF WordOf(word) = 0 THEN {} ELSE {<<"root_signature">>})
    BY <1>9 DEF RootSig, Reads
  <2>2. pc = "root_sig" /\ pc' = "arrays" /\ root_signature = <<>>
    BY <1>9, <2>1 DEF RootSig, TypeOK
  <2>3. root_signature' = <<>> <=> WordOf(word) = 0
    BY <2>1, WordType, BytesType
  <2>4. heap = {<<"sig">>, <<"root_hash">>}
    BY <2>2 DEF HeapInv, Struct, RootSigBlocks
  <2>5. heap' = Struct' /\ fault' = fault
    BY <2>1, <2>3, <2>4 DEF Allocates, Struct, RootSigBlocks
  <2>6. QED
    BY <2>2, <2>5 DEF HeapInv
<1>10. CASE AllocateArrays
  <2>1. PICK got \in SUBSET Arrays : (n = 0 => got = {}) /\ Allocates(got)
    BY <1>10 DEF AllocateArrays
  <2>2. pc = "arrays" /\ pc' = "arrays_done" /\ UNCHANGED <<n, root_signature>>
    BY <1>10 DEF AllocateArrays, Reads, sig
  <2>3. heap = Struct /\ heap' = Struct \cup got /\ fault' = fault /\ Struct' = Struct
    BY <2>1, <2>2 DEF HeapInv, Allocates, Struct, RootSigBlocks
  <2>4. Arrays \cap Struct = {}
    BY DEF Arrays, Struct, RootSigBlocks
  <2>5. Arrays \cap heap' = got /\ Arrays' = Arrays
    BY <2>3, <2>4 DEF Arrays
  <2>6. QED
    BY <2>1, <2>2, <2>3, <2>5 DEF HeapInv
<1>11. CASE ArraysDone
  <2>1. /\ pc = "arrays_done" /\ pc' = "proof_len" /\ (n > 0 => Arrays \subseteq heap)
        /\ UNCHANGED <<sig, heap, fault>>
    BY <1>11 DEF ArraysDone, Reads
  <2>2. proofs = <<>> /\ n \in Nat
    BY <2>1 DEF TypeOK
  <2>3. heap = Built
    <3>1. /\ heap = Struct \cup (Arrays \cap heap)
          /\ n = 0 => Arrays \cap heap = {}
          /\ n # 0 => Arrays \cap heap = Arrays
      BY <2>1, <2>2 DEF HeapInv
    <3>2. Built = Struct \cup (IF n = 0 THEN {} ELSE Arrays)
      BY <2>2, BuiltNone
    <3>3. Arrays \cap heap = IF n = 0 THEN {} ELSE Arrays
      BY <3>1
    <3>4. QED
      BY <3>1, <3>2, <3>3, Zenon
  <2>4. Built' = Built
    BY <2>1 DEF sig, Built, Struct, RootSigBlocks, Arrays
  <2>5. QED
    BY <2>1, <2>3, <2>4 DEF HeapInv
<1>12. CASE AllocateProof
  <2>1. PICK word \in Words :
          /\ proof_len' = WordOf(word)
          /\ Allocates(IF WordOf(word) = 0 THEN {} ELSE {<<"proof", Len(proofs)>>})
    BY <1>12 DEF AllocateProof
  <2>2. /\ pc = "proof_len" /\ pc' = "sibling"
        /\ UNCHANGED <<n, root_hash, root_signature, proofs, siblings>>
    BY <1>12 DEF AllocateProof, Reads
  <2>3. siblings' = <<>> /\ heap = Built /\ Built' = Built
    BY <2>2 DEF TypeOK, Fresh, HeapInv, Built, Struct, RootSigBlocks, Arrays
  <2>4. Taken' = {}
    <3>1. Slots(Len(<<>>)) = {}
      BY DEF Slots
    <3>2. QED
      BY <2>3, <3>1 DEF Taken
  <2>5. Partial' = IF WordOf(word) = 0 THEN {} ELSE {<<"proof", Len(proofs)>>}
    BY <2>1, <2>2, <2>4 DEF Partial
  <2>6. heap' = Built' \cup Partial' /\ fault' = fault
    BY <2>1, <2>3, <2>5 DEF Allocates
  <2>7. QED
    BY <2>2, <2>6 DEF HeapInv
<1>13. CASE TakeSibling
  <2>1. /\ pc = "sibling" /\ pc' = "sibling" /\ Len(siblings) < proof_len
        /\ UNCHANGED <<n, root_hash, root_signature, proofs, proof_len>>
        /\ \E bytes \in Bytes(HashSize) : siblings' = Append(siblings, bytes)
        /\ heap' = heap \cup {<<"sibling", Len(proofs), Len(siblings)>>} /\ fault' = fault
    BY <1>13 DEF TakeSibling, Reads, Allocates
  <2>2. Len(siblings) \in Nat /\ Len(siblings') = Len(siblings) + 1 /\ proof_len # 0
    BY <2>1 DEF TypeOK
  <2>3. Slots(Len(siblings')) = Slots(Len(siblings)) \cup {Len(siblings)}
    BY <2>2 DEF Slots
  <2>4. Taken' = Taken \cup {<<"sibling", Len(proofs), Len(siblings)>>}
    BY <2>1, <2>3 DEF Taken
  <2>5. Partial' = Partial \cup {<<"sibling", Len(proofs), Len(siblings)>>}
    BY <2>1, <2>2, <2>4 DEF Partial
  <2>6. Built' = Built
    BY <2>1 DEF Built, Struct, RootSigBlocks, Arrays
  <2>7. heap' = Built' \cup Partial'
    BY <2>1, <2>5, <2>6 DEF HeapInv
  <2>8. QED
    BY <2>1, <2>7 DEF HeapInv
<1>14. CASE ProofDone
  <2>1. /\ pc = "sibling" /\ pc' = "proof_len" /\ Len(siblings) = proof_len
        /\ proofs' = Append(proofs, siblings)
        /\ UNCHANGED <<n, root_hash, root_signature, heap, fault>>
    BY <1>14 DEF ProofDone, Reads
  <2>2. Built' = Built \cup PathBlocks(Len(proofs), Len(siblings))
    BY <2>1, BuiltMore
  <2>3. PathBlocks(Len(proofs), Len(siblings)) = Partial
    BY <2>1 DEF PathBlocks, Partial, Taken
  <2>4. heap' = Built'
    BY <2>1, <2>2, <2>3 DEF HeapInv
  <2>5. QED
    BY <2>1, <2>4 DEF HeapInv
<1>15. CASE Accept \/ \E room \in {NoRoom, data_len - 1, data_len} : Serialize(room)
  <2>1. /\ pc \in {"proof_len", "decoded"} /\ pc' = "decoded" /\ UNCHANGED <<sig, heap, fault>>
    BY <1>15 DEF Accept, Serialize, Reads
  <2>2. Built' = Built
    BY <2>1 DEF sig, Built, Struct, RootSigBlocks, Arrays
  <2>3. QED
    BY <2>1, <2>2 DEF HeapInv
<1>16. CASE Free \/ Again
  <2>1. /\ pc' = "idle"
        /\ \/ pc = "decoded" /\ heap' = heap \ Built /\ fault' = (fault \/ ~(Built \subseteq heap))
           \/ pc = "rejected" /\ UNCHANGED <<heap, fault>>
    BY <1>16 DEF Free, Again, Forget, Frees
  <2>2. heap' = {} /\ ~fault'
    <3>1. CASE pc = "rejected"
      BY <2>1, <3>1 DEF HeapInv
    <3>2. CASE pc = "decoded"
      <4>1. heap = Built /\ ~fault
        BY <3>2 DEF HeapInv
      <4>2. heap' = heap \ Built /\ fault' = (fault \/ ~(Built \subseteq heap))
        BY <2>1, <3>2
      <4>3. QED
        BY <4>1, <4>2
    <3>3. QED
      BY <2>1, <3>1, <3>2
  <2>3. QED
    BY <2>1, <2>2 DEF HeapInv
<1>17. CASE UNCHANGED vars
  BY <1>17 DEF vars, sig, HeapInv, Struct, RootSigBlocks, Built, Arrays, Partial, Taken
<1>18. QED
  BY <1>1, <1>2, <1>3, <1>4, <1>5, <1>6, <1>7, <1>8, <1>9, <1>10, <1>11, <1>12, <1>13, <1>14,
     <1>15, <1>16, <1>17 DEF Next

\* What is said of the heap holds always.
LEMMA HeapCorrect == Spec => []HeapInv
<1>1. Init => HeapInv
  BY DEF Init, HeapInv
<1>2. QED
  BY <1>1, HeapNext, TypeCorrect, PTL DEF Spec

\* Nothing is left allocated by a rejection, at whichever of its steps and for
\* any file, and an accepted signature owns just what batch_signature_free frees.
THEOREM NoLeakCorrect == Spec => []NoLeak
<1>1. HeapInv => NoLeak
  BY DEF HeapInv, NoLeak
<1>2. QED
  BY <1>1, HeapCorrect, PTL

\* No step of deserialize, and no batch_signature_free after it, frees a block
\* that is not live.
THEOREM NoFaultCorrect == Spec => []NoFault
<1>1. HeapInv => NoFault
  BY DEF HeapInv, NoFault
<1>2. QED
  BY <1>1, HeapCorrect, PTL

------------------------------------------------------------------------------
\* What deserialize has read is what serialize writes of the part it has built, and
\* the numbers in it fit a word.
SoFar == File(n, root_hash, root_signature, proofs)

TextInv ==
  /\ data_len <= SizeMax
  /\ pc \notin {"idle", "header", "rejected"} => n \in Values
  /\ pc \notin {"idle", "header", "sig", "root_hash", "rejected"} => root_hash \in Digests
  /\ pc \in {"arrays", "arrays_done", "proof_len", "sibling", "decoded"} =>
       Len(root_signature) \in Values
  /\ \A i \in DOMAIN proofs : Len(proofs[i]) \in Values
  /\ pc \in {"sig", "root_hash"} => data = Opening(n)
  /\ pc = "root_sig" => data = Hashed(n, root_hash)
  /\ pc \in {"arrays", "arrays_done"} => data = Rooted(n, root_hash, root_signature)
  /\ pc \in {"proof_len", "decoded"} => data = SoFar
  /\ pc = "sibling" =>
       proof_len \in Values /\ data = SoFar \o WordBytes(proof_len) \o FlattenSeq(siblings)
  /\ pc = "decoded" => Len(proofs) = n /\ Left = 0

\* serialize was called for what is decoded now.
ReplyInv ==
  reply # <<>> =>
    pc = "decoded" /\ \E room \in {NoRoom, data_len - 1, data_len} :
      reply = <<room, SerializeReply(Decoded, room)>>

\* A rejection leaves nothing built that the text could differ from.
LEMMA TextRejected ==
  ASSUME TextInv, ReplyInv, pc # "decoded", NEW S, NEW bytes, RejectsRead(S, bytes) \/ RunsOut(S)
  PROVE  TextInv' /\ ReplyInv'
<1>1. /\ pc' = "rejected" /\ data_len' = data_len /\ reply' = reply
      /\ n' = 0 /\ root_signature' = <<>> /\ proofs' = <<>>
  BY DEF RejectsRead, RunsOut, Rejects, Clear
<1>2. reply = <<>>
  BY DEF ReplyInv
<1>3. DOMAIN <<>> = {}
  OBVIOUS
<1>. QED  BY <1>1, <1>2, <1>3 DEF TextInv, ReplyInv

\* A header that fits is the opening of a file.
LEMMA HeaderReads ==
  ASSUME NEW w \in [1..4 -> Words],
         HeaderFits(WordOf(w[1]), WordOf(w[2]), WordOf(w[3]), WordOf(w[4]))
  PROVE  /\ WordOf(w[3]) \in Values
         /\ <<>> \o (w[1] \o w[2] \o w[3] \o w[4]) = Opening(WordOf(w[3]))
<1>1. /\ w[1] \in Words /\ w[2] \in Words /\ w[3] \in Words /\ w[4] \in Words
  OBVIOUS
<1>2. /\ w[1] = WordBytes(WordOf(w[1])) /\ w[2] = WordBytes(WordOf(w[2]))
      /\ w[3] = WordBytes(WordOf(w[3])) /\ w[4] = WordBytes(WordOf(w[4]))
      /\ WordOf(w[3]) \in Values /\ WordOf(w[3]) \in Nat
  BY <1>1, WordType
<1>3. /\ WordOf(w[1]) = Version
      /\ WordOf(w[2]) = HashSize % (U32Max + 1) /\ WordOf(w[4]) = HashSize % (U32Max + 1)
  BY DEF HeaderFits
<1>4. WordBytes(HashSize % (U32Max + 1)) = WordBytes(HashSize)
  <2>1. U32Max + 1 = Place[WordSize] /\ HashSize \in Nat
    BY WordRange
  <2>. QED  BY <2>1, CastBytes
<1>5. w[1] \o w[2] \o w[3] \o w[4] = Opening(WordOf(w[3]))
  <2>1. w[1] = WordBytes(Version) /\ w[2] = WordBytes(HashSize) /\ w[4] = WordBytes(HashSize)
    BY <1>2, <1>3, <1>4
  <2>. QED  BY <1>2, <2>1 DEF Opening
<1>6. Opening(WordOf(w[3])) \in Seq(Byte)
  BY <1>2, OpeningType
<1>7. <<>> \o Opening(WordOf(w[3])) = Opening(WordOf(w[3]))
  BY <1>6, ConcatEmptySeq
<1>. QED  BY <1>2, <1>5, <1>7

\* At first nothing is read.
LEMMA TextInit == Init => TextInv /\ ReplyInv
<1>1. DOMAIN <<>> = {} /\ 0 <= SizeMax
  OBVIOUS
<1>. QED  BY <1>1 DEF Init, TextInv, ReplyInv

\* Every step keeps the text of what is built the text that was read.
LEMMA TextNext == TypeOK /\ TextInv /\ ReplyInv /\ [Next]_vars => TextInv' /\ ReplyInv'
<1> SUFFICES ASSUME TypeOK, TextInv, ReplyInv, [Next]_vars PROVE TextInv' /\ ReplyInv'
  OBVIOUS
<1>0. /\ data \in Seq(Byte) /\ n \in Nat /\ root_signature \in Seq(Payload)
      /\ siblings \in Seq(Digests) /\ proofs \in Seq(Seq(Digests))
      /\ pc # "decoded" => reply = <<>>
      /\ pc \notin {"proof_len", "sibling", "decoded"} => proofs = <<>>
  BY DEF TypeOK, ReplyInv, Byte, Digests
<1>e. DOMAIN <<>> = {} /\ Len(<<>>) = 0 /\ <<>> \in Seq(Digests) /\ <<>> \in Seq(Byte)
  OBVIOUS
<1>1. CASE \E len \in DataLens : Deserialize(len)
  <2>1. PICK len \in DataLens : Deserialize(len)
    BY <1>1
  <2>2. /\ pc = "idle" /\ pc' = "header" /\ data_len' = len /\ data_len' <= SizeMax
        /\ proofs' = proofs /\ reply' = reply
    BY <2>1 DEF Deserialize, sig
  <2>. QED  BY <1>0, <1>e, <2>2 DEF TextInv, ReplyInv
<1>2. CASE Header
  <2>1. PICK w \in [1..4 -> Words] :
          LET read == w[1] \o w[2] \o w[3] \o w[4]
          IN  IF HeaderFits(WordOf(w[1]), WordOf(w[2]), WordOf(w[3]), WordOf(w[4]))
              THEN /\ Reads(read, "sig") /\ n' = WordOf(w[3])
                   /\ UNCHANGED <<root_hash, root_signature, proofs, siblings, proof_len,
                                  heap, fault>>
              ELSE RejectsRead({}, read)
    BY <1>2 DEF Header
  <2> DEFINE read == w[1] \o w[2] \o w[3] \o w[4]
  <2>2. pc = "header" /\ data = <<>>
    BY <1>2 DEF Header, TypeOK
  <2>3. CASE HeaderFits(WordOf(w[1]), WordOf(w[2]), WordOf(w[3]), WordOf(w[4]))
    <3>1. WordOf(w[3]) \in Values /\ <<>> \o read = Opening(WordOf(w[3]))
      BY <2>3, HeaderReads
    <3>2. Reads(read, "sig") /\ n' = WordOf(w[3]) /\ proofs' = proofs
      BY <2>1, <2>3
    <3>. HIDE DEF read
    <3>3. /\ data' = Opening(n') /\ n' \in Values /\ pc' = "sig"
          /\ data_len' = data_len /\ reply' = reply
      BY <2>2, <3>1, <3>2 DEF Reads
    <3>. QED  BY <1>0, <1>e, <2>2, <3>2, <3>3 DEF TextInv, ReplyInv
  <2>4. CASE ~HeaderFits(WordOf(w[1]), WordOf(w[2]), WordOf(w[3]), WordOf(w[4]))
    <3>1. RejectsRead({}, read)
      BY <2>1, <2>4
    <3>. HIDE DEF read
    <3>. QED  BY <2>2, <3>1, TextRejected
  <2>. QED  BY <2>3, <2>4
<1>3. CASE \/ HeaderShort \/ AllocateSigFails \/ RootHashFails \/ RootSigShort
           \/ RootSigFails \/ ArraysTooLarge \/ AllocateArraysFails \/ ProofShort
           \/ AllocateProofFails \/ TakeSiblingFails \/ Trailing
  <2>1. pc # "decoded" /\ \E S, bytes : RejectsRead(S, bytes) \/ RunsOut(S)
    BY <1>3 DEF HeaderShort, AllocateSigFails, RootHashFails, RootSigShort, RootSigFails,
                ArraysTooLarge, AllocateArraysFails, ProofShort, AllocateProofFails,
                TakeSiblingFails, Trailing
  <2>. QED  BY <2>1, TextRejected
<1>4. CASE AllocateSig
  <2>1. pc = "sig" /\ Reads(<<>>, "root_hash") /\ UNCHANGED sig
    BY <1>4 DEF AllocateSig
  <2>2. data' = data /\ pc' = "root_hash" /\ UNCHANGED <<data_len, reply>>
    BY <2>1, ReadingNothing DEF Reads
  <2>. QED  BY <1>0, <2>1, <2>2 DEF TextInv, ReplyInv, sig
<1>5. CASE RootHash
  <2>1. PICK bytes \in Bytes(HashSize) : Reads(bytes, "root_sig") /\ root_hash' = bytes
    BY <1>5 DEF RootHash
  <2>2. pc = "root_hash" /\ UNCHANGED <<n, proofs>> /\ bytes \in Digests
    BY <1>5 DEF RootHash, Digests
  <2>3. data = Opening(n) /\ n \in Values
    BY <2>2 DEF TextInv
  <2>4. /\ data' = Hashed(n', root_hash') /\ pc' = "root_sig" /\ n' \in Values
        /\ root_hash' \in Digests /\ UNCHANGED <<data_len, reply, proofs>>
    BY <2>1, <2>2, <2>3 DEF Reads, Hashed
  <2>. QED  BY <1>0, <1>e, <2>2, <2>4 DEF TextInv, ReplyInv
<1>6. CASE RootSig
  <2>1. PICK word \in Words :
          \E bytes \in Bytes(WordOf(word)) : Reads(word \o bytes, "arrays") /\ root_signature' = bytes
    BY <1>6 DEF RootSig
  <2>2. PICK bytes \in Bytes(WordOf(word)) :
          Reads(word \o bytes, "arrays") /\ root_signature' = bytes
    BY <2>1
  <2>3. pc = "root_sig" /\ UNCHANGED <<n, root_hash, proofs>>
    BY <1>6 DEF RootSig
  <2>4. /\ word \in Seq(Byte) /\ word = WordBytes(WordOf(word)) /\ WordOf(word) \in Nat
        /\ WordOf(word) \in Values
    BY WordType DEF Byte
  <2>5. bytes \in Seq(Byte) /\ Len(bytes) = WordOf(word)
    BY <2>4, BytesType DEF Byte
  <2>6. /\ data = Hashed(n, root_hash) /\ n \in Values /\ root_hash \in Digests
        /\ data' = data \o (word \o bytes) /\ pc' = "arrays" /\ UNCHANGED <<data_len, reply>>
    BY <2>2, <2>3 DEF TextInv, Reads
  <2>7. (data \o word) \o bytes = data \o (word \o bytes)
    <3>1. data \in Text /\ word \in Text /\ bytes \in Text
      BY <1>0, <2>4, <2>5 DEF Text
    <3>2. Then(Then(data, word), bytes) = Then(data, Then(word, bytes))
      BY <3>1, ThenText
    <3>. QED  BY <3>2 DEF Then
  <2>8. data' = (Hashed(n, root_hash) \o WordBytes(Len(bytes))) \o bytes
    BY <2>4, <2>5, <2>6, <2>7
  <2>9. data' = Rooted(n', root_hash', root_signature') /\ Len(root_signature') \in Values
    BY <2>2, <2>3, <2>4, <2>5, <2>8 DEF Rooted
  <2>. QED  BY <1>0, <1>e, <2>3, <2>6, <2>9 DEF TextInv, ReplyInv
<1>7. CASE AllocateArrays
  <2>1. pc = "arrays" /\ Reads(<<>>, "arrays_done") /\ UNCHANGED sig
    BY <1>7 DEF AllocateArrays
  <2>2. data' = data /\ pc' = "arrays_done" /\ UNCHANGED <<data_len, reply>>
    BY <2>1, ReadingNothing DEF Reads
  <2>. QED  BY <1>0, <2>1, <2>2 DEF TextInv, ReplyInv, sig
<1>8. CASE ArraysDone
  <2>1. pc = "arrays_done" /\ Reads(<<>>, "proof_len") /\ UNCHANGED sig
    BY <1>8 DEF ArraysDone
  <2>2. data' = data /\ pc' = "proof_len" /\ UNCHANGED <<data_len, reply>>
    BY <2>1, ReadingNothing DEF Reads
  <2>3. /\ data = Rooted(n, root_hash, root_signature) /\ root_hash \in Digests /\ proofs = <<>>
        /\ n \in Values /\ Len(root_signature) \in Values
    BY <1>0, <2>1 DEF TextInv
  <2>4. data' = SoFar'
    <3>1. File(n, root_hash, root_signature, <<>>) = Rooted(n, root_hash, root_signature)
      BY <1>0, <1>e, <2>3, FileGrows
    <3>. QED  BY <2>1, <2>2, <2>3, <3>1 DEF SoFar, sig
  <2>. QED  BY <1>0, <1>e, <2>1, <2>2, <2>3, <2>4 DEF TextInv, ReplyInv, sig
<1>9. CASE AllocateProof
  <2>1. PICK word \in Words : Reads(word, "sibling") /\ proof_len' = WordOf(word)
    BY <1>9 DEF AllocateProof
  <2>2. /\ pc = "proof_len" /\ UNCHANGED <<n, root_hash, root_signature, proofs, siblings>>
        /\ siblings = <<>>
    BY <1>9 DEF AllocateProof, TypeOK, Fresh
  <2>3. /\ word \in Seq(Byte) /\ word = WordBytes(WordOf(word)) /\ WordOf(word) \in Values
    BY WordType DEF Byte
  <2>4. /\ data = SoFar /\ data' = data \o word /\ pc' = "sibling" /\ UNCHANGED <<data_len, reply>>
        /\ SoFar' = SoFar
    BY <2>1, <2>2 DEF TextInv, Reads, SoFar
  <2>5. data' = SoFar' \o WordBytes(proof_len') \o FlattenSeq(siblings')
    <3>1. FlattenSeq(siblings') = <<>>
      BY <2>2, <1>e DEF FlattenSeq
    <3>2. data \o word \in Seq(Byte)
      BY <1>0, <2>3, Joined
    <3>3. (data \o word) \o <<>> = data \o word
      BY <3>2, ConcatEmptySeq
    <3>. QED  BY <2>1, <2>3, <2>4, <3>1, <3>3
  <2>6. proof_len' \in Values
    BY <2>1, <2>3
  <2>. QED  BY <1>0, <2>2, <2>4, <2>5, <2>6 DEF TextInv, ReplyInv
<1>10. CASE TakeSibling
  <2>1. PICK bytes \in Bytes(HashSize) : Reads(bytes, "sibling") /\ siblings' = Append(siblings, bytes)
    BY <1>10 DEF TakeSibling
  <2>2. pc = "sibling" /\ UNCHANGED <<n, root_hash, root_signature, proofs, proof_len>>
    BY <1>10 DEF TakeSibling
  <2>3. /\ data = SoFar \o WordBytes(proof_len) \o FlattenSeq(siblings)
        /\ proof_len \in Values /\ data' = data \o bytes
        /\ pc' = "sibling" /\ UNCHANGED <<data_len, reply>> /\ SoFar' = SoFar
        /\ root_hash \in Digests
    BY <2>1, <2>2 DEF TextInv, Reads, SoFar
  <2>4. bytes \in Seq(Byte) /\ siblings \in Seq(Seq(Byte))
    <3>1. bytes \in Digests
      BY DEF Digests
    <3>. QED  BY <1>0, <3>1, DigestType, ProofBytesType
  <2>5. /\ FlattenSeq(siblings) \in Seq(Byte)
        /\ FlattenSeq(siblings') = FlattenSeq(siblings) \o bytes
    BY <2>1, <2>4, FlattenMore
  <2>6. SoFar \o WordBytes(proof_len) \in Seq(Byte)
    <3>1. SoFar \in Seq(Byte)
      BY <1>0, <1>e, <2>3, FileGrows DEF SoFar
    <3>2. WordBytes(proof_len) \in Seq(Byte)
      BY BytesOfWord DEF TypeOK, Byte
    <3>. QED  BY <3>1, <3>2, Joined
  <2> DEFINE before == SoFar \o WordBytes(proof_len)
             flat == FlattenSeq(siblings)
  <2>7. (before \o flat) \o bytes = before \o (flat \o bytes)
    <3>. HIDE DEF before, flat
    <3>1. before \in Text /\ flat \in Text /\ bytes \in Text
      BY <2>4, <2>5, <2>6 DEF before, flat, Text
    <3>2. Then(Then(before, flat), bytes) = Then(before, Then(flat, bytes))
      BY <3>1, ThenText
    <3>. QED  BY <3>2 DEF Then
  <2>8. data' = SoFar' \o WordBytes(proof_len') \o FlattenSeq(siblings')
    BY <2>2, <2>3, <2>5, <2>7
  <2>. QED  BY <1>0, <2>2, <2>3, <2>8 DEF TextInv, ReplyInv
<1>11. CASE ProofDone
  <2>1. /\ pc = "sibling" /\ Len(siblings) = proof_len /\ Reads(<<>>, "proof_len")
        /\ proofs' = Append(proofs, siblings) /\ UNCHANGED <<n, root_hash, root_signature>>
    BY <1>11 DEF ProofDone
  <2>2. data' = data /\ pc' = "proof_len" /\ UNCHANGED <<data_len, reply>>
    BY <2>1, ReadingNothing DEF Reads
  <2>3. /\ data = SoFar \o WordBytes(Len(siblings)) \o FlattenSeq(siblings)
        /\ Len(siblings) \in Values /\ root_hash \in Digests /\ n \in Values
        /\ Len(root_signature) \in Values
        /\ \A i \in DOMAIN proofs : Len(proofs[i]) \in Values
    BY <2>1 DEF TextInv
  <2>4. SoFar' = SoFar \o WordBytes(Len(siblings)) \o FlattenSeq(siblings)
    <3>1. File(n, root_hash, root_signature, Append(proofs, siblings))
            = SoFar \o WordBytes(Len(siblings)) \o FlattenSeq(siblings)
      <4>1. File(n, root_hash, root_signature, Append(proofs, siblings))
              = File(n, root_hash, root_signature, proofs) \o WordBytes(Len(siblings)) \o FlattenSeq(siblings)
        <5>1. /\ n \in Nat /\ root_hash \in Digests /\ root_signature \in Seq(Payload)
              /\ proofs \in Seq(Seq(Digests)) /\ siblings \in Seq(Digests)
          BY <1>0, <2>3
        <5>. QED  BY <5>1, FileWithPath
      <4>. QED  BY <4>1 DEF SoFar
    <3>. QED  BY <2>1, <3>1 DEF SoFar
  <2>5. \A i \in DOMAIN proofs' : Len(proofs'[i]) \in Values
    <3>1. DOMAIN proofs' = 1..(Len(proofs) + 1) /\ DOMAIN proofs = 1..Len(proofs)
          /\ \A i \in DOMAIN proofs' : proofs'[i] = IF i = Len(proofs) + 1 THEN siblings ELSE proofs[i]
      BY <1>0, <2>1
    <3>. QED  BY <2>3, <3>1
  <2>. QED  BY <1>0, <2>1, <2>2, <2>3, <2>4, <2>5 DEF TextInv, ReplyInv
<1>12. CASE Accept
  <2>1. pc = "proof_len" /\ Len(proofs) = n /\ Left = 0 /\ Reads(<<>>, "decoded") /\ UNCHANGED sig
    BY <1>12 DEF Accept
  <2>2. data' = data /\ Left' = Left /\ pc' = "decoded" /\ UNCHANGED <<data_len, reply>>
    BY <2>1, ReadingNothing DEF Reads
  <2>3. SoFar' = SoFar
    BY <2>1 DEF SoFar, sig
  <2>. QED  BY <1>0, <2>1, <2>2, <2>3 DEF TextInv, ReplyInv, sig
<1>13. CASE \E room \in {NoRoom, data_len - 1, data_len} : Serialize(room)
  <2>1. PICK room \in {NoRoom, data_len - 1, data_len} : Serialize(room)
    BY <1>13
  <2>2. /\ pc = "decoded" /\ UNCHANGED <<pc, data_len, data, sig>>
        /\ reply' = <<room, SerializeReply(Decoded, room)>>
    BY <2>1 DEF Serialize
  <2>3. SoFar' = SoFar /\ Decoded' = Decoded /\ Left' = Left
    BY <2>2 DEF SoFar, sig, Decoded, Left
  <2>4. TextInv'
    BY <2>2, <2>3 DEF TextInv, sig
  <2>5. ReplyInv'
    <3>1. room \in {NoRoom, data_len' - 1, data_len'} /\ pc' = "decoded"
      BY <2>2
    <3>2. reply' = <<room, SerializeReply(Decoded', room)>>
      BY <2>2, <2>3
    <3>. QED  BY <3>1, <3>2 DEF ReplyInv
  <2>. QED  BY <2>4, <2>5
<1>14. CASE Free \/ Again
  <2>1. /\ pc' = "idle" /\ data_len' = 0 /\ reply' = <<>>
        /\ proofs' = <<>>
    <3>1. pc = "rejected" => proofs = <<>>
      BY <1>0
    <3>. QED  BY <1>14, <3>1 DEF Free, Again, Forget, Clear, sig
  <2>. QED  BY <1>e, <2>1 DEF TextInv, ReplyInv
<1>15. CASE UNCHANGED vars
  <2>1. SoFar' = SoFar /\ Decoded' = Decoded /\ Left' = Left
    BY <1>15 DEF SoFar, vars, sig, Decoded, Left
  <2>2. TextInv'
    BY <1>15, <2>1 DEF TextInv, vars, sig
  <2>3. ReplyInv'
    BY <1>15, <2>1 DEF ReplyInv, vars, sig, SerializeReply
  <2>. QED  BY <2>2, <2>3
<1>. QED  BY <1>1, <1>2, <1>3, <1>4, <1>5, <1>6, <1>7, <1>8, <1>9, <1>10, <1>11, <1>12, <1>13,
     <1>14, <1>15 DEF Next

\* What is decoded is serialized again, and its size is known beforehand.
LEMMA ReplyIs ==
  ASSUME TypeOK, TextInv, pc = "decoded"
  PROVE  /\ Encode(Decoded) = data /\ Needed(Decoded) = data_len
         /\ Serializable(Decoded) <=> root_signature # <<>> /\ HashSize <= U32Max
<1>1. /\ data \in Seq(Byte) /\ n \in Nat /\ root_signature \in Seq(Payload)
      /\ proofs \in Seq(Seq(Digests)) /\ data_len \in Nat
  BY DEF TypeOK, Byte, Digests
<1>2. /\ root_hash \in Digests /\ data = File(n, root_hash, root_signature, proofs)
      /\ Len(proofs) = n /\ Left = 0 /\ n \in Values /\ Len(root_signature) \in Values
      /\ \A i \in DOMAIN proofs : Len(proofs[i]) \in Values
      /\ data_len <= SizeMax
  BY DEF TextInv, SoFar
<1>3. /\ Decoded.root_hash = root_hash /\ Decoded.root_signature = root_signature
      /\ Decoded.proofs = proofs
  BY DEF Decoded
<1>4. Encode(Decoded) = File(n, root_hash, root_signature, proofs)
  BY <1>1, <1>2, <1>3, NeededIs
<1>5. Needed(Decoded) = Len(Encode(Decoded))
  BY <1>1, <1>2, <1>3, NeededIs
<1>6. Needed(Decoded) = data_len
  BY <1>1, <1>2, <1>4, <1>5 DEF Left
<1>7. \A v \in Values : v <= U32Max
  BY WordRange
<1>8. Serializable(Decoded) <=> root_signature # <<>> /\ HashSize <= U32Max
  BY <1>2, <1>3, <1>6, <1>7 DEF Serializable
<1>. QED  BY <1>2, <1>4, <1>6, <1>8

\* Only canonical files are accepted.
THEOREM CanonicalCorrect == Spec => []Canonical
<1>1. TypeOK /\ TextInv /\ ReplyInv => Canonical
  <2>. SUFFICES ASSUME TypeOK, TextInv, ReplyInv, pc = "decoded",
                       reply # <<>>
                PROVE  reply[2] =
                         IF root_signature = <<>> \/ HashSize > U32Max \/ reply[1] = data_len - 1
                         THEN [rc |-> -1]
                         ELSE IF reply[1] = NoRoom THEN [rc |-> 0, out_len |-> data_len]
                         ELSE [rc |-> 0, out_len |-> data_len, out |-> data]
    BY ReplyIs DEF Canonical
  <2>1. PICK room \in {NoRoom, data_len - 1, data_len} : reply = <<room, SerializeReply(Decoded, room)>>
    BY DEF ReplyInv
  <2>2. reply[1] = room /\ reply[2] = SerializeReply(Decoded, room)
    BY <2>1
  <2>3. /\ Encode(Decoded) = data /\ Needed(Decoded) = data_len
        /\ Serializable(Decoded) <=> root_signature # <<>> /\ HashSize <= U32Max
    BY ReplyIs
  <2>4. data_len \in Nat /\ U32Max \in Nat /\ HashSize \in Nat
    BY WordRange DEF TypeOK
  <2>5. Serializable(Decoded) <=> ~(root_signature = <<>> \/ HashSize > U32Max)
    BY <2>3, <2>4
  <2>6. CASE ~Serializable(Decoded)
    BY <2>2, <2>5, <2>6 DEF SerializeReply
  <2>7. CASE Serializable(Decoded) /\ room = NoRoom
    <3>1. room # data_len - 1
      BY <2>4, <2>7
    <3>. QED  BY <2>2, <2>3, <2>5, <2>7, <3>1 DEF SerializeReply
  <2>8. CASE Serializable(Decoded) /\ room = data_len - 1
    <3>1. room # NoRoom /\ room < data_len
      BY <2>4, <2>8
    <3>. QED  BY <2>2, <2>3, <2>5, <2>8, <3>1 DEF SerializeReply
  <2>9. CASE Serializable(Decoded) /\ room = data_len
    <3>1. room # NoRoom /\ ~(room < data_len) /\ room # data_len - 1
      BY <2>4, <2>9
    <3>. QED  BY <2>2, <2>3, <2>5, <2>9, <3>1 DEF SerializeReply
  <2>. QED  BY <2>1, <2>6, <2>7, <2>8, <2>9
<1>. QED  BY <1>1, TypeInit, TypeNext, TextInit, TextNext, PTL DEF Spec
------------------------------------------------------------------------------
\* What has been read may be the file of s, and no malloc has failed.
ReadingOf(s) ==
  /\ ~oom /\ data_len = Len(Encode(s))
  /\ \E rest \in Seq(Byte) : Encode(s) = data \o rest

\* Then everything decoded so far is of s.
Agrees(s) ==
  /\ pc # "rejected"
  /\ pc \notin {"idle", "header"} => n = Len(s.proofs)
  /\ pc \notin {"idle", "header", "sig", "root_hash"} => root_hash = s.root_hash
  /\ pc \notin {"idle", "header", "sig", "root_hash", "root_sig"} =>
       root_signature = s.root_signature
  /\ Len(proofs) <= Len(s.proofs) /\ proofs = SubSeq(s.proofs, 1, Len(proofs))
  /\ pc = "sibling" =>
       LET p == s.proofs[Len(proofs) + 1]
       IN  proof_len = Len(p) /\ siblings = SubSeq(p, 1, Len(siblings))

ReadInv == \A s \in Signed : Readable(s) /\ ReadingOf(s) => Agrees(s)

\* What a readable signature is made of.
LEMMA ReadableParts ==
  ASSUME NEW s, Readable(s)
  PROVE  LET file == Encode(s)
             m == Len(s.proofs)
             sign == s.root_signature
         IN  /\ file = File(m, s.root_hash, sign, s.proofs) /\ file \in Seq(Byte)
             /\ m \in 0..U32Max /\ Len(sign) \in 0..U32Max /\ HashSize \in 0..U32Max
             /\ Len(file) <= SizeMax
             /\ Len(file) >= 5 * WordSize + HashSize + Len(sign)
             /\ m <= (Len(file) - 4 * WordSize) \div WordSize
             /\ (Len(file) - 4 * WordSize) \div WordSize \in 0..U32Max
             /\ \E rest \in Seq(Byte) : file = (Opening(m) \o s.root_hash) \o rest
             /\ \E rest \in Seq(Byte) :
                  file = (Hashed(m, s.root_hash) \o WordBytes(Len(sign))) \o (sign \o rest)
             /\ \A k \in 0..(m - 1) :
                  /\ s.proofs[k + 1] \in Seq(Digests) /\ Len(s.proofs[k + 1]) \in 0..U32Max
                  /\ MulFits(Len(s.proofs[k + 1]), PtrSize)
                  /\ \E rest \in Seq(Byte) :
                       file = (File(m, s.root_hash, sign, SubSeq(s.proofs, 1, k))
                                \o WordBytes(Len(s.proofs[k + 1])))
                              \o (FlattenSeq(s.proofs[k + 1]) \o rest)
<1> DEFINE file == Encode(s)
           m == Len(s.proofs)
           sign == s.root_signature
<1>1. /\ s.root_hash \in Digests /\ sign \in Seq(Payload) /\ s.proofs \in Seq(Seq(Digests))
      /\ m \in Nat /\ Len(sign) \in Nat
  BY DEF Readable, Digests
<1>2. /\ file = File(m, s.root_hash, sign, s.proofs) /\ file \in Seq(Byte)
      /\ Needed(s) = Len(file)
  BY <1>1, NeededIs
<1>3. /\ m <= U32Max /\ Len(sign) <= U32Max /\ HashSize <= U32Max /\ Len(file) <= SizeMax
      /\ \A i \in DOMAIN s.proofs : Len(s.proofs[i]) <= U32Max
      /\ (Len(file) - 4 * WordSize) \div WordSize <= U32Max
      /\ \A i \in DOMAIN s.proofs : MulFits(Len(s.proofs[i]), PtrSize)
  BY <1>2 DEF Readable, Digests, Serializable, Uncut
<1>4. /\ Len(file) >= 5 * WordSize + HashSize + Len(sign) + m * WordSize
      /\ \E rest \in Seq(Byte) : file = (Opening(m) \o s.root_hash) \o rest
      /\ \E rest \in Seq(Byte) :
           file = (Hashed(m, s.root_hash) \o WordBytes(Len(sign))) \o (sign \o rest)
      /\ \A k \in 0..(m - 1) : \E rest \in Seq(Byte) :
           file = (File(m, s.root_hash, sign, SubSeq(s.proofs, 1, k))
                    \o WordBytes(Len(s.proofs[k + 1])))
                  \o (FlattenSeq(s.proofs[k + 1]) \o rest)
  <2>1. Parts(m, s.root_hash, sign, s.proofs)
    BY <1>1, FileParts
  <2>. QED  BY <1>2, <2>1 DEF Parts
<1>5. /\ m \in 0..U32Max /\ Len(sign) \in 0..U32Max /\ HashSize \in 0..U32Max
      /\ U32Max \in Nat /\ Len(file) \in Nat /\ WordSize \in Nat \ {0} /\ m * WordSize \in Nat
  <2>1. WordSize \in Nat \ {0} /\ HashSize \in Nat /\ U32Max \in Nat
    BY WordRange
  <2>2. m * WordSize \in Nat
    BY <1>1, <2>1, Products
  <2>3. Len(file) \in Nat
    BY <1>2
  <2>. HIDE DEF m, sign, file
  <2>. QED  BY <1>1, <1>3, <2>1, <2>2, <2>3
<1>6. \A k \in 0..(m - 1) :
        /\ s.proofs[k + 1] \in Seq(Digests) /\ Len(s.proofs[k + 1]) \in 0..U32Max
        /\ MulFits(Len(s.proofs[k + 1]), PtrSize)
  <2> TAKE k \in 0..(m - 1)
  <2>1. k + 1 \in DOMAIN s.proofs /\ s.proofs[k + 1] \in Seq(Digests)
    BY <1>1
  <2>2. Len(s.proofs[k + 1]) \in Nat
    BY <2>1
  <2>3. Len(s.proofs[k + 1]) <= U32Max /\ MulFits(Len(s.proofs[k + 1]), PtrSize)
    BY <1>3, <2>1
  <2>. QED  BY <1>5, <2>1, <2>2, <2>3
<1>. HIDE DEF m, sign, file
<1>7. /\ Len(file) >= 5 * WordSize + HashSize + Len(sign)
      /\ Len(file) - 4 * WordSize \in Nat /\ m * WordSize <= Len(file) - 4 * WordSize
  <2>1. Len(file) >= 5 * WordSize + HashSize + Len(sign) + m * WordSize
    BY <1>4
  <2>2. PICK a \in Nat, b \in Nat, c \in Nat, d \in Nat, e \in Nat :
          a = Len(file) /\ b = WordSize /\ c = HashSize /\ d = Len(sign) /\ e = m * WordSize
    BY <1>1, <1>5
  <2>3. a >= 5 * b + c + d + e
    BY <2>1, <2>2
  <2>4. a >= 5 * b + c + d /\ a - 4 * b \in Nat /\ e <= a - 4 * b
    BY <2>3
  <2>. QED  BY <2>2, <2>4
<1>8. /\ m <= (Len(file) - 4 * WordSize) \div WordSize
      /\ (Len(file) - 4 * WordSize) \div WordSize \in Nat
  <2>1. PICK left \in Nat : left = Len(file) - 4 * WordSize
    BY <1>7
  <2>2. m <= left \div WordSize
    BY <1>1, <1>5, <1>7, <2>1, Quotient
  <2>3. left \div WordSize \in Nat
    BY <1>5, <2>1
  <2>. QED  BY <2>1, <2>2, <2>3
<1>9. (Len(file) - 4 * WordSize) \div WordSize \in 0..U32Max
  BY <1>3, <1>5, <1>8
<1>. QED  BY <1>2, <1>3, <1>4, <1>5, <1>6, <1>7, <1>8, <1>9 DEF m, sign, file

\* What is the file of s after more of it was read was so before.
LEMMA ReadMore ==
  ASSUME data \in Seq(Byte), NEW bytes \in Seq(Byte), NEW s, ReadingOf(s)',
         data' = data \o bytes, oom' = oom, data_len' = data_len
  PROVE  /\ ReadingOf(s)
         /\ \E rest \in Seq(Byte) : Encode(s) = (data \o bytes) \o rest
<1>1. PICK rest \in Seq(Byte) : Encode(s) = (data \o bytes) \o rest
  BY DEF ReadingOf
<1>2. Encode(s) = data \o (bytes \o rest)
  <2>1. data \in Text /\ bytes \in Text /\ rest \in Text
    BY DEF Text
  <2>2. Then(Then(data, bytes), rest) = Then(data, Then(bytes, rest))
    BY <2>1, ThenText
  <2>. QED  BY <1>1, <2>2 DEF Then
<1>3. bytes \o rest \in Seq(Byte)
  BY Joined
<1>4. ~oom /\ data_len = Len(Encode(s))
  BY DEF ReadingOf
<1>5. ReadingOf(s)
  BY <1>2, <1>3, <1>4 DEF ReadingOf
<1>. QED  BY <1>1, <1>5

\* Where it is about to read a path, or reads one, of s.
LEMMA AtPath ==
  ASSUME TypeOK, TextInv, NEW s, Readable(s), ReadingOf(s), Agrees(s),
         pc \in {"proof_len", "sibling"}, Len(proofs) < n
  PROVE  LET p == s.proofs[Len(proofs) + 1]
         IN  /\ p \in Seq(Digests) /\ Len(p) \in 0..U32Max /\ MulFits(Len(p), PtrSize)
             /\ SoFar \in Seq(Byte)
             /\ \E rest \in Seq(Byte) :
                  Encode(s) = (SoFar \o WordBytes(Len(p))) \o (FlattenSeq(p) \o rest)
<1>1. /\ n = Len(s.proofs) /\ root_hash = s.root_hash /\ root_signature = s.root_signature
      /\ proofs = SubSeq(s.proofs, 1, Len(proofs))
  BY DEF Agrees
<1>2. Len(proofs) \in 0..(Len(s.proofs) - 1)
  <2>1. Len(proofs) \in Nat /\ n \in Nat
    BY DEF TypeOK
  <2>. QED  BY <1>1, <2>1
<1>3. SoFar = File(Len(s.proofs), s.root_hash, s.root_signature, SubSeq(s.proofs, 1, Len(proofs)))
  BY <1>1 DEF SoFar
<1>4. SoFar \in Seq(Byte)
  <2>1. /\ root_hash \in Digests /\ n \in Nat /\ root_signature \in Seq(Payload)
        /\ proofs \in Seq(Seq(Digests)) /\ <<>> \in Seq(Digests)
    BY DEF TypeOK, TextInv, Digests
  <2>. QED  BY <2>1, FileGrows DEF SoFar
<1>. QED  BY <1>2, <1>3, <1>4, ReadableParts

\* The word a number was written as is read as that number.
LEMMA WordKnown ==
  ASSUME NEW word \in Words, NEW v \in 0..U32Max, word = WordBytes(v)
  PROVE  WordOf(word) = v
BY WordInverse

\* At first nothing is read that a signature could differ from.
LEMMA ReadInit == Init => ReadInv
<1> SUFFICES ASSUME Init, NEW s \in Signed, Readable(s) PROVE Agrees(s)
  BY DEF ReadInv
<1>1. SubSeq(s.proofs, 1, 0) = <<>> /\ Len(s.proofs) \in Nat /\ Len(<<>>) = 0
  <2>1. s.proofs \in Seq(Seq(Digests))
    BY DEF Readable, Digests
  <2>. QED  BY <2>1, FirstOnes
<1>. QED  BY <1>1 DEF Init, Agrees

\* The header of the file of a readable signature is accepted, with its count.
LEMMA HeaderAgrees ==
  ASSUME TypeOK, Header, NEW s, Readable(s), ReadingOf(s)'
  PROVE  pc' = "sig" /\ n' = Len(s.proofs) /\ proofs' = <<>>
<1> DEFINE m == Len(s.proofs)
<1>1. PICK w \in [1..4 -> Words] :
        LET read == w[1] \o w[2] \o w[3] \o w[4]
        IN  IF HeaderFits(WordOf(w[1]), WordOf(w[2]), WordOf(w[3]), WordOf(w[4]))
            THEN /\ Reads(read, "sig") /\ n' = WordOf(w[3])
                 /\ UNCHANGED <<root_hash, root_signature, proofs, siblings, proof_len,
                                heap, fault>>
            ELSE RejectsRead({}, read)
  BY DEF Header
<1>2. PICK a, b, c, d : a = w[1] /\ b = w[2] /\ c = w[3] /\ d = w[4]
  OBVIOUS
<1>3. /\ a \in Words /\ b \in Words /\ c \in Words /\ d \in Words
      /\ a \in Seq(Byte) /\ b \in Seq(Byte) /\ c \in Seq(Byte) /\ d \in Seq(Byte)
      /\ Len(a) = WordSize /\ Len(b) = WordSize /\ Len(c) = WordSize /\ Len(d) = WordSize
  <2>1. a \in Words /\ b \in Words /\ c \in Words /\ d \in Words
    BY <1>2
  <2>. QED  BY <2>1, WordType DEF Byte
<1>4. /\ pc = "header" /\ data = <<>> /\ proofs = <<>>
  BY DEF Header, TypeOK
<1> DEFINE read == a \o b \o c \o d
<1>5. read \in Seq(Byte) /\ a \o b \in Seq(Byte) /\ a \o b \o c \in Seq(Byte)
  <2>1. a \o b \in Seq(Byte)
    BY <1>3, Joined
  <2>2. a \o b \o c \in Seq(Byte)
    BY <1>3, <2>1, Joined
  <2>. QED  BY <1>3, <2>1, <2>2, Joined
<1>6. data' = <<>> \o read /\ <<>> \o read = read
  <2>1. data' = <<>> \o read
    BY <1>1, <1>2, <1>4 DEF Reads, RejectsRead
  <2>. QED  BY <1>5, <2>1, ConcatEmptySeq
<1>7. /\ m \in 0..U32Max /\ HashSize \in 0..U32Max /\ Len(Encode(s)) \in Nat
      /\ Len(Encode(s)) >= 5 * WordSize + HashSize + Len(s.root_signature)
      /\ Len(s.root_signature) \in 0..U32Max
      /\ m <= (Len(Encode(s)) - 4 * WordSize) \div WordSize
      /\ (Len(Encode(s)) - 4 * WordSize) \div WordSize \in 0..U32Max
  <2>1. Encode(s) \in Seq(Byte)
    BY ReadableParts
  <2>2. Len(Encode(s)) \in Nat
    BY <2>1
  <2>. QED  BY <2>2, ReadableParts
<1>8. Version \in 0..U32Max
  <2>1. Place[WordSize] >= 2
    <3>1. WordSize - 1 \in Nat /\ Base \in Nat /\ Base >= 2 /\ (WordSize - 1) + 1 = WordSize
      OBVIOUS
    <3>2. Place[WordSize] = Base * Place[WordSize - 1] /\ Place[WordSize - 1] \in Nat \ {0}
      BY <3>1, PlaceDef
    <3>3. \A x \in Nat, y \in Nat \ {0} : x >= 2 => x * y >= 2
      <4> TAKE x \in Nat, y \in Nat \ {0}
      <4> HAVE x >= 2
      <4>1. PICK z \in Nat : y = z + 1
        <5>1. y - 1 \in Nat /\ y = (y - 1) + 1
          OBVIOUS
        <5>. QED  BY <5>1
      <4>2. x * z \in Nat /\ x * (z + 1) = x * z + x
        BY Products
      <4>. QED  BY <4>1, <4>2
    <3>. QED  BY <3>1, <3>2, <3>3
  <2>2. U32Max \in Nat /\ U32Max + 1 = Place[WordSize]
    BY WordRange
  <2>. QED  BY <2>1, <2>2 DEF Version
<1> DEFINE a2 == WordBytes(Version)
           b2 == WordBytes(HashSize)
           c2 == WordBytes(m)
           opening == Then(Then(Then(a2, b2), c2), b2)
           words == Then(Then(Then(a, b), c), d)
<1>9. /\ a \in OfLen(WordSize) /\ b \in OfLen(WordSize) /\ c \in OfLen(WordSize)
      /\ d \in OfLen(WordSize) /\ a2 \in OfLen(WordSize) /\ b2 \in OfLen(WordSize)
      /\ c2 \in OfLen(WordSize) /\ read = words /\ Opening(m) = opening
  <2>1. Version \in Nat /\ HashSize \in Nat /\ m \in Nat
    BY <1>7, <1>8, WordRange
  <2>2. \A v \in Nat : WordBytes(v) \in OfLen(WordSize)
    BY BytesOfWord DEF Byte, OfLen, Text
  <2>3. read = words /\ Opening(m) = opening
    BY DEF Then, Opening
  <2>. HIDE DEF m, words, opening, read
  <2>. QED  BY <1>3, <2>1, <2>2, <2>3 DEF OfLen, Text
<1> DEFINE two == WordSize + WordSize
           three == two + WordSize
<1>10. /\ a = a2 /\ b = b2 /\ c = c2 /\ d = b2
  <2>. HIDE DEF a2, b2, c2, read
  <2>1. /\ two \in Nat /\ three \in Nat /\ three + WordSize \in Nat /\ WordSize \in Nat
    OBVIOUS
  <2>. HIDE DEF two, three
  <2>2. Then(a, b) \in OfLen(two) /\ Then(a2, b2) \in OfLen(two)
    BY <1>9, <2>1, ThenLen DEF two
  <2>3. Then(Then(a, b), c) \in OfLen(three) /\ Then(Then(a2, b2), c2) \in OfLen(three)
    BY <1>9, <2>1, <2>2, ThenLen DEF three
  <2>4. words \in OfLen(three + WordSize) /\ opening \in OfLen(three + WordSize)
    BY <1>9, <2>1, <2>3, ThenLen
  <2>5. PICK rest \in Text : Encode(s) = Then(words, rest)
    <3>1. PICK rest \in Seq(Byte) : Encode(s) = read \o rest
      BY <1>6 DEF ReadingOf
    <3>. QED  BY <1>9, <3>1 DEF Then, Text
  <2>6. PICK more \in Text : Encode(s) = Then(Then(opening, s.root_hash), more)
    <3>1. PICK more \in Seq(Byte) : Encode(s) = (Opening(m) \o s.root_hash) \o more
      BY ReadableParts
    <3>. QED  BY <1>9, <3>1 DEF Then, Text
  <2>7. s.root_hash \in Text
    BY DigestType DEF Readable, Digests, Text
  <2>. HIDE DEF words, opening
  <2>8. words = opening
    <3>1. words \in Text /\ opening \in Text
      BY <2>4 DEF OfLen
    <3>2. /\ Then(Then(opening, s.root_hash), more) = Then(opening, Then(s.root_hash, more))
          /\ Then(s.root_hash, more) \in Text
      <4>1. PICK h \in Text, o \in Text : h = s.root_hash /\ o = opening
        BY <2>7, <3>1
      <4>2. Then(Then(o, h), more) = Then(o, Then(h, more)) /\ Then(h, more) \in Text
        BY ThenText
      <4>. QED  BY <4>1, <4>2, Zenon
    <3>3. Then(words, rest) = Then(opening, Then(s.root_hash, more))
      BY <2>5, <2>6, <3>2, Zenon
    <3>. DEFINE all == three + WordSize
                tail == Then(s.root_hash, more)
    <3>4. /\ all \in Nat /\ words \in OfLen(all) /\ opening \in OfLen(all)
          /\ tail \in Text /\ Then(words, rest) = Then(opening, tail)
      BY <2>1, <2>4, <3>2, <3>3
    <3>5. \A j \in Nat : \A x, y \in OfLen(j) : \A z, v \in Text :
             Then(x, z) = Then(y, v) => x = y
      BY ThenLen
    <3>. HIDE DEF all, tail
    <3>6. \A x, y \in OfLen(all) : \A z, v \in Text : Then(x, z) = Then(y, v) => x = y
      BY <3>4, <3>5
    <3>7. rest \in Text /\ tail \in Text
      BY <2>5, <3>2 DEF tail
    <3>. QED  BY <3>4, <3>6, <3>7, Zenon
  <2>9. \A k \in Nat : OfLen(k) \subseteq Text
    BY DEF OfLen
  <2>10. Then(Then(a, b), c) = Then(Then(a2, b2), c2) /\ d = b2
    BY <1>9, <2>1, <2>3, <2>8, <2>9, ThenLen DEF words, opening
  <2>11. Then(a, b) = Then(a2, b2) /\ c = c2
    BY <1>9, <2>1, <2>2, <2>9, <2>10, ThenLen
  <2>12. a = a2 /\ b = b2
    BY <1>9, <2>1, <2>9, <2>11, ThenLen
  <2>. QED  BY <2>10, <2>11, <2>12
<1>11. /\ WordOf(a) = Version /\ WordOf(b) = HashSize /\ WordOf(c) = m /\ WordOf(d) = HashSize
  BY <1>3, <1>7, <1>8, <1>10, WordKnown
<1>12. data_len = Len(Encode(s))
  BY <1>1 DEF Reads, RejectsRead, Rejects, ReadingOf
<1>13. HeaderFits(WordOf(a), WordOf(b), WordOf(c), WordOf(d))
  <2>1. U32Max \in Nat /\ HashSize \in Nat /\ HashSize % (U32Max + 1) = HashSize
    <3>1. HashSize % Place[WordSize] = HashSize /\ U32Max + 1 = Place[WordSize] /\ U32Max \in Nat
      BY <1>7, WordRange
    <3>. QED  BY <1>7, <3>1
  <2> DEFINE left == Len(Encode(s)) - 4 * WordSize
  <2>2. left >= HashSize
    <3>1. \A x, y, z, t \in Nat : x >= 5 * y + z + t => x - 4 * y >= z
      OBVIOUS
    <3>2. Len(s.root_signature) \in Nat /\ WordSize \in Nat
      BY <1>7, <2>1
    <3>. QED  BY <1>7, <2>1, <3>1, <3>2
  <2>3. (left \div WordSize) % (U32Max + 1) = left \div WordSize
    <3>1. PICK q \in 0..U32Max : q = left \div WordSize
      BY <1>7
    <3>2. q % Place[WordSize] = q /\ U32Max + 1 = Place[WordSize]
      BY <3>1, WordRange
    <3>. QED  BY <3>1, <3>2
  <2>4. m <= (left \div WordSize) % (U32Max + 1)
    BY <1>7, <2>3
  <2>. QED  BY <1>11, <1>12, <2>1, <2>2, <2>4 DEF HeaderFits, CountFits
<1>14. Reads(read, "sig") /\ n' = WordOf(c) /\ proofs' = proofs
  BY <1>1, <1>2, <1>13
<1>. QED  BY <1>4, <1>11, <1>14 DEF Reads

\* Behind the same text, the next part of a given length is the same.
LEMMA NextText ==
  \A k \in Nat : \A x, y, z \in Text : \A a, b \in OfLen(k) :
    Then(Then(x, a), y) = Then(Then(x, b), z) => a = b /\ y = z
<1> SUFFICES ASSUME NEW k \in Nat, NEW x \in Text, NEW y \in Text, NEW z \in Text,
                    NEW a \in OfLen(k), NEW b \in OfLen(k),
                    Then(Then(x, a), y) = Then(Then(x, b), z)
             PROVE  a = b /\ y = z
  OBVIOUS
<1>1. PICK l \in Nat : x \in OfLen(l)
  BY DEF OfLen, Text
<1>2. a \in Text /\ b \in Text
  BY DEF OfLen
<1>3. /\ Then(x, Then(a, y)) = Then(x, Then(b, z))
      /\ Then(a, y) \in Text /\ Then(b, z) \in Text
  BY <1>2, ThenText
<1>4. Then(a, y) = Then(b, z)
  BY <1>1, <1>3, ThenLen
<1>. QED  BY <1>4, ThenLen

\* The root hash read from the file of s is that of s.
LEMMA RootHashAgrees ==
  ASSUME TypeOK, TextInv, RootHash, NEW s, Readable(s), ReadingOf(s)', ReadingOf(s) => Agrees(s)
  PROVE  Agrees(s)'
<1>1. PICK bytes \in Bytes(HashSize) : Reads(bytes, "root_sig") /\ root_hash' = bytes
  BY DEF RootHash
<1>2. /\ pc = "root_hash" /\ UNCHANGED <<n, root_signature, proofs>> /\ bytes \in Digests
      /\ pc' = "root_sig" /\ data' = data \o bytes /\ oom' = oom /\ data_len' = data_len
  BY <1>1 DEF RootHash, Reads, Digests
<1>3. /\ data \in Seq(Byte) /\ data = Opening(n) /\ bytes \in Seq(Byte) /\ Len(bytes) = HashSize
  BY <1>2, DigestType DEF TypeOK, TextInv, Byte
<1>4. ReadingOf(s) /\ \E rest \in Seq(Byte) : Encode(s) = (data \o bytes) \o rest
  BY <1>2, <1>3, ReadMore
<1>5. Agrees(s) /\ n = Len(s.proofs)
  BY <1>2, <1>4 DEF Agrees
<1>6. PICK rest \in Seq(Byte) : Encode(s) = (data \o bytes) \o rest
  BY <1>4
<1>7. PICK more \in Seq(Byte) : Encode(s) = (data \o s.root_hash) \o more
  BY <1>3, <1>5, ReadableParts
<1>8. s.root_hash \in Seq(Byte) /\ Len(s.root_hash) = HashSize
  BY DigestType DEF Readable, Digests
<1>9. bytes = s.root_hash
  <2>1. bytes \in OfLen(HashSize) /\ s.root_hash \in OfLen(HashSize)
    BY <1>3, <1>8 DEF OfLen, Text
  <2>2. data \in Text /\ rest \in Text /\ more \in Text
    BY <1>3 DEF Text
  <2>3. Then(Then(data, bytes), rest) = Then(Then(data, s.root_hash), more)
    BY <1>6, <1>7 DEF Then
  <2>4. HashSize \in Nat
    OBVIOUS
  <2>. QED  BY <2>1, <2>2, <2>3, <2>4, NextText
<1>. QED  BY <1>1, <1>2, <1>5, <1>9 DEF Agrees

\* So is the root signature, its length first.
LEMMA RootSigAgrees ==
  ASSUME TypeOK, TextInv, RootSig, NEW s, Readable(s), ReadingOf(s)', ReadingOf(s) => Agrees(s)
  PROVE  Agrees(s)'
<1>1. PICK word \in Words :
        \E bytes \in Bytes(WordOf(word)) : Reads(word \o bytes, "arrays") /\ root_signature' = bytes
  BY DEF RootSig
<1>2. PICK bytes \in Bytes(WordOf(word)) :
        Reads(word \o bytes, "arrays") /\ root_signature' = bytes
  BY <1>1
<1>3. /\ pc = "root_sig" /\ UNCHANGED <<n, root_hash, proofs>>
      /\ pc' = "arrays" /\ data' = data \o (word \o bytes) /\ oom' = oom /\ data_len' = data_len
  BY <1>2 DEF RootSig, Reads
<1>4. /\ word \in Seq(Byte) /\ Len(word) = WordSize /\ word = WordBytes(WordOf(word))
      /\ WordOf(word) \in Nat
  BY WordType DEF Byte
<1>5. /\ data \in Seq(Byte) /\ data = Hashed(n, root_hash) /\ bytes \in Seq(Byte)
      /\ Len(bytes) = WordOf(word)
  BY <1>3, <1>4, BytesType DEF TypeOK, TextInv, Byte
<1>6. ReadingOf(s) /\ \E rest \in Seq(Byte) : Encode(s) = (data \o (word \o bytes)) \o rest
  <2>1. word \o bytes \in Seq(Byte)
    BY <1>4, <1>5, Joined
  <2>. QED  BY <1>3, <1>5, <2>1, ReadMore
<1>7. Agrees(s) /\ n = Len(s.proofs) /\ root_hash = s.root_hash
  BY <1>3, <1>6 DEF Agrees
<1>8. PICK rest \in Seq(Byte) : Encode(s) = (data \o (word \o bytes)) \o rest
  BY <1>6
<1>. DEFINE sign == s.root_signature
<1>9. PICK more \in Seq(Byte) :
        Encode(s) = (data \o WordBytes(Len(sign))) \o (sign \o more)
  BY <1>5, <1>7, ReadableParts
<1>10. /\ sign \in Seq(Byte) /\ Len(sign) \in 0..U32Max
       /\ WordBytes(Len(sign)) \in Seq(Byte) /\ Len(WordBytes(Len(sign))) = WordSize
  <2>1. Len(sign) \in 0..U32Max
    BY ReadableParts
  <2>2. sign \in Seq(Payload) /\ Payload \subseteq Byte
    BY DEF Readable, Digests, Byte
  <2>3. Len(sign) \in Nat
    BY <2>2
  <2>4. PICK v \in Nat : v = Len(sign)
    BY <2>3
  <2>5. WordBytes(v) \in Seq(Byte) /\ Len(WordBytes(v)) = WordSize
    BY BytesOfWord DEF Byte
  <2>6. sign \in Seq(Byte)
    BY <2>2, PayloadBytes
  <2>. QED  BY <2>1, <2>4, <2>5, <2>6
<1>11. /\ Encode(s) = (data \o word) \o (bytes \o rest)
       /\ bytes \o rest \in Seq(Byte) /\ sign \o more \in Seq(Byte)
  <2>1. data \in Text /\ word \in Text /\ bytes \in Text /\ rest \in Text /\ sign \in Text /\ more \in Text
    BY <1>4, <1>5, <1>10 DEF Text
  <2>2. Encode(s) = Then(Then(data, Then(word, bytes)), rest)
    BY <1>8 DEF Then
  <2>3. Encode(s) = Then(Then(data, word), Then(bytes, rest))
    BY <2>1, <2>2, ThenText
  <2>4. Then(bytes, rest) \in Text /\ Then(sign, more) \in Text
    BY <2>1, ThenText
  <2>. QED  BY <2>3, <2>4 DEF Then, Text
<1>12. word = WordBytes(Len(sign)) /\ bytes \o rest = sign \o more
  <2>. HIDE DEF sign
  <2>. DEFINE v == WordBytes(Len(sign))
              y == bytes \o rest
              z == sign \o more
  <2>1. word \in OfLen(WordSize) /\ v \in OfLen(WordSize)
    BY <1>4, <1>10 DEF OfLen, Text
  <2>2. data \in Text /\ y \in Text /\ z \in Text
    BY <1>5, <1>11 DEF Text
  <2>3. Then(Then(data, word), y) = Then(Then(data, v), z)
    BY <1>9, <1>11 DEF Then
  <2>4. WordSize \in Nat
    OBVIOUS
  <2>. HIDE DEF v, y, z
  <2>5. word = v /\ y = z
    BY <2>1, <2>2, <2>3, <2>4, NextText
  <2>. QED  BY <2>5 DEF v, y, z
<1>13. Len(bytes) = Len(sign)
  BY <1>5, <1>10, <1>12, WordInverse
<1>14. bytes = sign
  <2>. HIDE DEF sign
  <2>. QED  BY <1>5, <1>10, <1>12, <1>13, Splits
<1>. QED  BY <1>2, <1>3, <1>7, <1>14 DEF Agrees

\* So is the length of the next path.
LEMMA PathAgrees ==
  ASSUME TypeOK, TextInv, AllocateProof, NEW s, Readable(s), ReadingOf(s)', ReadingOf(s) => Agrees(s)
  PROVE  Agrees(s)'
<1>1. PICK word \in Words : Reads(word, "sibling") /\ proof_len' = WordOf(word)
  BY DEF AllocateProof
<1>2. /\ pc = "proof_len" /\ UNCHANGED <<n, root_hash, root_signature, proofs, siblings>>
      /\ pc' = "sibling" /\ data' = data \o word /\ oom' = oom /\ data_len' = data_len
      /\ siblings = <<>> /\ Len(proofs) < n
  BY <1>1 DEF AllocateProof, Reads, TypeOK, Fresh
<1>3. word \in Seq(Byte) /\ Len(word) = WordSize /\ data \in Seq(Byte) /\ data = SoFar
  BY <1>2, WordType DEF TypeOK, TextInv, Byte
<1>4. ReadingOf(s) /\ \E rest \in Seq(Byte) : Encode(s) = (data \o word) \o rest
  BY <1>2, <1>3, ReadMore
<1>5. Agrees(s)
  BY <1>4
<1>. DEFINE p == s.proofs[Len(proofs) + 1]
<1>6. /\ p \in Seq(Digests) /\ Len(p) \in 0..U32Max
      /\ \E rest \in Seq(Byte) : Encode(s) = (SoFar \o WordBytes(Len(p))) \o (FlattenSeq(p) \o rest)
  BY <1>2, <1>4, <1>5, AtPath
<1>7. PICK rest \in Seq(Byte) : Encode(s) = (data \o word) \o rest
  BY <1>4
<1>8. PICK more \in Seq(Byte) : Encode(s) = (data \o WordBytes(Len(p))) \o (FlattenSeq(p) \o more)
  BY <1>3, <1>6
<1>9. /\ WordBytes(Len(p)) \in Seq(Byte) /\ Len(WordBytes(Len(p))) = WordSize
      /\ FlattenSeq(p) \o more \in Seq(Byte)
  <2>1. Len(p) \in Nat
    BY <1>6
  <2>2. FlattenSeq(p) \in Seq(Byte)
    BY <1>6, ProofBytesType
  <2>3. FlattenSeq(p) \o more \in Seq(Byte)
    BY <2>2, Joined
  <2>. QED  BY <2>1, <2>3, BytesOfWord DEF Byte
<1>. HIDE DEF p
<1>10. word = WordBytes(Len(p))
  <2>. DEFINE v == WordBytes(Len(p))
              z == FlattenSeq(p) \o more
  <2>1. word \in OfLen(WordSize) /\ v \in OfLen(WordSize)
    BY <1>3, <1>9 DEF OfLen, Text
  <2>2. data \in Text /\ rest \in Text /\ z \in Text
    BY <1>3, <1>9 DEF Text
  <2>3. Then(Then(data, word), rest) = Then(Then(data, v), z)
    BY <1>7, <1>8 DEF Then
  <2>4. WordSize \in Nat
    OBVIOUS
  <2>. HIDE DEF v, z
  <2>5. word = v
    BY <2>1, <2>2, <2>3, <2>4, NextText
  <2>. QED  BY <2>5 DEF v
<1>11. proof_len' = Len(p)
  BY <1>1, <1>6, <1>10, WordKnown
<1>12. siblings' = SubSeq(p, 1, Len(siblings'))
  <2>1. SubSeq(p, 1, 0) = <<>> /\ Len(<<>>) = 0
    BY <1>6, FirstOnes
  <2>. QED  BY <1>2, <2>1
<1>. QED  BY <1>2, <1>5, <1>11, <1>12 DEF Agrees, p

\* So is the next digest of a path.
LEMMA SiblingAgrees ==
  ASSUME TypeOK, TextInv, TakeSibling, NEW s, Readable(s), ReadingOf(s)', ReadingOf(s) => Agrees(s)
  PROVE  Agrees(s)'
<1>1. PICK bytes \in Bytes(HashSize) : Reads(bytes, "sibling") /\ siblings' = Append(siblings, bytes)
  BY DEF TakeSibling
<1>2. /\ pc = "sibling" /\ UNCHANGED <<n, root_hash, root_signature, proofs, proof_len>>
      /\ pc' = "sibling" /\ data' = data \o bytes /\ oom' = oom /\ data_len' = data_len
      /\ Len(siblings) < proof_len /\ Len(proofs) < n /\ bytes \in Digests
      /\ siblings \in Seq(Digests)
  BY <1>1 DEF TakeSibling, Reads, TypeOK, Digests
<1>. DEFINE j == Len(siblings)
           p == s.proofs[Len(proofs) + 1]
           first == FlattenSeq(siblings)
           before == SoFar \o WordBytes(proof_len)
<1>3. /\ bytes \in Seq(Byte) /\ Len(bytes) = HashSize /\ data \in Seq(Byte)
      /\ data = before \o first /\ j \in Nat
  <2>1. data \in Seq(Byte) /\ j \in Nat
    BY <1>2 DEF TypeOK, Byte
  <2>2. data = before \o first
    BY <1>2 DEF TextInv
  <2>3. bytes \in Seq(Byte) /\ Len(bytes) = HashSize
    BY <1>2, DigestType
  <2>. QED  BY <2>1, <2>2, <2>3
<1>4. ReadingOf(s) /\ \E rest \in Seq(Byte) : Encode(s) = (data \o bytes) \o rest
  <2>. HIDE DEF before, first
  <2>. QED  BY <1>2, <1>3, ReadMore
<1>5. Agrees(s) /\ proof_len = Len(p) /\ siblings = SubSeq(p, 1, j)
  BY <1>2, <1>4 DEF Agrees
<1>6. /\ p \in Seq(Digests) /\ SoFar \in Seq(Byte) /\ Len(p) \in 0..U32Max
      /\ \E rest \in Seq(Byte) : Encode(s) = (SoFar \o WordBytes(Len(p))) \o (FlattenSeq(p) \o rest)
  BY <1>2, <1>4, <1>5, AtPath
<1>7. PICK rest \in Seq(Byte) : Encode(s) = (data \o bytes) \o rest
  BY <1>4
<1>8. PICK more \in Seq(Byte) : Encode(s) = before \o (FlattenSeq(p) \o more)
  BY <1>5, <1>6
<1>9. p[j + 1] \in Digests /\ p[j + 1] \in Seq(Byte) /\ Len(p[j + 1]) = HashSize /\ j < Len(p)
      /\ SubSeq(p, 1, j + 1) = Append(siblings, p[j + 1]) /\ p \in Seq(Seq(Byte))
  <2>1. j < Len(p) /\ j \in 0..(Len(p) - 1) /\ j + 1 \in 1..Len(p)
    <3>1. j < proof_len
      BY <1>2
    <3>. HIDE DEF p, j, first, before
    <3>2. j < Len(p)
      BY <1>5, <3>1
    <3>3. \A k \in 0..U32Max : k \in Nat
      OBVIOUS
    <3>4. Len(p) \in Nat /\ j \in Nat
      BY <1>3, <1>6, <3>3, Zenon
    <3>. QED  BY <3>2, <3>4, NextIndex
  <2>2. SubSeq(p, 1, j + 1) = Append(SubSeq(p, 1, j), p[j + 1])
    BY <1>6, <2>1, FirstOnes
  <2>3. p[j + 1] \in Digests
    BY <1>6, <2>1
  <2>4. p \in Seq(Seq(Byte))
    BY <1>6, ProofBytesType
  <2>. HIDE DEF p, j
  <2>. QED  BY <1>5, <2>1, <2>2, <2>3, <2>4, DigestType
<1>10. PICK tail \in Seq(Byte) : FlattenSeq(p) = (first \o p[j + 1]) \o tail
  <2>1. \E tail \in Seq(Byte) : FlattenSeq(p) = (FlattenSeq(SubSeq(p, 1, j)) \o p[j + 1]) \o tail
    <3>. HIDE DEF p, j
    <3>. QED  BY <1>3, <1>9, FlattenStarts
  <2>. QED  BY <1>5, <2>1
<1>11. first \in Seq(Byte) /\ before \in Seq(Byte)
  <2>1. first \in Seq(Byte)
    BY <1>2, ProofBytesType
  <2>2. WordBytes(proof_len) \in Seq(Byte)
    BY BytesOfWord DEF TypeOK, Byte
  <2>. QED  BY <1>6, <2>1, <2>2, Joined
<1>. HIDE DEF p, first, before, j
<1>12. /\ Encode(s) = (data \o p[j + 1]) \o (tail \o more)
       /\ tail \o more \in Seq(Byte)
  <2>. DEFINE q == p[j + 1]
  <2>1. /\ before \in Text /\ first \in Text /\ q \in Text /\ tail \in Text /\ more \in Text
    BY <1>9, <1>11 DEF Text
  <2>2. Encode(s) = Then(before, Then(Then(Then(first, q), tail), more)) /\ data = Then(before, first)
    BY <1>3, <1>8, <1>10 DEF Then
  <2>. HIDE DEF q
  <2>3. Then(first, q) \in Text /\ Then(tail, more) \in Text /\ Then(q, Then(tail, more)) \in Text
    BY <2>1, ThenText
  <2>4. Then(Then(Then(first, q), tail), more) = Then(first, Then(q, Then(tail, more)))
    BY <2>1, <2>3, ThenText
  <2>5. Encode(s) = Then(data, Then(q, Then(tail, more)))
    BY <2>1, <2>2, <2>3, <2>4, ThenText
  <2>6. data \in Text
    BY <1>3 DEF Text
  <2>7. Encode(s) = Then(Then(data, q), Then(tail, more))
    BY <2>1, <2>3, <2>5, <2>6, ThenText
  <2>. QED  BY <2>3, <2>7 DEF Then, Text, q
<1>13. bytes = p[j + 1]
  <2>. DEFINE q == p[j + 1]
              z == tail \o more
  <2>1. bytes \in OfLen(HashSize) /\ q \in OfLen(HashSize)
    BY <1>3, <1>9 DEF OfLen, Text
  <2>2. data \in Text /\ rest \in Text /\ z \in Text
    BY <1>3, <1>12 DEF Text
  <2>3. Then(Then(data, bytes), rest) = Then(Then(data, q), z)
    BY <1>7, <1>12 DEF Then
  <2>4. HashSize \in Nat
    OBVIOUS
  <2>. HIDE DEF q, z
  <2>5. bytes = q
    BY <2>1, <2>2, <2>3, <2>4, NextText
  <2>. QED  BY <2>5 DEF q
<1>14. siblings' = SubSeq(p, 1, j + 1) /\ Len(siblings') = j + 1
  <2>1. siblings' = SubSeq(p, 1, j + 1)
    BY <1>1, <1>9, <1>13
  <2>2. j + 1 \in 0..Len(p)
    BY <1>3, <1>6, <1>9
  <2>. QED  BY <1>6, <2>1, <2>2, FirstOnes
<1>. QED  BY <1>2, <1>5, <1>14 DEF Agrees, p

\* What is read next is still to come.
LEMMA StillToCome ==
  ASSUME data \in Seq(Byte), NEW u \in Seq(Byte), NEW v \in Seq(Byte), NEW rest \in Seq(Byte),
         data_len = Len((data \o u) \o (v \o rest))
  PROVE  Left >= Len(u) + Len(v)
<1>1. data \o u \in Seq(Byte) /\ Len(data \o u) = Len(data) + Len(u)
  BY Joined
<1>2. v \o rest \in Seq(Byte) /\ Len(v \o rest) = Len(v) + Len(rest)
  BY Joined
<1>3. Len((data \o u) \o (v \o rest)) = Len(data \o u) + Len(v \o rest)
  BY <1>1, <1>2, Joined
<1>4. Len(data) \in Nat /\ Len(u) \in Nat /\ Len(v) \in Nat /\ Len(rest) \in Nat
  OBVIOUS
<1>. QED  BY <1>1, <1>2, <1>3, <1>4 DEF Left

\* A word that stands where a number was written is that number.
LEMMA WordThere ==
  ASSUME data \in Seq(Byte), NEW word \in Words, NEW v \in 0..U32Max, NEW rest \in Seq(Byte),
         NEW more \in Seq(Byte), (data \o word) \o rest = (data \o WordBytes(v)) \o more
  PROVE  WordOf(word) = v
<1>1. word \in Seq(Byte) /\ Len(word) = WordSize
  BY WordType DEF Byte
<1>2. v \in Nat /\ WordSize \in Nat
  BY WordRange
<1>3. WordBytes(v) \in Seq(Byte) /\ Len(WordBytes(v)) = WordSize
  BY <1>2, BytesOfWord DEF Byte
<1>4. word \in OfLen(WordSize) /\ WordBytes(v) \in OfLen(WordSize)
  BY <1>1, <1>3 DEF OfLen, Text
<1>5. data \in Text /\ rest \in Text /\ more \in Text
  BY DEF Text
<1>6. Then(Then(data, word), rest) = Then(Then(data, WordBytes(v)), more)
  BY DEF Then
<1>7. word = WordBytes(v)
  BY <1>2, <1>4, <1>5, <1>6, NextText
<1>. QED  BY <1>7, WordKnown

\* A step that reads nothing leaves the file as far as it was read.
LEMMA ReadNothing ==
  ASSUME NEW s, ReadingOf(s)', data' = data, oom' = oom, data_len' = data_len
  PROVE  ReadingOf(s)
BY DEF ReadingOf

\* Before anything is read there is nothing to disagree on.
LEMMA NothingReadAgrees ==
  ASSUME NEW s, Readable(s), pc' \in {"idle", "header"}, proofs' = <<>>
  PROVE  Agrees(s)'
<1>1. s.proofs \in Seq(Seq(Digests))
  BY DEF Readable, Digests
<1>2. SubSeq(s.proofs, 1, 0) = <<>> /\ Len(s.proofs) \in Nat /\ Len(<<>>) = 0
  BY <1>1, FirstOnes
<1>. QED  BY <1>2 DEF Agrees

\* The root signature is there.
LEMMA RootSigThere ==
  ASSUME TypeOK, TextInv, RootSigShort, NEW s, Readable(s), ReadingOf(s)',
         ReadingOf(s) => Agrees(s)
  PROVE  FALSE
<1>1. PICK bytes : /\ RejectsRead(Struct, bytes)
                   /\ \/ bytes = <<>> /\ Left < WordSize
                      \/ bytes \in Words /\ ~RootSigFits(bytes)
  BY DEF RootSigShort
<1>2. /\ pc = "root_sig" /\ data' = data \o bytes /\ oom' = oom /\ data_len' = data_len
  BY <1>1 DEF RootSigShort, RejectsRead, Rejects
<1>3. bytes \in Seq(Byte)
  <2>1. <<>> \in Seq(Byte)
    OBVIOUS
  <2>2. ASSUME bytes \in Words PROVE bytes \in Seq(Byte)
    BY <2>2, WordType DEF Byte
  <2>. QED  BY <1>1, <2>1, <2>2
<1>4. data \in Seq(Byte) /\ data = Hashed(n, root_hash)
  BY <1>2 DEF TypeOK, TextInv, Byte
<1>5. ReadingOf(s) /\ \E rest \in Seq(Byte) : Encode(s) = (data \o bytes) \o rest
  BY <1>2, <1>3, <1>4, ReadMore
<1>6. n = Len(s.proofs) /\ root_hash = s.root_hash /\ data_len = Len(Encode(s))
  BY <1>2, <1>5 DEF Agrees, ReadingOf
<1> DEFINE sign == s.root_signature
<1>7. PICK more \in Seq(Byte) : Encode(s) = (data \o WordBytes(Len(sign))) \o (sign \o more)
  BY <1>4, <1>6, ReadableParts
<1>8. /\ Len(sign) \in 0..U32Max /\ sign \in Seq(Byte)
  BY ReadableParts, PayloadBytes DEF Readable, Digests
<1>9. PICK v \in 0..U32Max : v = Len(sign)
  BY <1>8
<1>10. WordBytes(v) \in Seq(Byte) /\ Len(WordBytes(v)) = WordSize
  <2>1. v \in Nat
    BY WordRange
  <2>. QED  BY <2>1, BytesOfWord DEF Byte
<1>. HIDE DEF sign
<1>11. Left >= WordSize + v
  BY <1>4, <1>6, <1>7, <1>8, <1>9, <1>10, StillToCome
<1>12. ASSUME bytes \in Words PROVE WordOf(bytes) = v
  <2>1. PICK rest \in Seq(Byte) : Encode(s) = (data \o bytes) \o rest
    BY <1>5
  <2>2. sign \o more \in Seq(Byte)
    BY <1>8, Joined
  <2>3. (data \o bytes) \o rest = (data \o WordBytes(v)) \o (sign \o more)
    BY <1>7, <1>9, <2>1
  <2>. QED  BY <1>4, <1>12, <2>2, <2>3, WordThere
<1>13. v \in Nat /\ WordSize \in Nat /\ Left \in Int
  BY WordRange DEF TypeOK, Left
<1>. QED  BY <1>1, <1>11, <1>12, <1>13 DEF RootSigFits

\* The next path is there.
LEMMA PathThere ==
  ASSUME TypeOK, TextInv, ProofShort, NEW s, Readable(s), ReadingOf(s)',
         ReadingOf(s) => Agrees(s)
  PROVE  FALSE
<1>1. PICK bytes : /\ RejectsRead(Built, bytes)
                   /\ \/ bytes = <<>> /\ Left < WordSize
                      \/ bytes \in Words /\ ~PathFits(bytes)
  BY DEF ProofShort
<1>2. /\ pc = "proof_len" /\ Len(proofs) < n
      /\ data' = data \o bytes /\ oom' = oom /\ data_len' = data_len
  BY <1>1 DEF ProofShort, RejectsRead, Rejects
<1>3. bytes \in Seq(Byte)
  <2>1. <<>> \in Seq(Byte)
    OBVIOUS
  <2>2. ASSUME bytes \in Words PROVE bytes \in Seq(Byte)
    BY <2>2, WordType DEF Byte
  <2>. QED  BY <1>1, <2>1, <2>2
<1>4. data \in Seq(Byte) /\ data = SoFar
  BY <1>2 DEF TypeOK, TextInv, Byte
<1>5. ReadingOf(s) /\ \E rest \in Seq(Byte) : Encode(s) = (data \o bytes) \o rest
  BY <1>2, <1>3, <1>4, ReadMore
<1>6. Agrees(s) /\ data_len = Len(Encode(s))
  BY <1>5 DEF ReadingOf
<1> DEFINE p == s.proofs[Len(proofs) + 1]
           flat == FlattenSeq(p)
<1>7. /\ p \in Seq(Digests) /\ Len(p) \in 0..U32Max /\ MulFits(Len(p), PtrSize)
      /\ \E more \in Seq(Byte) : Encode(s) = (data \o WordBytes(Len(p))) \o (flat \o more)
  BY <1>2, <1>4, <1>5, <1>6, AtPath
<1>8. PICK more \in Seq(Byte) : Encode(s) = (data \o WordBytes(Len(p))) \o (flat \o more)
  BY <1>7
<1>9. PICK v \in 0..U32Max : v = Len(p)
  BY <1>7
<1>10. v \in Nat /\ WordBytes(v) \in Seq(Byte) /\ Len(WordBytes(v)) = WordSize
  <2>1. v \in Nat
    BY WordRange
  <2>. QED  BY <2>1, BytesOfWord DEF Byte
<1>. HIDE DEF p
<1>11. flat \in Seq(Byte) /\ Len(flat) = v * HashSize /\ v * HashSize \in Nat
  <2>1. flat \in Seq(Byte) /\ p \in Seq(Seq(Byte)) /\ Len(p) * HashSize \in Nat
    BY <1>7, ProofBytesType
  <2>2. \A i \in 1..Len(p) : Len(p[i]) = HashSize
    BY <1>7, DigestType
  <2>3. Len(flat) = Len(p) * HashSize
    BY <2>1, <2>2, FlattenLen
  <2>. QED  BY <1>9, <2>1, <2>3
<1>. HIDE DEF flat
<1>12. Left >= WordSize + v * HashSize
  BY <1>4, <1>6, <1>8, <1>9, <1>10, <1>11, StillToCome
<1>13. ASSUME bytes \in Words PROVE WordOf(bytes) = v
  <2>1. PICK rest \in Seq(Byte) : Encode(s) = (data \o bytes) \o rest
    BY <1>5
  <2>2. flat \o more \in Seq(Byte)
    BY <1>11, Joined
  <2>3. (data \o bytes) \o rest = (data \o WordBytes(v)) \o (flat \o more)
    BY <1>8, <1>9, <2>1
  <2>. QED  BY <1>4, <1>13, <2>2, <2>3, WordThere
<1>14. MulFits(v, PtrSize) /\ MulFits(v, HashSize)
  <2>1. PICK a \in Nat : a = v * HashSize
    BY <1>11
  <2>2. data_len <= SizeMax /\ data_len \in Nat /\ Len(data) \in Nat
    BY DEF TypeOK, TextInv
  <2>3. a <= SizeMax
    BY <1>12, <2>1, <2>2 DEF Left
  <2>. QED  BY <1>7, <1>9, <2>1, <2>3 DEF MulFits
<1>15. Left \in Int /\ WordSize \in Nat /\ ~(Left < WordSize)
  <2>1. PICK a \in Nat : a = v * HashSize
    BY <1>11
  <2>2. Left \in Int /\ WordSize \in Nat
    BY DEF TypeOK, Left
  <2>. QED  BY <1>12, <2>1, <2>2
<1>. QED  BY <1>1, <1>12, <1>13, <1>14, <1>15 DEF PathFits

\* Nothing is left over.
LEMMA NothingTrails ==
  ASSUME TypeOK, TextInv, pc = "proof_len", Len(proofs) = n, NEW s, Readable(s), ReadingOf(s),
         Agrees(s)
  PROVE  Left = 0
<1>1. /\ n = Len(s.proofs) /\ root_hash = s.root_hash /\ root_signature = s.root_signature
      /\ proofs = SubSeq(s.proofs, 1, Len(proofs)) /\ data_len = Len(Encode(s))
  BY DEF Agrees, ReadingOf
<1>2. proofs = s.proofs
  <2>1. s.proofs \in Seq(Seq(Digests))
    BY DEF Readable, Digests
  <2>2. SubSeq(s.proofs, 1, Len(s.proofs)) = s.proofs
    BY <2>1, FirstOnes
  <2>. QED  BY <1>1, <2>2
<1>3. data = File(Len(s.proofs), s.root_hash, s.root_signature, s.proofs)
  BY <1>1, <1>2 DEF TextInv, SoFar
<1>4. data = Encode(s)
  BY <1>3, ReadableParts
<1>. QED  BY <1>1, <1>4 DEF Left, TypeOK

\* The path that was read is the next one of s.
LEMMA PathDone ==
  ASSUME TypeOK, ProofDone, NEW s, Readable(s), ReadingOf(s), Agrees(s)
  PROVE  Agrees(s)'
<1>1. /\ pc = "sibling" /\ pc' = "proof_len" /\ Len(siblings) = proof_len
      /\ proofs' = Append(proofs, siblings)
      /\ UNCHANGED <<n, root_hash, root_signature>>
  BY DEF ProofDone, Reads
<1> DEFINE k == Len(proofs)
           p == s.proofs[k + 1]
<1>2. /\ n = Len(s.proofs) /\ root_hash = s.root_hash /\ root_signature = s.root_signature
      /\ proofs = SubSeq(s.proofs, 1, k) /\ proof_len = Len(p)
      /\ siblings = SubSeq(p, 1, Len(siblings))
  BY <1>1 DEF Agrees
<1>3. k \in 0..(Len(s.proofs) - 1) /\ k + 1 \in 1..Len(s.proofs) /\ k + 1 \in 0..Len(s.proofs)
  <2>1. k \in Nat /\ n \in Nat /\ k < n
    BY <1>1 DEF TypeOK
  <2>. QED  BY <1>2, <2>1
<1>4. s.proofs \in Seq(Seq(Digests)) /\ p \in Seq(Digests)
  BY <1>3 DEF Readable, Digests
<1>. HIDE DEF k, p
<1>5. siblings = p
  <2>1. SubSeq(p, 1, Len(p)) = p
    BY <1>4, FirstOnes
  <2>. QED  BY <1>1, <1>2, <2>1
<1>6. proofs' = SubSeq(s.proofs, 1, k + 1) /\ Len(SubSeq(s.proofs, 1, k + 1)) = k + 1
  <2>1. /\ SubSeq(s.proofs, 1, k + 1) = Append(SubSeq(s.proofs, 1, k), s.proofs[k + 1])
        /\ Len(SubSeq(s.proofs, 1, k + 1)) = k + 1
    BY <1>3, <1>4, FirstOnes
  <2>. QED  BY <1>1, <1>2, <1>5, <2>1 DEF p
<1>7. Len(proofs') <= Len(s.proofs) /\ proofs' = SubSeq(s.proofs, 1, Len(proofs'))
  BY <1>3, <1>6
<1>. QED  BY <1>1, <1>2, <1>7 DEF Agrees

\* Every step that goes on reading the file of s goes on decoding s.
LEMMA ReadNext == TypeOK /\ TextInv /\ ReadInv /\ [Next]_vars => ReadInv'
<1> SUFFICES ASSUME TypeOK, TextInv, ReadInv, [Next]_vars,
                    NEW s \in Signed, Readable(s), ReadingOf(s)'
             PROVE  Agrees(s)'
  BY DEF ReadInv
<1>0. ReadingOf(s) => Agrees(s)
  BY DEF ReadInv
<1>n. pc \in {"idle", "header", "rejected"} => proofs = <<>>
  BY DEF TypeOK
<1>1. CASE \E len \in DataLens : Deserialize(len)
  <2>1. pc' = "header" /\ proofs' = <<>>
    BY <1>1, <1>n DEF Deserialize, sig
  <2>. QED  BY <2>1, NothingReadAgrees
<1>2. CASE Header
  <2>1. pc' = "sig" /\ n' = Len(s.proofs) /\ proofs' = <<>>
    BY <1>2, HeaderAgrees
  <2>2. SubSeq(s.proofs, 1, 0) = <<>> /\ Len(s.proofs) \in Nat /\ Len(<<>>) = 0
    <3>1. s.proofs \in Seq(Seq(Digests))
      BY DEF Readable, Digests
    <3>. QED  BY <3>1, FirstOnes
  <2>. QED  BY <2>1, <2>2 DEF Agrees
<1>3. CASE RootHash
  BY <1>0, <1>3, RootHashAgrees
<1>4. CASE RootSig
  BY <1>0, <1>4, RootSigAgrees
<1>5. CASE AllocateProof
  BY <1>0, <1>5, PathAgrees
<1>6. CASE TakeSibling
  BY <1>0, <1>6, SiblingAgrees
<1>7. CASE AllocateSig \/ AllocateArrays \/ ArraysDone \/ Accept
  <2>1. /\ pc \in {"sig", "arrays", "arrays_done", "proof_len"}
        /\ pc = "sig" => pc' = "root_hash"
        /\ pc = "arrays" => pc' = "arrays_done"
        /\ pc = "arrays_done" => pc' = "proof_len"
        /\ pc = "proof_len" => pc' = "decoded"
        /\ \E next : Reads(<<>>, next)
        /\ UNCHANGED sig
    BY <1>7 DEF AllocateSig, AllocateArrays, ArraysDone, Accept, Reads
  <2>2. data' = data /\ oom' = oom /\ data_len' = data_len
    BY <2>1, ReadingNothing
  <2>3. Agrees(s)
    BY <1>0, <2>2, ReadNothing
  <2>. QED  BY <2>1, <2>3 DEF Agrees, sig
<1>8. CASE ProofDone
  <2>1. data' = data /\ oom' = oom /\ data_len' = data_len
    BY <1>8, ReadingNothing DEF ProofDone
  <2>2. ReadingOf(s)
    BY <2>1, ReadNothing
  <2>. QED  BY <1>0, <1>8, <2>2, PathDone
<1>9. CASE \/ AllocateSigFails \/ RootHashFails \/ RootSigFails \/ AllocateArraysFails
           \/ AllocateProofFails \/ TakeSiblingFails
  <2>1. oom'
    BY <1>9 DEF AllocateSigFails, RootHashFails, RootSigFails, AllocateArraysFails,
                AllocateProofFails, TakeSiblingFails, RunsOut
  <2>. QED  BY <2>1 DEF ReadingOf
<1>10. CASE HeaderShort
  <2>1. data_len' = data_len /\ data = <<>> /\ Left < 4 * WordSize
    BY <1>10 DEF HeaderShort, RejectsRead, Rejects, TypeOK
  <2>2. data_len = Len(Encode(s))
    BY <2>1 DEF ReadingOf
  <2>3. /\ Len(Encode(s)) >= 5 * WordSize + HashSize + Len(s.root_signature)
        /\ Len(s.root_signature) \in 0..U32Max
    BY ReadableParts
  <2>4. Left = data_len /\ data_len \in Nat
    BY <2>1 DEF Left, TypeOK
  <2>5. U32Max \in Nat /\ WordSize \in Nat /\ HashSize \in Nat
    BY WordRange
  <2>6. \A x, y, z \in Nat : \A t \in 0..U32Max : x >= 5 * y + z + t => ~(x < 4 * y)
    BY <2>5
  <2>. QED  BY <2>1, <2>2, <2>3, <2>4, <2>5, <2>6
<1>11. CASE RootSigShort
  BY <1>0, <1>11, RootSigThere
<1>12. CASE ArraysTooLarge
  <2>1. RejectsRead(Struct, <<>>) /\ pc = "arrays" /\ ~MulFits(n, PtrSize)
    BY <1>12 DEF ArraysTooLarge
  <2>2. data' = data \o <<>> /\ oom' = oom /\ data_len' = data_len /\ data \in Seq(Byte)
    BY <2>1 DEF RejectsRead, Rejects, TypeOK, Byte
  <2>3. data' = data
    BY <2>2, ConcatEmptySeq
  <2>4. n = Len(s.proofs)
    BY <1>0, <2>1, <2>2, <2>3, ReadNothing DEF Agrees
  <2>. QED  BY <2>1, <2>4 DEF Readable, Digests
<1>13. CASE ProofShort
  BY <1>0, <1>13, PathThere
<1>14. CASE Trailing
  <2>1. RejectsRead(Built, <<>>) /\ pc = "proof_len" /\ Len(proofs) = n /\ Left # 0
    BY <1>14 DEF Trailing
  <2>2. data' = data \o <<>> /\ oom' = oom /\ data_len' = data_len /\ data \in Seq(Byte)
    BY <2>1 DEF RejectsRead, Rejects, TypeOK, Byte
  <2>3. data' = data
    BY <2>2, ConcatEmptySeq
  <2>4. ReadingOf(s)
    BY <2>2, <2>3, ReadNothing
  <2>. QED  BY <1>0, <2>1, <2>4, NothingTrails
<1>15. CASE \E room \in {NoRoom, data_len - 1, data_len} : Serialize(room)
  <2>1. UNCHANGED <<pc, data_len, data, sig, oom>>
    BY <1>15 DEF Serialize
  <2>2. Agrees(s)
    BY <1>0, <2>1, ReadNothing
  <2>. QED  BY <2>1, <2>2 DEF Agrees, sig
<1>16. CASE Free
  <2>1. pc' = "idle" /\ proofs' = <<>>
    BY <1>16 DEF Free, Forget, Clear
  <2>. QED  BY <2>1, NothingReadAgrees
<1>17. CASE Again
  <2>1. pc' = "idle" /\ proofs' = <<>>
    BY <1>17, <1>n DEF Again, Forget, sig
  <2>. QED  BY <2>1, NothingReadAgrees
<1>18. CASE UNCHANGED vars
  <2>1. UNCHANGED <<pc, data_len, data, sig, oom>>
    BY <1>18 DEF vars
  <2>2. Agrees(s)
    BY <1>0, <2>1, ReadNothing
  <2>. QED  BY <2>1, <2>2 DEF Agrees, sig
<1>. QED
  BY <1>1, <1>2, <1>3, <1>4, <1>5, <1>6, <1>7, <1>8, <1>9, <1>10, <1>11, <1>12, <1>13,
     <1>14, <1>15, <1>16, <1>17, <1>18 DEF Next

\* Deserialize rejects, unless a malloc fails, no file that serialize writes of a
\* signature sign returns, for any such signatures: the cast of CountFits, which
\* Uncut keeps from losing anything, is the only thing in the way.
THEOREM RoundTripCorrect ==
  ASSUME \A s \in Signed : Readable(s)
  PROVE  Spec => []RoundTrip
<1>1. TypeOK /\ ReadInv => RoundTrip
  <2> SUFFICES ASSUME TypeOK, ReadInv, pc = "rejected", ~oom, NEW s \in Signed,
                      Len(Encode(s)) = data_len, IsPrefix(data, Encode(s))
               PROVE  FALSE
    BY DEF RoundTrip, SignedFiles
  <2>1. Readable(s)
    OBVIOUS
  <2>2. Encode(s) \in Seq(Byte) /\ data \in Seq(Byte)
    BY <2>1, ReadableParts DEF TypeOK, Byte
  <2>3. \E rest \in Seq(Byte) : Encode(s) = data \o rest
    BY <2>2, PrefixIsRest
  <2>4. ReadingOf(s)
    BY <2>3 DEF ReadingOf
  <2>. QED  BY <2>1, <2>4 DEF ReadInv, Agrees
<1>2. Init => TypeOK /\ TextInv /\ ReplyInv /\ ReadInv
  BY TypeInit, TextInit, ReadInit
<1>3. /\ TypeOK /\ TextInv /\ ReplyInv /\ ReadInv /\ [Next]_vars
      => (TypeOK /\ TextInv /\ ReplyInv /\ ReadInv)'
  BY TypeNext, TextNext, ReadNext
<1>. QED  BY <1>1, <1>2, <1>3, PTL DEF Spec

------------------------------------------------------------------------------
\* The steps that deserialize may take before it reads the next byte or is done.
Ahead ==
  CASE pc \in {"header", "root_hash", "proof_len"} -> 1
    [] pc \in {"sig", "root_sig", "sibling", "arrays_done"} -> 2
    [] pc = "arrays" -> 3
    [] OTHER -> 0

\* How many more steps deserialize can take at most.
DecodeLeft == 2 * Left + Ahead
Decoding == pc \notin {"idle", "decoded", "rejected"}

LEMMA AheadType == TypeOK => Ahead \in 0..3 /\ Ahead' \in 0..3 /\ (Decoding => Ahead >= 1)
<1> SUFFICES ASSUME TypeOK PROVE Ahead \in 0..3 /\ Ahead' \in 0..3 /\ (Decoding => Ahead >= 1)
  OBVIOUS
<1>1. Ahead \in 0..3
  BY DEF Ahead
<1>2. Ahead' \in 0..3
  BY DEF Ahead
<1>3. ASSUME Decoding PROVE Ahead >= 1
  <2>1. pc \in {"header", "root_hash", "proof_len", "sig", "root_sig", "sibling", "arrays_done",
                "arrays"}
    BY <1>3 DEF Decoding, TypeOK
  <2>. QED  BY <2>1 DEF Ahead
<1>. QED  BY <1>1, <1>2, <1>3

\* What is read is no longer left.
LEMMA Shrinks ==
  ASSUME TypeOK, NEW bytes \in Seq(0..(Base - 1)), data_len' = data_len, data' = data \o bytes
  PROVE  Len(bytes) \in Nat /\ Left' = Left - Len(bytes)
<1>1. data \in Seq(0..(Base - 1)) /\ data_len \in Nat
  BY DEF TypeOK
<1>2. Len(data') = Len(data) + Len(bytes) /\ Len(bytes) \in Nat /\ Len(data) \in Nat
  BY <1>1, Joined
<1>. QED  BY <1>1, <1>2 DEF Left

\* A step that reads nothing has to come closer to the next byte; one that reads at least
\* one may have one more step ahead.
LEMMA Closer ==
  ASSUME TypeOK, TypeOK',
         \/ Left' <= Left /\ Ahead' < Ahead
         \/ Left' < Left /\ Ahead' <= Ahead + 1
  PROVE  DecodeLeft' \in Nat /\ DecodeLeft' < DecodeLeft
<1>1. Left \in Nat /\ Left' \in Nat
  <2>1. data \in Seq(0..(Base - 1)) /\ data_len \in Int /\ data' \in Seq(0..(Base - 1))
        /\ data_len' \in Int /\ Left >= 0 /\ Left' >= 0
    BY DEF TypeOK
  <2>. QED  BY <2>1 DEF Left
<1>2. Ahead \in Nat /\ Ahead' \in Nat
  BY AheadType
<1>3. DecodeLeft = 2 * Left + Ahead /\ DecodeLeft' = 2 * Left' + Ahead'
  BY DEF DecodeLeft
<1>4. \A l, m, a, b \in Nat : (m <= l /\ b < a) \/ (m < l /\ b <= a + 1) =>
        2 * m + b \in Nat /\ 2 * m + b < 2 * l + a
  OBVIOUS
<1>5. 2 * Left' + Ahead' \in Nat /\ 2 * Left' + Ahead' < 2 * Left + Ahead
  BY <1>1, <1>2, <1>4
<1>. QED  BY <1>3, <1>5

\* A rejection, for whatever reason.
LEMMA RejectingIsCloser ==
  ASSUME TypeOK, TypeOK', Decoding, NEW S, NEW bytes \in Seq(0..(Base - 1)),
         RejectsRead(S, bytes) \/ RunsOut(S)
  PROVE  DecodeLeft' \in Nat /\ DecodeLeft' < DecodeLeft
<1>1. pc' = "rejected" /\ data_len' = data_len /\ (data' = data \o bytes \/ data' = data)
  BY DEF RejectsRead, RunsOut, Rejects
<1>2. Ahead' = 0
  BY <1>1 DEF Ahead
<1>3. Left' <= Left
  <2>1. Left \in Int
    BY DEF Left, TypeOK
  <2>2. CASE data' = data
    BY <1>1, <2>1, <2>2 DEF Left
  <2>3. CASE data' = data \o bytes
    <3>1. Len(bytes) \in Nat /\ Left' = Left - Len(bytes)
      BY <1>1, <2>3, Shrinks
    <3>. QED  BY <2>1, <3>1
  <2>. QED  BY <1>1, <2>2, <2>3
<1>4. Ahead' < Ahead
  BY <1>2, AheadType
<1>. QED  BY <1>3, <1>4, Closer

\* A step that reads and goes on.
LEMMA ReadingIsCloser ==
  ASSUME TypeOK, TypeOK', NEW bytes \in Seq(0..(Base - 1)), NEW next, Reads(bytes, next),
         Len(bytes) >= 1, Ahead' <= Ahead + 1
  PROVE  DecodeLeft' \in Nat /\ DecodeLeft' < DecodeLeft
<1>1. data_len' = data_len /\ data' = data \o bytes
  BY DEF Reads
<1>2. Left \in Int
  BY DEF Left, TypeOK
<1>3. Left' < Left
  BY <1>1, <1>2, Shrinks
<1>. QED  BY <1>3, Closer

\* One step of the proof for each kind of step of deserialize.
LEMMA DecodeIsCloser ==
  TypeOK /\ TypeOK' /\ Decoding /\ Next => DecodeLeft' \in Nat /\ DecodeLeft' < DecodeLeft
<1> SUFFICES ASSUME TypeOK, TypeOK', Decoding, Next
             PROVE  DecodeLeft' \in Nat /\ DecodeLeft' < DecodeLeft
  OBVIOUS
<1>0. WordSize \in Nat \ {0} /\ HashSize \in Nat \ {0}
  OBVIOUS
<1>1. CASE Header
  <2>1. PICK w \in [1..4 -> Words] :
          LET read == w[1] \o w[2] \o w[3] \o w[4]
          IN  Reads(read, "sig") \/ RejectsRead({}, read)
    BY <1>1 DEF Header
  <2> DEFINE read == w[1] \o w[2] \o w[3] \o w[4]
  <2>2. read \in Seq(0..(Base - 1)) /\ Len(read) = 4 * WordSize
    BY FourWords
  <2>3. Reads(read, "sig") \/ RejectsRead({}, read)
    BY <2>1
  <2>4. pc = "header"
    BY <1>1 DEF Header
  <2> HIDE DEF read
  <2>5. CASE Reads(read, "sig")
    <3>1. Ahead = 1 /\ Ahead' = 2
      BY <2>4, <2>5 DEF Ahead, Reads
    <3>2. Len(read) >= 1 /\ Ahead' <= Ahead + 1
      BY <1>0, <2>2, <3>1
    <3>. QED  BY <2>2, <2>5, <3>2, ReadingIsCloser
  <2>. QED  BY <2>2, <2>3, <2>5, RejectingIsCloser
<1>2. CASE \/ HeaderShort \/ AllocateSigFails \/ RootHashFails \/ RootSigFails
           \/ ArraysTooLarge \/ AllocateArraysFails \/ AllocateProofFails
           \/ TakeSiblingFails \/ Trailing
  <2>1. PICK S : RejectsRead(S, <<>>) \/ RunsOut(S)
    BY <1>2 DEF HeaderShort, AllocateSigFails, RootHashFails, RootSigFails, ArraysTooLarge,
                AllocateArraysFails, AllocateProofFails, TakeSiblingFails, Trailing
  <2>2. <<>> \in Seq(0..(Base - 1))
    OBVIOUS
  <2>. QED  BY <2>1, <2>2, RejectingIsCloser
<1>3. CASE RootSigShort \/ ProofShort
  <2>1. PICK S : RejectsRead(S, <<>>) \/ \E word \in Words : RejectsRead(S, word)
    BY <1>3 DEF RootSigShort, ProofShort
  <2>2. CASE RejectsRead(S, <<>>)
    <3>1. <<>> \in Seq(0..(Base - 1))
      OBVIOUS
    <3>. QED  BY <2>2, <3>1, RejectingIsCloser
  <2>3. CASE \E word \in Words : RejectsRead(S, word)
    <3>1. PICK word \in Words : RejectsRead(S, word)
      BY <2>3
    <3>2. word \in Seq(0..(Base - 1))
      BY WordType
    <3>. QED  BY <3>1, <3>2, RejectingIsCloser
  <2>. QED  BY <2>1, <2>2, <2>3
<1>4. CASE AllocateSig \/ AllocateArrays \/ ArraysDone \/ ProofDone \/ Accept
  <2>1. PICK next \in {"root_hash", "arrays_done", "proof_len", "decoded"} :
          /\ Reads(<<>>, next)
          /\ next = "root_hash" => pc = "sig"
          /\ next = "arrays_done" => pc = "arrays"
          /\ next = "proof_len" => pc \in {"arrays_done", "sibling"}
          /\ next = "decoded" => pc = "proof_len"
    BY <1>4 DEF AllocateSig, AllocateArrays, ArraysDone, ProofDone, Accept
  <2>2. Left' = Left /\ pc' = next
    BY <2>1, ReadingNothing
  <2>3. Ahead' < Ahead
    BY <2>1, <2>2 DEF Ahead
  <2>4. Left' <= Left
    BY <2>2 DEF Left, TypeOK
  <2>. QED  BY <2>3, <2>4, Closer
<1>5. CASE RootHash \/ TakeSibling
  <2>1. PICK bytes \in Bytes(HashSize), next \in {"root_sig", "sibling"} :
          /\ Reads(bytes, next)
          /\ next = "root_sig" => pc = "root_hash"
          /\ next = "sibling" => pc = "sibling"
    BY <1>5 DEF RootHash, TakeSibling
  <2>2. bytes \in Seq(0..(Base - 1)) /\ Len(bytes) >= 1
    BY <1>0, BytesType
  <2>3. Ahead' <= Ahead + 1
    BY <2>1 DEF Ahead, Reads
  <2>. QED  BY <2>1, <2>2, <2>3, ReadingIsCloser
<1>6. CASE RootSig
  <2>1. PICK word \in Words : \E bytes \in Bytes(WordOf(word)) : Reads(word \o bytes, "arrays")
    BY <1>6 DEF RootSig
  <2>2. PICK bytes \in Bytes(WordOf(word)) : Reads(word \o bytes, "arrays")
    BY <2>1
  <2>3. /\ word \in Seq(0..(Base - 1)) /\ Len(word) = WordSize
        /\ bytes \in Seq(0..(Base - 1)) /\ Len(bytes) \in Nat
    <3>1. /\ word \in Seq(0..(Base - 1)) /\ Len(word) = WordSize /\ WordOf(word) \in Nat
      BY WordType
    <3>. QED  BY <3>1, BytesType
  <2>4. word \o bytes \in Seq(0..(Base - 1)) /\ Len(word \o bytes) = Len(word) + Len(bytes)
    BY <2>3, Joined
  <2>5. Len(word \o bytes) >= 1
    BY <1>0, <2>3, <2>4
  <2>6. Ahead' <= Ahead + 1
    <3>1. pc = "root_sig" /\ pc' = "arrays"
      BY <1>6, <2>2 DEF RootSig, Reads
    <3>. QED  BY <3>1 DEF Ahead
  <2>. QED  BY <2>2, <2>4, <2>5, <2>6, ReadingIsCloser
<1>7. CASE AllocateProof
  <2>1. PICK word \in Words : Reads(word, "sibling")
    BY <1>7 DEF AllocateProof
  <2>2. word \in Seq(0..(Base - 1)) /\ Len(word) >= 1
    BY <1>0, WordType
  <2>3. Ahead' <= Ahead + 1
    BY <1>7, <2>1 DEF Ahead, Reads, AllocateProof
  <2>. QED  BY <2>1, <2>2, <2>3, ReadingIsCloser
<1>8. CASE \/ \E len \in DataLens : Deserialize(len)
           \/ \E room \in {NoRoom, data_len - 1, data_len} : Serialize(room)
           \/ Free \/ Again
  BY <1>8 DEF Deserialize, Serialize, Free, Again, Decoding
<1>. QED  BY <1>1, <1>2, <1>3, <1>4, <1>5, <1>6, <1>7, <1>8 DEF Next

\* deserialize of a file of so many bytes ends after at most twice as many steps and one
\* more, whatever numbers of proofs and siblings the file claims to have.
THEOREM DecodeEnds ==
  Spec => [][/\ pc = "idle" => DecodeLeft' = 2 * data_len' + 1
             /\ Decoding => DecodeLeft' \in Nat /\ DecodeLeft' < DecodeLeft]_vars
<1>1. ASSUME TypeOK, pc = "idle", Next PROVE DecodeLeft' = 2 * data_len' + 1
  <2>1. PICK len \in DataLens : Deserialize(len)
    BY <1>1 DEF Next, Header, HeaderShort, AllocateSig, AllocateSigFails, RootHash, RootHashFails,
         RootSig, RootSigShort, RootSigFails, AllocateArrays, ArraysTooLarge, ArraysDone,
         AllocateArraysFails, AllocateProof, ProofShort, AllocateProofFails, TakeSibling,
         TakeSiblingFails, ProofDone, Accept, Trailing, Serialize, Free, Again
  <2>2. data' = <<>> /\ data_len' \in Nat /\ pc' = "header"
    BY <1>1, <2>1 DEF Deserialize, TypeOK
  <2>3. Left' = data_len' /\ Ahead' = 1
    BY <2>2 DEF Left, Ahead
  <2>. QED  BY <2>2, <2>3 DEF DecodeLeft
<1>2. TypeOK /\ TypeOK' /\ [Next]_vars =>
        [/\ pc = "idle" => DecodeLeft' = 2 * data_len' + 1
         /\ Decoding => DecodeLeft' \in Nat /\ DecodeLeft' < DecodeLeft]_vars
  BY <1>1, DecodeIsCloser
<1>. QED  BY <1>2, TypeCorrect, PTL DEF Spec

------------------------------------------------------------------------------
\* What a file claims to hold, and deserialize allocates for, is no more than the file is long.
Affordable ==
  /\ n * WordSize <= data_len
  /\ proof_len * HashSize <= data_len
  /\ Len(root_signature) <= data_len

\* What passes for a count of something, by a cast quotient, is no more than there is room for.
LEMMA CountIsBounded ==
  ASSUME NEW count \in Nat, NEW left \in Nat, CountFits(count, left)
  PROVE  count * WordSize <= left
<1>1. U32Max + 1 \in Nat \ {0} /\ WordSize \in Nat \ {0}
  BY WordRange
<1>2. \A a \in Nat, m \in Nat \ {0} : a % m \in Nat /\ a % m <= a
  OBVIOUS
<1>3. left \div WordSize \in Nat
  BY <1>1
<1>4. count <= left \div WordSize
  BY <1>1, <1>2, <1>3 DEF CountFits
<1>5. PICK w \in Nat \ {0} : w = WordSize
  BY <1>1
<1>6. count * w <= left
  BY <1>4, <1>5, Multiple
<1>. QED  BY <1>5, <1>6

\* Nothing claimed is affordable.
LEMMA NothingClaimed ==
  ASSUME data_len' \in Nat, n' = 0, proof_len' = 0, root_signature' = <<>>
  PROVE  Affordable'
<1>1. 0 * WordSize = 0 /\ 0 * HashSize = 0 /\ Len(<<>>) = 0
  OBVIOUS
<1>. QED  BY <1>1 DEF Affordable

\* One step of the proof for each claim that is read.
LEMMA AffordableNext == TypeOK /\ Affordable /\ [Next]_vars => Affordable'
<1> SUFFICES ASSUME TypeOK, Affordable, [Next]_vars PROVE Affordable'
  OBVIOUS
<1>0. data_len \in Nat /\ Left \in Int /\ Left <= data_len /\ WordSize \in Nat \ {0}
      /\ HashSize \in Nat \ {0} /\ 0 * HashSize = 0
  BY DEF TypeOK, Left
<1>1. CASE Header
  <2>1. PICK w \in [1..4 -> Words] :
          LET read == w[1] \o w[2] \o w[3] \o w[4]
          IN  IF HeaderFits(WordOf(w[1]), WordOf(w[2]), WordOf(w[3]), WordOf(w[4]))
              THEN /\ Reads(read, "sig") /\ n' = WordOf(w[3])
                   /\ UNCHANGED <<root_hash, root_signature, proofs, siblings, proof_len,
                                  heap, fault>>
              ELSE RejectsRead({}, read)
    BY <1>1 DEF Header
  <2>2. data_len' = data_len
    BY <2>1 DEF Reads, RejectsRead, Rejects
  <2>3. CASE HeaderFits(WordOf(w[1]), WordOf(w[2]), WordOf(w[3]), WordOf(w[4]))
    <3>1. n' = WordOf(w[3]) /\ UNCHANGED <<root_signature, proof_len>>
      BY <2>1, <2>3
    <3>2. WordOf(w[3]) \in Nat
      BY WordType
    <3>3. /\ data_len - 4 * WordSize \in Nat /\ data_len - 4 * WordSize <= data_len
          /\ CountFits(WordOf(w[3]), data_len - 4 * WordSize)
      BY <1>0, <2>3 DEF HeaderFits
    <3>4. WordOf(w[3]) * WordSize <= data_len - 4 * WordSize
      BY <3>2, <3>3, CountIsBounded
    <3>5. WordOf(w[3]) * WordSize \in Nat
      BY <1>0, <3>2
    <3>6. WordOf(w[3]) * WordSize <= data_len
      BY <1>0, <3>3, <3>4, <3>5
    <3>. QED  BY <2>2, <3>1, <3>6 DEF Affordable
  <2>4. CASE ~HeaderFits(WordOf(w[1]), WordOf(w[2]), WordOf(w[3]), WordOf(w[4]))
    <3>1. n' = 0 /\ proof_len' = 0 /\ root_signature' = <<>>
      BY <2>1, <2>4 DEF RejectsRead, Rejects, Clear
    <3>. QED  BY <1>0, <2>2, <3>1, NothingClaimed
  <2>. QED  BY <2>3, <2>4
<1>2. CASE \/ HeaderShort \/ AllocateSigFails \/ RootHashFails \/ RootSigShort \/ RootSigFails
           \/ ArraysTooLarge \/ AllocateArraysFails \/ ProofShort \/ AllocateProofFails
           \/ TakeSiblingFails \/ Trailing
  <2>1. \E S, bytes : RejectsRead(S, bytes) \/ RunsOut(S)
    BY <1>2 DEF HeaderShort, AllocateSigFails, RootHashFails, RootSigShort, RootSigFails,
                ArraysTooLarge, AllocateArraysFails, ProofShort, AllocateProofFails,
                TakeSiblingFails, Trailing
  <2>2. data_len' = data_len /\ n' = 0 /\ proof_len' = 0 /\ root_signature' = <<>>
    BY <2>1 DEF RejectsRead, RunsOut, Rejects, Clear
  <2>. QED  BY <1>0, <2>2, NothingClaimed
<1>3. CASE RootSig
  <2>1. PICK word \in Words :
          /\ RootSigFits(word)
          /\ \E bytes \in Bytes(WordOf(word)) :
               Reads(word \o bytes, "arrays") /\ root_signature' = bytes
    BY <1>3 DEF RootSig
  <2>2. PICK bytes \in Bytes(WordOf(word)) :
          Reads(word \o bytes, "arrays") /\ root_signature' = bytes
    BY <2>1
  <2>3. data_len' = data_len /\ UNCHANGED <<n, proof_len>>
    BY <1>3, <2>2 DEF RootSig, Reads
  <2>4. WordOf(word) \in Nat
    BY WordType
  <2>5. Len(bytes) = WordOf(word)
    BY <2>4, BytesType
  <2>6. WordOf(word) <= data_len
    BY <1>0, <2>1, <2>4 DEF RootSigFits
  <2>. QED  BY <2>2, <2>3, <2>5, <2>6 DEF Affordable
<1>4. CASE AllocateProof
  <2>1. PICK word \in Words : PathFits(word) /\ Reads(word, "sibling") /\ proof_len' = WordOf(word)
    BY <1>4 DEF AllocateProof
  <2>2. data_len' = data_len /\ UNCHANGED <<n, root_signature>>
    BY <1>4, <2>1 DEF AllocateProof, Reads
  <2>3. WordOf(word) \in Nat /\ WordOf(word) * HashSize \in Nat
    BY <1>0, WordType
  <2>4. Left >= WordSize + WordOf(word) * HashSize
    BY <2>1 DEF PathFits
  <2>5. WordOf(word) * HashSize <= data_len
    BY <1>0, <2>3, <2>4
  <2>. QED  BY <2>1, <2>2, <2>5 DEF Affordable
<1>5. CASE ProofDone
  <2>1. data_len' = data_len /\ UNCHANGED <<n, root_signature>> /\ proof_len' = 0
    BY <1>5 DEF ProofDone, Reads
  <2>. QED  BY <1>0, <2>1 DEF Affordable
<1>6. CASE \E len \in DataLens : Deserialize(len)
  <2>1. PICK len \in DataLens : Deserialize(len)
    BY <1>6
  <2>2. pc = "idle" /\ data_len' = len /\ len \in Nat /\ UNCHANGED sig
    BY <2>1 DEF Deserialize
  <2>3. n = 0 /\ proof_len = 0 /\ root_signature = <<>>
    BY <2>2 DEF TypeOK, Fresh
  <2>. QED  BY <2>2, <2>3, NothingClaimed DEF sig
<1>7. CASE Free \/ Again
  <2>1. data_len' = 0 /\ n' = 0 /\ proof_len' = 0 /\ root_signature' = <<>>
    BY <1>7 DEF Free, Again, Clear, Forget, TypeOK, Fresh, sig
  <2>. QED  BY <2>1, NothingClaimed
<1>8. CASE AllocateSig \/ RootHash \/ AllocateArrays \/ ArraysDone \/ TakeSibling \/ Accept
  <2>1. UNCHANGED <<data_len, n, proof_len, root_signature>>
    BY <1>8 DEF AllocateSig, RootHash, AllocateArrays, ArraysDone, TakeSibling, Accept, Reads, sig
  <2>. QED  BY <2>1 DEF Affordable
<1>9. CASE UNCHANGED vars \/ \E room \in {NoRoom, data_len - 1, data_len} : Serialize(room)
  <2>1. UNCHANGED <<data_len, n, proof_len, root_signature>>
    BY <1>9 DEF Serialize, vars, sig
  <2>. QED  BY <2>1 DEF Affordable
<1>. QED  BY <1>1, <1>2, <1>3, <1>4, <1>5, <1>6, <1>7, <1>8, <1>9 DEF Next

\* The arrays deserialize allocates before it has read what goes into them are as long as the
\* file says; the checks keep every such number within the length of the file, also when the
\* quotient it is compared with is cut by the cast to uint32_t.
THEOREM ClaimsAreAffordable == Spec => []Affordable
<1>1. Init => Affordable
  BY DEF Init, Affordable
<1>. QED  BY <1>1, AffordableNext, TypeCorrect, PTL DEF Spec
==============================================================================
