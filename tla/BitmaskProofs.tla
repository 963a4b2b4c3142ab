--------------------------- MODULE BitmaskProofs ---------------------------
(* Theorems about Bitmask, for bitmask sectors of any size and number.     *)
EXTENDS Bitmask, FiniteSetTheorems, TLAPS

LEMMA DivMod ==
  ASSUME NEW s \in Nat, NEW B \in Nat \ {0}
  PROVE  s = (B * (s \div B)) + (s % B) /\ s % B \in 0 .. B - 1 /\ s \div B \in Nat
  BY SMT

LEMMA DivModOf ==
  ASSUME NEW i \in Nat, NEW B \in Nat \ {0}, NEW b \in 0 .. B - 1
  PROVE  (i * B + b) \div B = i /\ (i * B + b) % B = b /\ i * B + b \in Nat
  BY SMT

LEMMA ProductMonotone ==
  ASSUME NEW i \in Nat, NEW n \in Nat, NEW B \in Nat, i >= n
  PROVE  i * B >= n * B
  BY SMT

LEMMA SpanType == CounterSpan \in Nat \ {0}
  BY DEF CounterSpan

LEMMA ConstantTypes ==
  /\ BitsPer \in Nat \ {0}
  /\ MaxBitmasks \in Nat \ {0}
  /\ BitmapId \in Sector
  /\ Sector \subseteq Nat
  /\ NumSectors \in Nat
  /\ NumSectors < CounterSpan
  /\ \A h \in FileIds : h[BitmapId] = BitmapId
<1>1. /\ BitsPer \in Nat \ {0}
      /\ MaxBitmasks \in Nat \ {0}
      /\ BitmapId \in Sector
  BY BitmaskAssumption
<1>2. NumSectors \in Nat /\ NumSectors < CounterSpan
  BY BitmaskAssumption
<1>3. Sector \subseteq Nat
  BY <1>2 DEF Sector
<1>4. \A h \in FileIds : h[BitmapId] = BitmapId
  BY OpenedAssumption
<1> QED BY <1>1, <1>2, <1>3, <1>4

(* The bitmask sectors are the first so many there could be.               *)
LEMMA BitmasksPrefix ==
  ASSUME NEW i \in Nat
  PROVE  /\ Cardinality(Bitmasks) \in Nat
         /\ Bitmasks \subseteq Nat
         /\ i \in Bitmasks <=> i < Cardinality(Bitmasks)
<1>1. /\ Bitmasks \subseteq 0 .. MaxBitmasks - 1
      /\ MaxBitmasks \in Nat
  BY ConstantTypes DEF Bitmasks
<1>2. /\ IsFiniteSet(Bitmasks)
      /\ Cardinality(Bitmasks) \in Nat
  <2>1. IsFiniteSet(0 .. MaxBitmasks - 1)
    BY <1>1, FS_Interval
  <2>2. IsFiniteSet(Bitmasks)
    BY <1>1, <2>1, FS_Subset
  <2> QED BY <2>2, FS_CardinalityType
<1>3. ASSUME i \in Bitmasks
      PROVE  i < Cardinality(Bitmasks)
  <2>1. 0 .. i \subseteq Bitmasks
    BY <1>3, <1>1 DEF Bitmasks
  <2>2. Cardinality(0 .. i) = i + 1
    BY FS_Interval
  <2> QED BY <2>1, <2>2, <1>2, FS_Subset
<1>4. ASSUME i \notin Bitmasks
      PROVE  Cardinality(Bitmasks) <= i
  <2>1. ASSUME NEW j \in Bitmasks
        PROVE  j \in 0 .. i - 1
    <3>1. CASE j >= i
      BY <3>1, <1>1, <1>4 DEF Bitmasks
    <3> QED BY <3>1, <1>1
  <2>2. IsFiniteSet(0 .. i - 1) /\ Cardinality(0 .. i - 1) = i
    BY FS_Interval
  <2> QED BY <2>1, <2>2, FS_Subset
<1> QED BY <1>1, <1>2, <1>3, <1>4

LEMMA ZeroIsBitmask ==
  ASSUME TypeOK
  PROVE  0 \in Bitmasks
<1>1. fileId[BitmapId] = BitmapId /\ BitmapId \in Sector /\ BitmapId \in Nat
  BY ConstantTypes DEF TypeOK
<1>2. \A j \in 0 .. 0 : BitmapId + j = BitmapId
  BY <1>1
<1> QED BY <1>1, <1>2, ConstantTypes DEF Bitmasks

(* A sector below the capacity has its bit in one of them.                 *)
LEMMA IndexInside ==
  ASSUME NEW s \in Nat, s < Capacity
  PROVE  Index(s) \in Bitmasks
<1> DEFINE n == Cardinality(Bitmasks)
<1>1. n \in Nat /\ BitsPer \in Nat \ {0}
  BY BitmasksPrefix, ConstantTypes
<1>2. s = (BitsPer * Index(s)) + Local(s) /\ Local(s) \in 0 .. BitsPer - 1 /\ Index(s) \in Nat
  BY <1>1, DivMod DEF Index, Local
<1>3. s < n * BitsPer
  BY DEF Capacity
<1>4. Index(s) < n
  <2> SUFFICES ASSUME Index(s) >= n PROVE FALSE
    BY <1>1, <1>2
  <2>1. Index(s) * BitsPer >= n * BitsPer
    BY <1>1, <1>2, ProductMonotone
  <2> HIDE DEF n
  <2> QED BY <2>1, <1>1, <1>2, <1>3
<1> QED BY <1>4, <1>2, BitmasksPrefix

(* A sector is in use if its bit is set.                                   *)
LEMMA SectorsOfMember ==
  ASSUME NEW I \in SUBSET Nat, NEW f \in [I -> SUBSET (0 .. BitsPer - 1)], NEW s
  PROVE  s \in SectorsOf(f, I) <=> s \in Nat /\ Index(s) \in I /\ Local(s) \in f[Index(s)]
<1>1. BitsPer \in Nat \ {0}
  BY ConstantTypes
<1>2. ASSUME s \in Nat, Index(s) \in I, Local(s) \in f[Index(s)]
      PROVE  s \in SectorsOf(f, I)
  <2>1. /\ s = (BitsPer * Index(s)) + Local(s)
        /\ Local(s) \in 0 .. BitsPer - 1
        /\ Index(s) \in Nat
    BY <1>1, <1>2, DivMod DEF Index, Local
  <2>2. s = Index(s) * BitsPer + Local(s)
    BY <1>1, <2>1
  <2>3. s \in {Index(s) * BitsPer + b : b \in f[Index(s)]}
    BY <2>2, <1>2
  <2> QED BY <2>3, <1>2 DEF SectorsOf
<1>3. ASSUME s \in SectorsOf(f, I)
      PROVE  s \in Nat /\ Index(s) \in I /\ Local(s) \in f[Index(s)]
  <2>1. PICK i \in I : \E b \in f[i] : s = i * BitsPer + b
    BY <1>3 DEF SectorsOf
  <2>2. PICK b \in f[i] : s = i * BitsPer + b
    BY <2>1
  <2>3. b \in 0 .. BitsPer - 1 /\ i \in Nat
    BY <2>2
  <2>4. /\ (i * BitsPer + b) \div BitsPer = i
        /\ (i * BitsPer + b) % BitsPer = b
        /\ i * BitsPer + b \in Nat
    BY <2>3, <1>1, DivModOf
  <2>5. Index(s) = i /\ Local(s) = b /\ s \in Nat
    BY <2>2, <2>4 DEF Index, Local
  <2> QED BY <2>2, <2>5
<1> QED BY <1>2, <1>3

(* Two sectors with the same bit are the same.                             *)
LEMMA BitsApart ==
  ASSUME NEW s \in Nat, NEW t \in Nat, Index(s) = Index(t), Local(s) = Local(t)
  PROVE  s = t
<1>1. /\ s = (BitsPer * Index(s)) + Local(s)
      /\ t = (BitsPer * Index(t)) + Local(t)
  BY ConstantTypes, DivMod DEF Index, Local
<1> QED BY <1>1

LEMMA LocalType ==
  ASSUME NEW s \in Nat
  PROVE  Local(s) \in 0 .. BitsPer - 1
  BY ConstantTypes, DivMod DEF Local

(* Setting and clearing a bit adds and removes one sector.                 *)
LEMMA BitSet ==
  ASSUME TypeOK, NEW s \in Nat, Index(s) \in Bitmasks,
         bits' = [bits EXCEPT ![Index(s)] = @ \cup {Local(s)}]
  PROVE  /\ bits' \in [Bitmasks -> SUBSET (0 .. BitsPer - 1)]
         /\ SectorsOf(bits', Bitmasks) = SectorsOf(bits, Bitmasks) \cup {s}
<1>0. Bitmasks \in SUBSET Nat /\ bits \in [Bitmasks -> SUBSET (0 .. BitsPer - 1)]
  BY BitmasksPrefix DEF TypeOK
<1>1. bits' \in [Bitmasks -> SUBSET (0 .. BitsPer - 1)]
  BY <1>0, LocalType
<1>2. ASSUME NEW t \in Nat, Index(t) \in Bitmasks
      PROVE  Local(t) \in bits'[Index(t)] <=> t = s \/ Local(t) \in bits[Index(t)]
  <2>1. CASE Index(t) = Index(s)
    <3>1. bits'[Index(t)] = bits[Index(t)] \cup {Local(s)}
      BY <1>0, <2>1
    <3>2. Local(t) = Local(s) <=> t = s
      BY <2>1, BitsApart
    <3> QED BY <3>1, <3>2
  <2>2. CASE Index(t) # Index(s)
    <3>1. bits'[Index(t)] = bits[Index(t)]
      BY <1>0, <2>2, <1>2
    <3> QED BY <3>1, <2>2
  <2> QED BY <2>1, <2>2
<1>3. ASSUME NEW t
      PROVE  t \in SectorsOf(bits', Bitmasks) <=> t \in SectorsOf(bits, Bitmasks) \cup {s}
  <2>1. t \in SectorsOf(bits', Bitmasks) <=> t \in Nat /\ Index(t) \in Bitmasks /\ Local(t) \in bits'[Index(t)]
    BY <1>0, <1>1, SectorsOfMember
  <2>2. t \in SectorsOf(bits, Bitmasks) <=> t \in Nat /\ Index(t) \in Bitmasks /\ Local(t) \in bits[Index(t)]
    BY <1>0, SectorsOfMember
  <2> QED BY <2>1, <2>2, <1>2
<1> QED BY <1>1, <1>3

LEMMA BitCleared ==
  ASSUME TypeOK, NEW s \in Nat, Index(s) \in Bitmasks,
         bits' = [bits EXCEPT ![Index(s)] = @ \ {Local(s)}]
  PROVE  /\ bits' \in [Bitmasks -> SUBSET (0 .. BitsPer - 1)]
         /\ SectorsOf(bits', Bitmasks) = SectorsOf(bits, Bitmasks) \ {s}
<1>0. Bitmasks \in SUBSET Nat /\ bits \in [Bitmasks -> SUBSET (0 .. BitsPer - 1)]
  BY BitmasksPrefix DEF TypeOK
<1>1. bits' \in [Bitmasks -> SUBSET (0 .. BitsPer - 1)]
  BY <1>0, LocalType
<1>2. ASSUME NEW t \in Nat, Index(t) \in Bitmasks
      PROVE  Local(t) \in bits'[Index(t)] <=> t # s /\ Local(t) \in bits[Index(t)]
  <2>1. CASE Index(t) = Index(s)
    <3>1. bits'[Index(t)] = bits[Index(t)] \ {Local(s)}
      BY <1>0, <2>1
    <3>2. Local(t) = Local(s) <=> t = s
      BY <2>1, BitsApart
    <3> QED BY <3>1, <3>2
  <2>2. CASE Index(t) # Index(s)
    <3>1. bits'[Index(t)] = bits[Index(t)]
      BY <1>0, <2>2, <1>2
    <3> QED BY <3>1, <2>2
  <2> QED BY <2>1, <2>2
<1>3. ASSUME NEW t
      PROVE  t \in SectorsOf(bits', Bitmasks) <=> t \in SectorsOf(bits, Bitmasks) \ {s}
  <2>1. t \in SectorsOf(bits', Bitmasks) <=> t \in Nat /\ Index(t) \in Bitmasks /\ Local(t) \in bits'[Index(t)]
    BY <1>0, <1>1, SectorsOfMember
  <2>2. t \in SectorsOf(bits, Bitmasks) <=> t \in Nat /\ Index(t) \in Bitmasks /\ Local(t) \in bits[Index(t)]
    BY <1>0, SectorsOfMember
  <2> QED BY <2>1, <2>2, <1>2
<1> QED BY <1>1, <1>3

(* With bits for the whole image, the free sectors are those not in use.   *)
LEMMA FreeMeaning ==
  ASSUME TypeOK, NumSectors <= Capacity
  PROVE  /\ \A s \in Sector : Index(s) \in Bitmasks
         /\ FreeSectors = Sector \ SetBits
<1>1. /\ Bitmasks \subseteq Nat
      /\ Capacity \in Int
      /\ bits \in [Bitmasks -> SUBSET (0 .. BitsPer - 1)]
  BY BitmasksPrefix, ConstantTypes DEF TypeOK, Capacity
<1>2. ASSUME NEW s \in Sector
      PROVE  s \in Nat /\ s < Capacity
  BY <1>1, ConstantTypes DEF Sector
<1>3. ASSUME NEW s \in Sector
      PROVE  Index(s) \in Bitmasks
  BY <1>2, IndexInside
<1>4. ASSUME NEW s \in Sector
      PROVE  IsAllocated(s) <=> s \in SetBits
  BY <1>1, <1>2, <1>3, SectorsOfMember DEF IsAllocated, SetBits
<1> QED BY <1>3, <1>4 DEF FreeSectors

LEMMA ModRange ==
  ASSUME NEW n \in Int, NEW m \in Nat \ {0}
  PROVE  n % m \in 0 .. m - 1
  BY SMT

LEMMA CountedType ==
  ASSUME TypeOK, NEW s, NEW change \in Int, Counted(s, change), UNCHANGED fileId
  PROVE  /\ Bitmasks' = Bitmasks
         /\ counter' \in [Bitmasks -> 0 .. CounterSpan - 1]
         /\ counter'[0] = (counter[0] + change) % CounterSpan
         /\ unsealed' \subseteq Bitmasks
         /\ unsealed = {} => unsealed' = {}
<1>1. ASSUME NEW i \in Bitmasks
      PROVE  (counter[i] + change) % CounterSpan \in 0 .. CounterSpan - 1
  <2>1. counter[i] + change \in Int
    BY SpanType DEF TypeOK
  <2> QED BY <2>1, SpanType, ModRange
<1> QED BY <1>1, ZeroIsBitmask DEF Counted, TypeOK, Bitmasks

(* A claim takes one sector that was free, of an image with enough bits.   *)
LEMMA ClaimEffect ==
  ASSUME TypeOK, NEW s \in Sector, Claim(s)
  PROVE  /\ TypeOK'
         /\ Bitmasks' = Bitmasks
         /\ NumSectors <= Capacity
         /\ SetBits' = SetBits \cup {s}
         /\ s \in Sector \ SetBits
<1>1. NumSectors <= Capacity /\ s \in FreeSectors
  BY DEF Claim, FirstFree, ListValid
<1>2. s \in Sector \ SetBits /\ Index(s) \in Bitmasks /\ s \in Nat
  BY <1>1, FreeMeaning, ConstantTypes
<1>3. /\ Bitmasks' = Bitmasks
      /\ counter' \in [Bitmasks -> 0 .. CounterSpan - 1]
      /\ unsealed' \subseteq Bitmasks
  BY CountedType DEF Claim
<1>4. /\ bits' \in [Bitmasks -> SUBSET (0 .. BitsPer - 1)]
      /\ SectorsOf(bits', Bitmasks) = SetBits \cup {s}
  <2>1. bits' = [bits EXCEPT ![Index(s)] = @ \cup {Local(s)}]
    BY DEF Claim
  <2>2. /\ bits' \in [Bitmasks -> SUBSET (0 .. BitsPer - 1)]
        /\ SectorsOf(bits', Bitmasks) = SectorsOf(bits, Bitmasks) \cup {s}
    BY <2>1, <1>2, BitSet
  <2> QED BY <2>2 DEF SetBits
<1>5. SetBits' = SetBits \cup {s}
  BY <1>3, <1>4 DEF SetBits, SectorsOf
<1>6. fileId' \in FileIds /\ pristine' \subseteq Sector
  BY DEF Claim, TypeOK
<1> QED BY <1>1, <1>2, <1>3, <1>4, <1>5, <1>6 DEF TypeOK

(* A release gives one sector back that was in use.                        *)
LEMMA ReleaseEffect ==
  ASSUME TypeOK, NEW s \in Sector, Release(s)
  PROVE  /\ TypeOK'
         /\ Bitmasks' = Bitmasks
         /\ SetBits' = SetBits \ {s}
         /\ s \in SetBits
<1>1. Bitmasks \in SUBSET Nat /\ bits \in [Bitmasks -> SUBSET (0 .. BitsPer - 1)] /\ s \in Nat
  BY BitmasksPrefix, ConstantTypes DEF TypeOK
<1>2. Index(s) \in Bitmasks
  BY <1>1, IndexInside DEF Release
<1>3. s \in SetBits
  BY <1>1, <1>2, SectorsOfMember DEF Release, IsAllocated, SetBits
<1>4. /\ Bitmasks' = Bitmasks
      /\ counter' \in [Bitmasks -> 0 .. CounterSpan - 1]
      /\ unsealed' \subseteq Bitmasks
  BY CountedType DEF Release
<1>5. /\ bits' \in [Bitmasks -> SUBSET (0 .. BitsPer - 1)]
      /\ SectorsOf(bits', Bitmasks) = SetBits \ {s}
  <2>1. bits' = [bits EXCEPT ![Index(s)] = @ \ {Local(s)}]
    BY DEF Release
  <2>2. /\ bits' \in [Bitmasks -> SUBSET (0 .. BitsPer - 1)]
        /\ SectorsOf(bits', Bitmasks) = SectorsOf(bits, Bitmasks) \ {s}
    BY <1>1, <1>2, <2>1, BitCleared
  <2> QED BY <2>2 DEF SetBits
<1>6. SetBits' = SetBits \ {s}
  BY <1>4, <1>5 DEF SetBits, SectorsOf
<1>7. fileId' \in FileIds /\ pristine' \subseteq Sector
  BY DEF Release, TypeOK
<1> QED BY <1>3, <1>4, <1>5, <1>6, <1>7 DEF TypeOK

-----------------------------------------------------------------------------

(* The bitmask sectors keep their layout, and no checksum is invented for  *)
(* a sector that is not one.                                               *)
THEOREM TypeCorrect == Spec => []TypeOK
<1>1. Init => TypeOK
  <2> SUFFICES ASSUME Init PROVE TypeOK
    OBVIOUS
  <2>1. fileId[BitmapId] = BitmapId /\ BitmapId \in Nat /\ BitmapId \in Sector
    BY ConstantTypes DEF Init
  <2>2. \A j \in 0 .. 0 : BitmapId + j = BitmapId
    BY <2>1
  <2>3. 0 \in Bitmasks
    BY <2>1, <2>2, ConstantTypes DEF Bitmasks
  <2> QED BY <2>3 DEF Init, TypeOK
<1>2. TypeOK /\ [Next]_bitVars => TypeOK'
  <2> SUFFICES ASSUME TypeOK, [Next]_bitVars PROVE TypeOK'
    OBVIOUS
  <2>1. ASSUME NEW s \in Sector, Claim(s) PROVE TypeOK'
    BY <2>1, ClaimEffect
  <2>2. ASSUME NEW s \in Sector, Release(s) PROVE TypeOK'
    BY <2>2, ReleaseEffect
  <2>3. CASE UNCHANGED bitVars
    BY <2>3 DEF bitVars, TypeOK, Bitmasks
  <2> QED BY <2>1, <2>2, <2>3 DEF Next
<1> QED BY <1>1, <1>2, PTL DEF Spec

(* Counters that agree before a call agree after it.                       *)
LEMMA AgreeKept ==
  ASSUME TypeOK, Agree, NEW s, NEW change \in Int, Counted(s, change), UNCHANGED fileId
  PROVE  Agree'
<1>1. Bitmasks' = Bitmasks
  BY CountedType
<1>2. counter' = [i \in Bitmasks |-> (counter[i] + change) % CounterSpan]
  BY DEF Counted
<1>3. \A i, j \in Bitmasks : counter'[i] = counter'[j]
  BY <1>2 DEF Agree
<1> QED BY <1>1, <1>3 DEF Agree

(* Counters of the bitmask sectors that agree go on agreeing.              *)
THEOREM CountersStayEqual == Spec => CountersAgree
<1>1. TypeOK /\ [Next]_bitVars => [Agree => Agree']_bitVars
  <2> SUFFICES ASSUME TypeOK, Next, Agree PROVE Agree'
    OBVIOUS
  <2>1. ASSUME NEW s \in Sector, Claim(s) PROVE Agree'
    BY <2>1, AgreeKept DEF Claim
  <2>2. ASSUME NEW s \in Sector, Release(s) PROVE Agree'
    BY <2>2, AgreeKept DEF Release
  <2> QED BY <2>1, <2>2 DEF Next
<1> QED BY <1>1, TypeCorrect, PTL DEF Spec, CountersAgree

(* The sectors of an image are finitely many, and no more than counted.    *)
LEMMA SectorCount ==
  /\ IsFiniteSet(Sector)
  /\ Cardinality(Sector) = NumSectors
<1>1. 0 <= NumSectors - 1
  BY BitmaskAssumption
<1> QED BY <1>1, FS_Interval, ConstantTypes DEF Sector

LEMMA CounterType ==
  ASSUME TypeOK
  PROVE  counter[0] \in 0 .. CounterSpan - 1
  BY ZeroIsBitmask DEF TypeOK

LEMMA InRange ==
  ASSUME NEW n \in Nat, NEW m \in Nat \ {0}, n < m
  PROVE  n % m = n
  BY SMT

(* What a call does to the free sectors of an image with enough bits.      *)
LEMMA FreeAfter ==
  ASSUME TypeOK, TypeOK', NumSectors <= Capacity, Bitmasks' = Bitmasks
  PROVE  /\ Capacity' = Capacity
         /\ FreeSectors' = Sector \ SetBits'
<1>1. Capacity' = Capacity
  BY DEF Capacity
<1>2. (TypeOK => (NumSectors <= Capacity => FreeSectors = Sector \ SetBits))'
  BY FreeMeaning, PTL
<1> QED BY <1>1, <1>2

(* Taking a free sector from a valid image leaves it valid.                *)
LEMMA ClaimKeepsValid ==
  ASSUME TypeOK, Validates, NEW s \in Sector, Claim(s)
  PROVE  Validates'
<1>1. /\ TypeOK'
      /\ Bitmasks' = Bitmasks
      /\ NumSectors <= Capacity
      /\ SetBits' = SetBits \cup {s}
      /\ s \in Sector \ SetBits
  BY ClaimEffect
<1>2. /\ FreeSectors = Sector \ SetBits
      /\ FreeSectors' = Sector \ SetBits'
      /\ Capacity' = Capacity
  BY <1>1, FreeMeaning, FreeAfter
<1>3. FreeSectors' = FreeSectors \ {s} /\ s \in FreeSectors
  BY <1>1, <1>2
<1>4. IsFiniteSet(FreeSectors) /\ Cardinality(FreeSectors) \in Nat
  BY <1>2, SectorCount, FS_Subset, FS_CardinalityType
<1>5. /\ Cardinality(FreeSectors') = Cardinality(FreeSectors) - 1
      /\ Cardinality(FreeSectors') \in Nat
  <2>1. Cardinality(FreeSectors \ {s}) = Cardinality(FreeSectors) - 1
    BY <1>3, <1>4, FS_RemoveElement
  <2>2. IsFiniteSet(FreeSectors \ {s})
    BY <1>4, FS_Subset
  <2> QED BY <2>1, <2>2, <1>3, FS_CardinalityType
<1>6. /\ counter'[0] = (counter[0] + 1) % CounterSpan
      /\ unsealed' = {}
  BY CountedType DEF Claim, Validates
<1>7. counter'[0] = counter[0] + 1 /\ counter'[0] <= NumSectors
  <2>1. /\ NumSectors - counter[0] = Cardinality(FreeSectors)
        /\ counter[0] \in Nat
    BY CounterType DEF Validates
  <2>2. counter[0] + 1 \in Nat /\ counter[0] + 1 <= NumSectors
    BY <2>1, <1>4, <1>5, ConstantTypes
  <2>3. counter[0] + 1 < CounterSpan
    BY <2>1, <2>2, ConstantTypes, SpanType
  <2> QED BY <2>2, <2>3, <1>6, SpanType, InRange
<1>8. NumSectors - counter'[0] = Cardinality(FreeSectors')
  BY <1>4, <1>5, <1>7, ConstantTypes, CounterType DEF Validates
<1> QED BY <1>1, <1>2, <1>6, <1>7, <1>8 DEF Validates, ListValid

(* So does giving one back.                                                *)
LEMMA ReleaseKeepsValid ==
  ASSUME TypeOK, Validates, NEW s \in Sector, Release(s)
  PROVE  Validates'
<1>1. /\ TypeOK'
      /\ Bitmasks' = Bitmasks
      /\ NumSectors <= Capacity
      /\ SetBits' = SetBits \ {s}
      /\ s \in SetBits
  BY ReleaseEffect DEF Validates, ListValid
<1>2. /\ FreeSectors = Sector \ SetBits
      /\ FreeSectors' = Sector \ SetBits'
      /\ Capacity' = Capacity
  BY <1>1, FreeMeaning, FreeAfter
<1>3. FreeSectors' = FreeSectors \cup {s} /\ s \notin FreeSectors
  BY <1>1, <1>2
<1>4. IsFiniteSet(FreeSectors) /\ Cardinality(FreeSectors) \in Nat
  BY <1>2, SectorCount, FS_Subset, FS_CardinalityType
<1>5. /\ Cardinality(FreeSectors') = Cardinality(FreeSectors) + 1
      /\ Cardinality(FreeSectors') <= NumSectors
  <2>1. Cardinality(FreeSectors \cup {s}) = Cardinality(FreeSectors) + 1
    BY <1>3, <1>4, FS_AddElement
  <2>2. FreeSectors' \subseteq Sector
    BY <1>2
  <2>3. Cardinality(FreeSectors') <= Cardinality(Sector)
    BY <2>2, SectorCount, FS_Subset
  <2> QED BY <2>1, <2>3, <1>3, SectorCount
<1>6. /\ counter'[0] = (counter[0] + -1) % CounterSpan
      /\ unsealed' = {}
  BY CountedType DEF Release, Validates
<1>7. counter'[0] = counter[0] - 1
  <2>1. /\ NumSectors - counter[0] = Cardinality(FreeSectors)
        /\ counter[0] \in 0 .. CounterSpan - 1
    BY CounterType DEF Validates
  <2>2. /\ counter[0] + -1 \in Nat
        /\ counter[0] + -1 < CounterSpan
        /\ counter[0] + -1 = counter[0] - 1
    BY <2>1, <1>4, <1>5, ConstantTypes, SpanType
  <2> QED BY <2>2, <1>6, SpanType, InRange
<1>8. NumSectors - counter'[0] = Cardinality(FreeSectors') /\ counter'[0] <= NumSectors
  BY <1>4, <1>5, <1>7, ConstantTypes, CounterType, SpanType DEF Validates, ListValid
<1> QED BY <1>1, <1>2, <1>6, <1>8 DEF Validates, ListValid

(* A valid image stays valid whatever is claimed and released.             *)
THEOREM ValidityKept == Spec => StaysValid
<1>1. TypeOK /\ [Next]_bitVars => [Validates => Validates']_bitVars
  BY ClaimKeepsValid, ReleaseKeepsValid DEF Next
<1> QED BY <1>1, TypeCorrect, PTL DEF Spec, StaysValid

-----------------------------------------------------------------------------

LEMMA InitImplements == Init => Abstract!Init
<1> SUFFICES ASSUME Init PROVE Abstract!Init
  OBVIOUS
<1>1. fileId[BitmapId] = BitmapId /\ BitmapId \in Nat /\ BitmapId \in Sector
  BY ConstantTypes DEF Init
<1>2. \A j \in 0 .. 0 : BitmapId + j = BitmapId
  BY <1>1
<1>3. 0 \in Bitmasks
  BY <1>1, <1>2, ConstantTypes DEF Bitmasks
<1>4. SetBits \subseteq Sector /\ counter[0] \in 0 .. CounterSpan - 1 /\ pristine = Sector
  BY <1>3 DEF Init
<1>5. Cardinality(SetBits) \in Nat
  BY <1>4, SectorCount, FS_Subset, FS_CardinalityType
<1>6. counter[0] >= Cardinality(SetBits)
  <2>1. PICK d \in [Bitmasks -> Drifts] :
          counter = [i \in Bitmasks |-> Cardinality(SetBits) + d[i]]
    BY DEF Init
  <2>2. d[0] \in Nat
    <3>1. d[0] \in Drifts
      BY <1>3, <2>1
    <3> QED BY <3>1, DriftsAssumption
  <2>3. counter[0] = Cardinality(SetBits) + d[0]
    BY <2>1, <1>3
  <2> QED BY <2>2, <2>3, <1>5
<1>7. Abstract!Cardinality(SetBits) = Cardinality(SetBits)
  BY DEF Cardinality, Abstract!Cardinality
<1>8. Abstract!Sector = Sector /\ Abstract!CounterSpan = CounterSpan
  BY DEF Abstract!Sector, Abstract!CounterSpan, Sector, CounterSpan
<1>9. Abstract!BitmapType
  BY <1>4, <1>8 DEF Abstract!BitmapType
<1> QED BY <1>6, <1>7, <1>9 DEF Abstract!Init

LEMMA ClaimImplements ==
  ASSUME TypeOK, NEW s \in Sector, Claim(s)
  PROVE  Abstract!Claim(s)
<1>1. /\ SetBits' = SetBits \cup {s}
      /\ FreeSectors = Sector \ SetBits
      /\ counter[0] <= NumSectors
      /\ counter[0] \in Int /\ NumSectors \in Int
  <2>1. SetBits' = SetBits \cup {s} /\ NumSectors <= Capacity
    BY ClaimEffect
  <2>2. FreeSectors = Sector \ SetBits
    BY <2>1, FreeMeaning
  <2>3. counter[0] <= NumSectors
    BY DEF Claim, FirstFree, ListValid
  <2> QED BY <2>1, <2>2, <2>3, CounterType, ConstantTypes, SpanType
<1>2. Abstract!Available = FreeSectors
  BY <1>1 DEF Abstract!Available, Abstract!Free, Abstract!Sector, Sector
<1>3. Abstract!LowestFree(s)
  BY <1>2 DEF Abstract!LowestFree, Claim, FirstFree
<1>4. counter'[0] = (counter[0] + 1) % CounterSpan
  BY CountedType DEF Claim
<1>5. Abstract!MarkUsed(s)
  BY <1>1, <1>4 DEF Abstract!MarkUsed, Abstract!CounterSpan, CounterSpan, Claim
<1> QED BY <1>3, <1>5 DEF Abstract!Claim

LEMMA ReleaseImplements ==
  ASSUME TypeOK, NEW s \in Sector, Release(s)
  PROVE  Abstract!Release(s)
<1>1. SetBits' = SetBits \ {s} /\ s \in SetBits
  BY ReleaseEffect
<1>2. counter'[0] = (counter[0] + -1) % CounterSpan
  BY CountedType DEF Release
<1>3. counter[0] + -1 = counter[0] - 1
  BY CounterType, SpanType
<1>4. Abstract!EraseSector(s)
  BY <1>1, <1>2, <1>3 DEF Abstract!EraseSector, Abstract!CounterSpan, CounterSpan, Release
<1> QED BY <1>1, <1>4 DEF Abstract!Release

(* The bits spread over any number of bitmask sectors, and the first of    *)
(* their counters, are the set and the counter the other modules work with.*)
THEOREM BitmaskImplements == Spec => ImplementsAllocation
<1>1. TypeOK /\ [Next]_bitVars => [Abstract!Next]_(Abstract!bitmapVars)
  <2> SUFFICES ASSUME TypeOK, [Next]_bitVars
               PROVE  [Abstract!Next]_(Abstract!bitmapVars)
    OBVIOUS
  <2>1. ASSUME NEW s \in Sector, Claim(s) PROVE Abstract!Next
    BY <2>1, ClaimImplements DEF Abstract!Next, Abstract!Sector, Sector
  <2>2. ASSUME NEW s \in Sector, Release(s) PROVE Abstract!Next
    BY <2>2, ReleaseImplements DEF Abstract!Next, Abstract!Sector, Sector
  <2>3. CASE UNCHANGED bitVars
    BY <2>3 DEF bitVars, Abstract!bitmapVars, SetBits, SectorsOf, Bitmasks
  <2> QED BY <2>1, <2>2, <2>3 DEF Next
<1> QED BY <1>1, InitImplements, TypeCorrect, PTL DEF Spec, ImplementsAllocation, Abstract!Spec

=============================================================================
