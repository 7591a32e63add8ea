-------------------------- MODULE LinkStoreProofs --------------------------
(* Proofs about LinkStore, for every size of inlets, outlet and byte.      *)
EXTENDS LinkStore, FiniteSetTheorems, TLAPS

-----------------------------------------------------------------------------
(* The map of the memory.                                                  *)

\* What a record is, and where it lies: the rows of the map.
Row(r) ==
  /\ r[2] \in Nat
  /\ \/ /\ r[1] = "condition" /\ r \notin Tables /\ r # UpdateMode
        /\ r[2] \in {0, 1} /\ Address(r) = 1 + 4 * r[2] /\ Last(r) = 2 + 4 * r[2]
     \/ /\ r[1] = "tolerance" /\ r \notin Tables /\ r # UpdateMode
        /\ r[2] \in {0, 1} /\ Address(r) = 3 + 4 * r[2] /\ Last(r) = 4 + 4 * r[2]
     \/ /\ r[1] = "mode" /\ r \notin Tables /\ r = UpdateMode
        /\ r[2] = 0 /\ Address(r) = 9 /\ Last(r) = 9
     \/ /\ r[1] = "inlet" /\ r \in Tables /\ Ports(r) = FanIn
        /\ \/ r[2] = 0 /\ Address(r) = 12 /\ Last(r) = 12 + FanIn
           \/ r[2] = 1 /\ Address(r) = 13 + FanIn /\ Last(r) = 13 + 2 * FanIn
           \/ r[2] = 2 /\ Address(r) = 14 + 2 * FanIn /\ Last(r) = 14 + 3 * FanIn
     \/ /\ r[1] = "outlet" /\ r \in Tables /\ Ports(r) = FanOut
        /\ r[2] = 0 /\ Address(r) = 15 + 3 * FanIn /\ Last(r) = 15 + 3 * FanIn + FanOut
     \/ /\ r[1] = "data" /\ r \notin Tables /\ r # UpdateMode /\ r[2] < NumData
        /\ Address(r) = 16 + 3 * FanIn + FanOut + 2 * r[2]
        /\ Last(r) = 17 + 3 * FanIn + FanOut + 2 * r[2]

\* Every record is in one of the rows of the map (nonVolatileData.h:25-65).
LEMMA Rows == ASSUME NEW r \in Records PROVE r = <<r[1], r[2]>> /\ Row(r)
<1> USE SizeAssumption
<1>1. CASE r \in Inlets
  <2>1. r = <<"inlet", r[2]>> /\ r[1] = "inlet" /\ r[2] \in 0..2 /\ r # Outlet
    BY <1>1 DEF Inlets, Outlet
  <2>2. r \in Tables /\ Ports(r) = FanIn
    BY <1>1, <2>1 DEF Tables, Ports
  <2>3. Address(r) = 12 + r[2] * (FanIn + 1)
    BY <2>1 DEF Address, AddressInlet
  <2>4. Last(r) = Address(r) + FanIn
    BY <2>2 DEF Last
  <2>5. CASE r[2] = 0
    BY <2>1, <2>2, <2>3, <2>4, <2>5 DEF Row
  <2>6. CASE r[2] = 1
    BY <2>1, <2>2, <2>3, <2>4, <2>6 DEF Row
  <2>7. CASE r[2] = 2
    BY <2>1, <2>2, <2>3, <2>4, <2>7 DEF Row
  <2> QED BY <2>1, <2>5, <2>6, <2>7
<1>2. CASE r = Outlet
  <2>1. r = <<"outlet", 0>> /\ r[1] = "outlet" /\ r[2] = 0
    BY <1>2 DEF Outlet
  <2>2. r \in Tables /\ Ports(r) = FanOut
    BY <1>2 DEF Tables, Ports
  <2>3. Address(r) = 12 + 3 * (FanIn + 1)
    BY <2>1 DEF Address, AddressOutlet, AddressInlet
  <2> QED BY <2>1, <2>2, <2>3 DEF Last, Row
<1>3. CASE r \in Conditions
  <2>1. /\ r = <<r[1], r[2]>> /\ r[1] \in {"condition", "tolerance"} /\ r[2] \in {0, 1}
        /\ r \notin Tables /\ r # UpdateMode
    BY <1>3 DEF Conditions, Tables, Inlets, Outlet, UpdateMode
  <2>2. Last(r) = Address(r) + 1
    BY <2>1 DEF Last
  <2> QED BY <2>1, <2>2 DEF Address, Row
<1>4. CASE r \in Data
  <2>1. /\ r = <<r[1], r[2]>> /\ r[1] = "data" /\ r[2] \in Nat /\ r[2] < NumData
        /\ r \notin Tables /\ r # UpdateMode
    BY <1>4 DEF Data, Tables, Inlets, Outlet, UpdateMode
  <2>2. Last(r) = Address(r) + 1
    BY <2>1 DEF Last
  <2>3. Address(r) = 12 + 3 * (FanIn + 1) + FanOut + 1 + 2 * r[2]
    BY <2>1 DEF Address, AddressData, AddressOutlet, AddressInlet
  <2> QED BY <2>1, <2>2, <2>3 DEF Row
<1>5. CASE r = UpdateMode
  <2>1. /\ r = <<r[1], r[2]>> /\ r[1] = "mode" /\ r[2] = 0 /\ r \notin Tables
    BY <1>5 DEF Tables, Inlets, Outlet, UpdateMode
  <2> QED BY <1>5, <2>1 DEF Address, Last, Row
<1> QED BY <1>1, <1>2, <1>3, <1>4, <1>5 DEF Records, Tables

\* Slots do not overlap and lie in the memory.
LEMMA SlotsApart ==
  ASSUME NEW r \in Records, NEW q \in Records, r # q
  PROVE  Last(r) < Address(q) \/ Last(q) < Address(r)
BY Rows, SizeAssumption DEF Row

LEMMA SlotInMemory ==
  ASSUME NEW r \in Records
  PROVE  /\ Address(r) \in Addresses /\ Last(r) \in Addresses
         /\ Address(r) \in Int /\ Last(r) \in Int /\ Address(r) <= Last(r)
         /\ Slot(r) \subseteq Addresses
         /\ r \in Tables => /\ Last(r) = Address(r) + Ports(r)
                            /\ Ports(r) \in 1..ByteSize - 1
         /\ r \notin Tables /\ r # UpdateMode => Last(r) = Address(r) + 1
         /\ r = UpdateMode => Last(r) = Address(r) /\ r \notin Tables
<1> USE SizeAssumption
<1>1. Row(r)
  BY Rows
<1>2. AddressData(NumData) = 16 + 3 * FanIn + FanOut + 2 * NumData
  BY DEF AddressData, AddressOutlet, AddressInlet
<1>3. FanIn \in Nat /\ FanOut \in Nat /\ NumData \in Nat
  OBVIOUS
<1>4. /\ Address(r) \in Int /\ Last(r) \in Int
      /\ 0 <= Address(r) /\ Address(r) <= Last(r)
  <2>1. CASE r[1] \in {"condition", "tolerance", "mode", "data"}
    BY <1>1, <1>3, <2>1 DEF Row
  <2>2. CASE r[1] \in {"inlet", "outlet"}
    BY <1>1, <1>3, <2>2 DEF Row
  <2> QED BY <1>1, <2>1, <2>2 DEF Row
<1>5. Last(r) <= AddressData(NumData)
  <2>1. CASE r[1] \in {"condition", "tolerance", "mode", "data"}
    BY <1>1, <1>2, <1>3, <2>1 DEF Row
  <2>2. CASE r[1] \in {"inlet", "outlet"}
    BY <1>1, <1>2, <1>3, <2>2 DEF Row
  <2> QED BY <1>1, <2>1, <2>2 DEF Row
<1>6. /\ r \in Tables => /\ Last(r) = Address(r) + Ports(r)
                         /\ Ports(r) \in 1..ByteSize - 1
      /\ r \notin Tables /\ r # UpdateMode => Last(r) = Address(r) + 1
      /\ r = UpdateMode => Last(r) = Address(r) /\ r \notin Tables
  <2>1. CASE r[1] = "inlet"
    BY <1>1, <1>3, <2>1 DEF Row, UpdateMode
  <2>2. CASE r[1] = "outlet"
    BY <1>1, <1>3, <2>2 DEF Row, UpdateMode
  <2>3. CASE r[1] \in {"condition", "tolerance", "mode", "data"}
    BY <1>1, <1>3, <2>3 DEF Row
  <2> QED BY <1>1, <2>1, <2>2, <2>3 DEF Row
<1>7. AddressData(NumData) \in Int
  BY <1>2, <1>3
<1>8. \A x \in Slot(r) : x \in Addresses
  BY <1>4, <1>5, <1>7 DEF Slot, Addresses
<1>9. Address(r) \in Slot(r) /\ Last(r) \in Slot(r)
  BY <1>4 DEF Slot
<1> QED BY <1>4, <1>6, <1>8, <1>9

-----------------------------------------------------------------------------
(* What is read of a record.                                               *)

Image     == [Addresses -> Byte]
Fits(m)   == \A r \in Tables : m[Address(r)] <= Ports(r)
LEMMA Bytes == \A a \in Byte : a \in Nat /\ a <= ByteSize - 1
BY SizeAssumption DEF Byte

\* Two bytes make a word, and a word comes apart into two bytes.
LEMMA TwoBytes ==
  ASSUME NEW a \in Byte, NEW b \in Byte
  PROVE  a + ByteSize * b \in Word
<1>1. a \in Nat /\ b \in Nat /\ a <= ByteSize - 1 /\ b <= ByteSize - 1 /\ ByteSize \in Nat
  BY Bytes, SizeAssumption
<1>2. ByteSize * b <= ByteSize * (ByteSize - 1)
  BY <1>1
<1>3. ByteSize * (ByteSize - 1) = ByteSize * ByteSize - ByteSize
  BY <1>1
<1>4. ByteSize * b \in Nat /\ ByteSize * ByteSize \in Nat
  BY <1>1
<1> QED BY <1>1, <1>2, <1>3, <1>4 DEF Word

LEMMA Division ==
  ASSUME NEW w \in Nat, NEW b \in Nat, b > 0
  PROVE  w = b * (w \div b) + (w % b)
BY SMTT(30)

LEMMA WordInBytes ==
  ASSUME NEW w \in Word
  PROVE  /\ w % ByteSize \in Byte
         /\ w \div ByteSize \in Byte
         /\ (w % ByteSize) + ByteSize * (w \div ByteSize) = w
<1>1. w \in Nat /\ ByteSize \in Nat /\ ByteSize > 0 /\ w < ByteSize * ByteSize
  BY SizeAssumption DEF Word
<1>2. /\ w % ByteSize \in 0..ByteSize - 1
      /\ w \div ByteSize \in Int
      /\ w = ByteSize * (w \div ByteSize) + (w % ByteSize)
  <2>1. w % ByteSize \in 0..ByteSize - 1
    BY <1>1
  <2>2. w \div ByteSize \in Int
    BY <1>1
  <2>3. w = ByteSize * (w \div ByteSize) + (w % ByteSize)
    BY <1>1, Division
  <2> QED BY <2>1, <2>2, <2>3
<1>3. w \div ByteSize >= 0
  BY <1>1, <1>2
<1>4. w \div ByteSize < ByteSize
  <2> DEFINE d == w \div ByteSize
  <2>1. ByteSize * d <= w
    <3>1. ByteSize * d \in Int
      BY <1>1, <1>2
    <3> QED BY <1>1, <1>2, <3>1
  <2>2. ASSUME d >= ByteSize PROVE FALSE
    <3>1. d \in Int /\ ByteSize * d >= ByteSize * ByteSize
      BY <1>1, <1>2, <2>2
    <3> QED BY <1>1, <2>1, <3>1
  <2> QED BY <1>1, <1>2, <2>2
<1> QED BY <1>1, <1>2, <1>3, <1>4 DEF Byte

\* What is read depends on the slot of the record alone.
LEMMA LoadInSlot ==
  ASSUME NEW m \in Image, NEW n \in Image, NEW r \in Records,
         r \in Tables => m[Address(r)] <= Ports(r),
         \A x \in Slot(r) : m[x] = n[x]
  PROVE  Load(m, r) = Load(n, r)
<1>1. Address(r) \in Slot(r) /\ m[Address(r)] = n[Address(r)] /\ m[Address(r)] \in Nat
  BY SlotInMemory, Bytes DEF Slot, Image
<1>2. CASE r \in Tables
  <2>1. \A k \in 1..m[Address(r)] : m[Address(r) + k] = n[Address(r) + k]
    BY <1>1, <1>2, SlotInMemory, SizeAssumption DEF Slot
  <2> QED BY <1>1, <1>2, <2>1 DEF Load
<1>3. CASE r = UpdateMode
  BY <1>1, <1>3, SlotInMemory DEF Load
<1>4. CASE r \notin Tables /\ r # UpdateMode
  <2>1. Address(r) + 1 \in Slot(r)
    BY <1>4, SlotInMemory DEF Slot
  <2> QED BY <1>1, <1>4, <2>1 DEF Load
<1> QED BY <1>2, <1>3, <1>4

\* What is read has the kind of the record.
LEMMA LoadType ==
  ASSUME NEW m \in Image, NEW r \in Records,
         r \in Tables => m[Address(r)] <= Ports(r)
  PROVE  Load(m, r) \in Value(r)
<1>1. m[Address(r)] \in Byte
  BY SlotInMemory DEF Image
<1>2. CASE r \in Tables
  <2>1. m[Address(r)] \in 0..Ports(r)
    BY <1>1, <1>2, SlotInMemory, Bytes, SizeAssumption
  <2>2. \A k \in 1..m[Address(r)] : m[Address(r) + k] \in Byte
    <3>1. \A k \in 1..m[Address(r)] : Address(r) + k \in Slot(r)
      BY <1>2, <2>1, SlotInMemory, SizeAssumption DEF Slot
    <3> QED BY <3>1, SlotInMemory DEF Image
  <2>3. Load(m, r) \in [1..m[Address(r)] -> Byte]
    BY <1>2, <2>2 DEF Load
  <2> QED BY <1>2, <2>1, <2>3 DEF Value, Links
<1>3. CASE r = UpdateMode
  BY <1>1, <1>3, SlotInMemory DEF Load, Value
<1>4. CASE r \notin Tables /\ r # UpdateMode
  <2>1. m[Address(r) + 1] \in Byte
    BY <1>4, SlotInMemory DEF Image
  <2> QED BY <1>1, <1>4, <2>1, TwoBytes DEF Load, Value
<1> QED BY <1>2, <1>3, <1>4

-----------------------------------------------------------------------------
(* What a save makes of the memory.                                        *)

Typed(values) ==
  /\ DOMAIN values \subseteq Records
  /\ \A r \in DOMAIN values : values[r] \in Value(r)

\* A save stays in the slot of the record, and writes bytes.
LEMMA WritesInSlot ==
  ASSUME NEW r \in Records, NEW v \in Value(r), NEW x, Writes(r, v, x)
  PROVE  x \in Slot(r) /\ ByteOf(r, v, x) \in Byte
<1>1. CASE r \in Tables
  <2>1. PICK n \in 0..Ports(r) : v \in [1..n -> Byte]
    BY <1>1 DEF Value, Links
  <2>2. Len(v) = n
    BY <2>1, <1>1, SlotInMemory, SizeAssumption
  <2>3. x \in Address(r)..Address(r) + n
    BY <1>1, <2>2 DEF Writes
  <2>4. x \in Slot(r)
    BY <1>1, <2>3, SlotInMemory, SizeAssumption DEF Slot
  <2>5. CASE x = Address(r)
    <3>1. ByteOf(r, v, x) = n
      BY <1>1, <2>2, <2>5 DEF ByteOf
    <3>2. n \in Byte
      BY <1>1, SlotInMemory, SizeAssumption DEF Byte
    <3> QED BY <2>4, <3>1, <3>2
  <2>6. CASE x # Address(r)
    <3>1. x - Address(r) \in 1..n
      BY <2>3, <2>6, <1>1, SlotInMemory, SizeAssumption
    <3> QED BY <1>1, <2>1, <2>4, <2>6, <3>1 DEF ByteOf
  <2> QED BY <2>4, <2>5, <2>6
<1>2. CASE r = UpdateMode
  <2>1. x \in Slot(r) /\ x = Address(r) /\ v \in Byte /\ r \notin Tables
    BY <1>2, SlotInMemory DEF Writes, Slot, Value
  <2>2. ByteOf(r, v, x) = v % ByteSize
    BY <2>1 DEF ByteOf
  <2>3. v % ByteSize = v
    BY <2>1, SizeAssumption DEF Byte
  <2> QED BY <2>1, <2>2, <2>3
<1>3. CASE r \notin Tables /\ r # UpdateMode
  <2>1. x \in Slot(r) /\ v \in Word
    BY <1>3 DEF Writes, Value
  <2> QED BY <1>3, <2>1, WordInBytes DEF ByteOf
<1> QED BY <1>1, <1>2, <1>3

LEMMA OverwrittenType ==
  ASSUME memory \in Image, NEW values, Typed(values)
  PROVE  Overwritten(values) \in Image
<1>1. ASSUME NEW x \in Addresses, NEW r \in DOMAIN values, Writes(r, values[r], x)
      PROVE  ByteOf(r, values[r], x) \in Byte
  BY <1>1, WritesInSlot DEF Typed
<1>2. \A x \in Addresses : memory[x] \in Byte
  BY DEF Image
<1> QED BY <1>1, <1>2 DEF Overwritten, Image

LEMMA OverwrittenAt ==
  ASSUME NEW values, Typed(values), NEW r \in Records, NEW x \in Slot(r)
  PROVE  Overwritten(values)[x] =
           IF r \in DOMAIN values /\ Writes(r, values[r], x)
             THEN ByteOf(r, values[r], x) ELSE memory[x]
<1>1. x \in Addresses
  BY SlotInMemory
<1>2. ASSUME NEW q \in DOMAIN values, Writes(q, values[q], x) PROVE q = r
  <2>1. q \in Records /\ x \in Slot(q)
    BY <1>2, WritesInSlot DEF Typed
  <2> QED BY <2>1, SlotsApart, SlotInMemory DEF Slot
<1> QED BY <1>1, <1>2 DEF Overwritten

\* What was saved is what is loaded, and other records are left alone.
LEMMA LoadOverwritten ==
  ASSUME memory \in Image, Fits(memory), NEW values, Typed(values), NEW r \in Records
  PROVE  /\ Load(Overwritten(values), r) =
              IF r \in DOMAIN values THEN values[r] ELSE Load(memory, r)
         /\ r \in Tables => Overwritten(values)[Address(r)] <= Ports(r)
<1> DEFINE m == Overwritten(values)
           v == values[r]
<1>1. m \in Image
  BY OverwrittenType
<1>2. Address(r) \in Slot(r)
  BY SlotInMemory DEF Slot
<1>3. CASE r \notin DOMAIN values
  <2>1. \A x \in Slot(r) : m[x] = memory[x]
    BY <1>3, OverwrittenAt
  <2>2. Load(memory, r) = Load(m, r)
    BY <1>1, <2>1, LoadInSlot DEF Fits
  <2> QED BY <1>2, <1>3, <2>1, <2>2 DEF Fits
<1>4. CASE r \in DOMAIN values /\ r \in Tables
  <2>1. PICK n \in 0..Ports(r) : v \in [1..n -> Byte]
    BY <1>4 DEF Typed, Value, Links
  <2>2. Len(v) = n /\ n \in Nat
    BY <2>1, <1>4, SlotInMemory, SizeAssumption
  <2>3. m[Address(r)] = n
    BY <1>2, <1>4, <2>2, OverwrittenAt, SlotInMemory DEF Writes, ByteOf
  <2>4. ASSUME NEW k \in 1..n PROVE m[Address(r) + k] = v[k]
    <3>1. Address(r) + k \in Slot(r)
      BY <1>4, <2>1, <2>2, SlotInMemory, SizeAssumption DEF Slot
    <3>2. Writes(r, v, Address(r) + k)
      BY <1>4, <2>2, SlotInMemory DEF Writes
    <3>3. Address(r) + k # Address(r) /\ (Address(r) + k) - Address(r) = k
      BY <2>2, SlotInMemory
    <3> QED BY <1>4, <3>1, <3>2, <3>3, OverwrittenAt DEF ByteOf
  <2>5. Load(m, r) = [k \in 1..n |-> v[k]]
    BY <1>4, <2>3, <2>4 DEF Load
  <2> QED BY <1>4, <2>1, <2>2, <2>3, <2>5
<1>5. CASE r \in DOMAIN values /\ r = UpdateMode
  <2>1. r \notin Tables /\ v \in Byte
    BY <1>5, SlotInMemory DEF Typed, Value
  <2>2. m[Address(r)] = v % ByteSize
    BY <1>2, <1>5, <2>1, OverwrittenAt DEF Writes, ByteOf
  <2>3. v % ByteSize = v
    BY <2>1, SizeAssumption DEF Byte
  <2> QED BY <1>5, <2>1, <2>2, <2>3 DEF Load
<1>6. CASE r \in DOMAIN values /\ r \notin Tables /\ r # UpdateMode
  <2>1. v \in Word
    BY <1>6 DEF Typed, Value
  <2>2. Address(r) + 1 \in Slot(r) /\ Address(r) + 1 # Address(r)
    BY <1>6, SlotInMemory DEF Slot
  <2>3. m[Address(r)] = v % ByteSize
    BY <1>2, <1>6, OverwrittenAt DEF Writes, ByteOf
  <2>4. m[Address(r) + 1] = v \div ByteSize
    BY <1>6, <2>2, OverwrittenAt DEF Writes, ByteOf
  <2>5. Load(m, r) = v
    BY <1>6, <2>1, <2>3, <2>4, WordInBytes DEF Load
  <2> QED BY <1>6, <2>5
<1> QED BY <1>3, <1>4, <1>5, <1>6

-----------------------------------------------------------------------------
(* The inductive invariant.                                                *)

\* Up to some address the memory is the one that is to be, behind it the one
\* that was.
Front ==
  \E b \in Int : \A x \in Addresses :
    memory[x] = IF x < b THEN goal[x] ELSE start[x]

IInv ==
  /\ memory \in Image /\ goal \in Image /\ start \in Image
  /\ Fits(goal) /\ Fits(start)
  /\ Front
  /\ \A r \in Records : saved[r] = Load(goal, r)
  /\ saves \in 0..MaxSaves

\* The counts of links fit, in the middle of a save too.
LEMMA MemoryFits == ASSUME IInv PROVE Fits(memory)
BY SlotInMemory DEF IInv, Front, Fits, Records

LEMMA SavedType == ASSUME IInv, NEW r \in Records PROVE saved[r] \in Value(r)
BY LoadType DEF IInv, Fits

LEMMA AtFirst == ASSUME Init PROVE IInv
<1>0. 0 \in Byte /\ ByteSize - 1 \in Byte
  BY SizeAssumption DEF Byte
<1>1. /\ memory = [x \in Addresses |->
                     IF \E r \in Tables : x = Address(r) THEN 0 ELSE ByteSize - 1]
      /\ goal = memory /\ start = memory /\ saves = 0
      /\ saved = [r \in Records |-> Load(memory, r)]
  BY DEF Init
<1>2. memory \in Image
  BY <1>0, <1>1 DEF Image
<1>3. Fits(memory)
  <2>1. ASSUME NEW r \in Tables PROVE memory[Address(r)] = 0
    BY <1>1, SlotInMemory DEF Records
  <2> QED BY <2>1, SlotInMemory, SizeAssumption DEF Fits, Records
<1>4. Front
  <2>1. \A x \in Addresses : memory[x] = IF x < 0 THEN goal[x] ELSE start[x]
    BY <1>1
  <2> QED BY <2>1 DEF Front
<1>5. saves \in 0..MaxSaves
  <2>1. saves = 0
    BY <1>1
  <2>2. MaxSaves \in Nat
    BY ValueAssumption
  <2> QED BY <2>1, <2>2
<1>6. \A r \in Records : saved[r] = Load(goal, r)
  BY <1>1
<1>7. goal \in Image /\ start \in Image
  BY <1>1, <1>2
<1>8. Fits(goal) /\ Fits(start)
  BY <1>1, <1>3 DEF Fits
<1> QED BY <1>2, <1>4, <1>5, <1>6, <1>7, <1>8 DEF IInv

LEMMA SaveStep ==
  ASSUME IInv, NEW values, Typed(values), Save(values)
  PROVE  IInv'
<1>1. /\ memory = goal /\ memory' = memory /\ start' = memory
      /\ goal' = Overwritten(values) /\ saves' \in 0..MaxSaves
  BY ValueAssumption DEF Save, Idle, IInv
<1>2. Fits(memory)
  BY MemoryFits
<1>3. goal' \in Image
  BY <1>1, OverwrittenType DEF IInv
<1>4. Fits(goal')
  BY <1>1, <1>2, LoadOverwritten DEF Fits, Records, IInv
<1>5. Front'
  <2>1. \A x \in Addresses : memory'[x] = IF x < 0 THEN goal'[x] ELSE start'[x]
    BY <1>1 DEF Addresses
  <2> QED BY <2>1 DEF Front
<1>6. ASSUME NEW r \in Records PROVE saved'[r] = Load(goal', r)
  <2>1. Load(goal', r) = IF r \in DOMAIN values THEN values[r] ELSE Load(memory, r)
    BY <1>1, <1>2, LoadOverwritten DEF IInv
  <2>2. saved[r] = Load(memory, r)
    BY <1>1 DEF IInv
  <2> QED BY <2>1, <2>2 DEF Save
<1> QED BY <1>1, <1>2, <1>3, <1>4, <1>5, <1>6 DEF IInv, Fits

\* saveConnexions() gives every table the links of its ports.
LEMMA ConnexionsTyped ==
  ASSUME IInv, NEW values, DOMAIN values \subseteq Tables,
         \A r \in DOMAIN values : values[r] = saved[r] \/ values[r] \in Links(Ports(r))
  PROVE  Typed(values)
<1>1. \A r \in Tables : Value(r) = Links(Ports(r)) /\ r \in Records
  BY DEF Value, Records
<1> QED BY <1>1, SavedType DEF Typed

LEMMA InletPorts ==
  /\ \A r \in Inlets : r \in Tables /\ Ports(r) = FanIn
  /\ Ports(Outlet) = FanOut /\ Outlet \in Tables
BY DEF Inlets, Outlet, Tables, Ports

LEMMA EmptyAndSingle ==
  /\ \A n \in Nat : <<>> \in Links(n)
  /\ \A a \in Ids : <<a>> \in Links(FanIn) /\ <<a>> \in Links(FanOut)
<1>1. ASSUME NEW n \in Nat PROVE <<>> \in Links(n)
  <2>1. <<>> \in [1..0 -> Byte]
    OBVIOUS
  <2>2. 0 \in 0..n
    OBVIOUS
  <2> QED BY <2>1, <2>2 DEF Links
<1>2. ASSUME NEW a \in Ids PROVE <<a>> \in Links(FanIn) /\ <<a>> \in Links(FanOut)
  <2>1. a \in Byte
    BY ValueAssumption
  <2>2. <<a>> \in [1..1 -> Byte]
    BY <2>1
  <2>3. 1 \in 0..FanIn /\ 1 \in 0..FanOut
    BY SizeAssumption
  <2> QED BY <2>2, <2>3 DEF Links
<1> QED BY <1>1, <1>2

LEMMA Inductive == ASSUME IInv, [Next]_vars PROVE IInv'
<1>1. CASE SaveConnexions
  <2>1. ASSUME NEW r \in Tables, NEW new \in Links(Ports(r)),
               Save([Kept EXCEPT ![r] = new])
        PROVE  IInv'
    <3>1. Typed([Kept EXCEPT ![r] = new])
      BY ConnexionsTyped DEF Kept
    <3> QED BY <2>1, <3>1, SaveStep
  <2>2. ASSUME NEW r \in Inlets, NEW q \in Inlets, r # q,
               NEW left \in Links(FanIn), NEW new \in Links(FanIn),
               Save([Kept EXCEPT ![r] = left, ![q] = new])
        PROVE  IInv'
    <3>1. Typed([Kept EXCEPT ![r] = left, ![q] = new])
      BY <2>2, ConnexionsTyped, InletPorts DEF Kept
    <3> QED BY <2>2, <3>1, SaveStep
  <2>3. ASSUME NEW r \in Tables, NEW a \in Ids,
               Save([q \in Tables |->
                       IF q = r THEN <<a>> ELSE IF q \in Inlets THEN <<>> ELSE saved[q]])
        PROVE  IInv'
    <3> DEFINE values == [q \in Tables |->
                 IF q = r THEN <<a>> ELSE IF q \in Inlets THEN <<>> ELSE saved[q]]
    <3>1. \A q \in Tables : values[q] = saved[q] \/ values[q] \in Links(Ports(q))
      <4>1. FanIn \in Nat /\ FanOut \in Nat
        BY SizeAssumption
      <4>2. \A q \in Tables : <<a>> \in Links(Ports(q)) /\ <<>> \in Links(Ports(q))
        BY <4>1, InletPorts, EmptyAndSingle DEF Tables
      <4> QED BY <4>2
    <3>2. DOMAIN values = Tables
      OBVIOUS
    <3> HIDE DEF values
    <3>3. Typed(values)
      BY <3>1, <3>2, ConnexionsTyped
    <3> QED BY <2>3, <3>3, SaveStep DEF values
  <2> QED BY <1>1, <2>1, <2>2, <2>3 DEF SaveConnexions
<1>2. CASE ClearInletLinks
  <2>1. Typed(Bare)
    BY InletPorts, EmptyAndSingle, ConnexionsTyped, SizeAssumption DEF Bare
  <2> QED BY <1>2, <2>1, SaveStep DEF ClearInletLinks
<1>3. CASE ClearOutletLinks
  <2> DEFINE values == [r \in {Outlet} |-> <<>>]
  <2>1. Typed(values)
    BY InletPorts, EmptyAndSingle, ConnexionsTyped, SizeAssumption
  <2> QED BY <1>3, <2>1, SaveStep DEF ClearOutletLinks
<1>4. CASE SaveConditions
  <2>1. \A r \in Conditions : r \in Records /\ Value(r) = Word
    BY DEF Conditions, Records, Value, Tables, Inlets, Outlet, UpdateMode
  <2>2. ASSUME NEW values \in [Conditions -> Numbers] PROVE Typed(values)
    BY <2>1, ValueAssumption DEF Typed
  <2> QED BY <1>4, <2>2, SaveStep DEF SaveConditions
<1>5. CASE SaveData
  <2>1. \A r \in Data : r \in Records /\ Value(r) = Word
    BY DEF Data, Records, Value, Tables, Inlets, Outlet, UpdateMode
  <2>2. ASSUME NEW r \in Data, NEW n \in Numbers PROVE Typed([q \in {r} |-> n])
    BY <2>1, ValueAssumption DEF Typed
  <2> QED BY <1>5, <2>2, SaveStep DEF SaveData
<1>6. CASE SaveUpdateMode
  <2>1. UpdateMode \in Records /\ Value(UpdateMode) = Byte
    BY DEF Records, Value, Tables, Inlets, Outlet, UpdateMode
  <2>2. ASSUME NEW mode \in UpdateModes PROVE Typed([q \in {UpdateMode} |-> mode])
    BY <2>1, ValueAssumption DEF Typed
  <2> QED BY <1>6, <2>2, SaveStep DEF SaveUpdateMode
<1>7. CASE WriteByte
  <2>1. PICK x \in Addresses :
          /\ memory[x] # goal[x]
          /\ \A y \in Addresses : memory[y] # goal[y] => x <= y
          /\ memory' = [memory EXCEPT ![x] = goal[x]]
          /\ UNCHANGED <<goal, start, saved, saves>>
    BY <1>7 DEF WriteByte
  <2>2. memory' \in Image
    BY <2>1 DEF IInv, Image
  <2>3. PICK b \in Int : \A y \in Addresses :
          memory[y] = IF y < b THEN goal[y] ELSE start[y]
    BY DEF IInv, Front
  <2>4. x \in Int /\ x + 1 \in Int /\ \A y \in Addresses : y \in Int
    BY DEF Addresses
  <2>5. b <= x
    BY <2>1, <2>3, <2>4
  <2>6. ASSUME NEW y \in Addresses
        PROVE  memory'[y] = IF y < x + 1 THEN goal'[y] ELSE start'[y]
    <3>1. memory'[y] = IF y = x THEN goal[x] ELSE memory[y]
      BY <2>1 DEF IInv, Image
    <3>2. CASE y = x
      BY <2>1, <2>4, <3>1, <3>2
    <3>3. CASE y < x
      BY <2>1, <2>4, <3>1, <3>3
    <3>4. CASE x < y
      BY <2>1, <2>3, <2>4, <2>5, <3>1, <3>4
    <3> QED BY <2>4, <3>2, <3>3, <3>4
  <2>7. Front'
    BY <2>4, <2>6 DEF Front
  <2> QED BY <2>1, <2>2, <2>7 DEF IInv, Fits
<1>8. CASE PowerLoss
  <2>1. Front'
    <3>1. \A x \in Addresses : memory'[x] = IF x < 0 THEN goal'[x] ELSE start'[x]
      BY <1>8 DEF PowerLoss
    <3> QED BY <3>1 DEF Front
  <2> QED BY <1>8, <2>1, MemoryFits DEF PowerLoss, IInv, Fits
<1>9. CASE UNCHANGED vars
  BY <1>9 DEF vars, IInv, Fits, Front
<1> QED BY <1>1, <1>2, <1>3, <1>4, <1>5, <1>6, <1>7, <1>8, <1>9 DEF Next

\* The memory is at every moment made of the beginning of what it is to be and
\* the rest of what it was.
THEOREM StoreInvariance == Spec => []IInv
<1>1. Init => IInv
  BY AtFirst
<1>2. IInv /\ [Next]_vars => IInv'
  BY Inductive
<1> QED BY <1>1, <1>2, PTL DEF Spec

-----------------------------------------------------------------------------
(* What follows for a gluon that is switched off and on.                   *)

\* No byte, count or value leaves its range, whenever the power goes: no table
\* is read past its slot.
THEOREM StoreTypes == Spec => []TypeOK
<1>1. IInv => TypeOK
  BY MemoryFits, SavedType, LoadType DEF IInv, TypeOK, Image, Fits
<1> QED BY <1>1, StoreInvariance, PTL

\* Between saves every record is read as it was last saved: slots do not
\* overlap, and what is written is what is read.
THEOREM SavedRecordsAreLoaded == Spec => []SavedIsLoaded
<1>1. IInv => SavedIsLoaded
  BY DEF IInv, SavedIsLoaded, Idle
<1> QED BY <1>1, StoreInvariance, PTL

\* A power loss costs one record at most, for any number of records that a save
\* rewrites.
THEOREM OneRecordIsTorn == Spec => []WholeButOne
<1>1. ASSUME IInv PROVE WholeButOne
  <2>1. PICK b \in Int : \A x \in Addresses :
          memory[x] = IF x < b THEN goal[x] ELSE start[x]
    BY <1>1 DEF IInv, Front
  <2>2. ASSUME NEW r \in Records, Load(memory, r) \notin {Load(start, r), saved[r]}
        PROVE  Address(r) < b /\ b <= Last(r)
    <3>1. r \in Tables => memory[Address(r)] <= Ports(r)
      BY <1>1, MemoryFits DEF Fits
    <3>2. memory \in Image /\ goal \in Image /\ start \in Image /\ saved[r] = Load(goal, r)
      BY <1>1 DEF IInv
    <3>3. ASSUME Last(r) < b PROVE FALSE
      <4>1. \A x \in Slot(r) : memory[x] = goal[x]
        BY <2>1, <3>3, SlotInMemory DEF Slot
      <4> QED BY <2>2, <3>1, <3>2, <4>1, LoadInSlot
    <3>4. ASSUME b <= Address(r) PROVE FALSE
      <4>1. \A x \in Slot(r) : memory[x] = start[x]
        BY <2>1, <3>4, SlotInMemory DEF Slot
      <4> QED BY <2>2, <3>1, <3>2, <4>1, LoadInSlot
    <3> QED BY <3>3, <3>4, SlotInMemory
  <2>3. ASSUME NEW r \in Records, NEW q \in Records, r # q,
               Address(r) < b /\ b <= Last(r), Address(q) < b /\ b <= Last(q)
        PROVE  FALSE
    BY <2>3, SlotsApart, SlotInMemory
  <2> QED BY <2>2, <2>3 DEF WholeButOne
<1> QED BY <1>1, StoreInvariance, PTL

-----------------------------------------------------------------------------
(* The table that a power loss leaves.                                     *)

\* How the links of a table change in one save.
Follows(old, new) ==
  \/ new = old
  \/ Plugged(old, new)
  \/ Unplugged(old, new)
  \/ Len(new) = 0
  \/ Len(new) = 1

\* The save that is under way changes every table in one of these ways.
Changes == \A r \in Tables : Follows(Load(start, r), saved[r])

LEMMA LinksType ==
  ASSUME NEW n \in Nat, NEW v \in [1..n -> Byte]
  PROVE  /\ Len(v) = n /\ DOMAIN v = 1..n
         /\ Names(v) = {v[k] : k \in 1..n}
BY DEF Names

\* An id that stays is not moved towards the end of its table when another one is
\* taken out, and there are not more than before.
LEMMA PlacesGoUp ==
  ASSUME NEW n \in Nat, NEW m \in Nat, NEW place \in [1..m -> 1..n],
         \A i, k \in 1..m : i < k => place[i] < place[k]
  PROVE  /\ \A i \in 1..m : i <= place[i]
         /\ m <= n
<1>1. ASSUME NEW i \in 1..m PROVE i <= place[i]
  <2> DEFINE f == [k \in 1..i |-> place[k]]
  <2>1. place[i] \in 1..n /\ i \in Nat /\ place[i] \in Nat
    OBVIOUS
  <2>2. ASSUME NEW k \in 1..i PROVE f[k] \in 1..place[i]
    <3>1. k \in 1..m /\ place[k] \in 1..n
      BY <2>1
    <3>2. CASE k = i
      BY <2>1, <3>2
    <3>3. CASE k < i
      BY <2>1, <3>1, <3>3
    <3> QED BY <2>1, <3>2, <3>3
  <2>3. ASSUME NEW k \in 1..i, NEW j \in 1..i, f[k] = f[j] PROVE k = j
    <3>1. k \in 1..m /\ j \in 1..m /\ place[k] \in Int /\ place[j] \in Int
      BY <2>1
    <3>2. place[k] = place[j]
      BY <2>3
    <3> QED BY <3>1, <3>2
  <2>4. f \in Injection(1..i, 1..place[i])
    BY <2>2, <2>3 DEF Injection, IsInjective
  <2>5. IsFiniteSet(1..place[i]) /\ Cardinality(1..place[i]) = place[i]
        /\ Cardinality(1..i) = i
    BY <2>1, FS_Interval
  <2> HIDE DEF f
  <2> QED BY <2>4, <2>5, FS_Injection
<1>2. CASE m = 0
  BY <1>2
<1>3. CASE m > 0
  <2>1. m \in 1..m /\ place[m] \in 1..n
    BY <1>3
  <2> QED BY <1>1, <2>1
<1> QED BY <1>1, <1>2, <1>3

\* What a table may have lost, and what it may have got, says TornTable.
Lost(old, new, found)     == {a \in Names(old) \cap Names(new) : a \notin Names(found)}
Invented(old, new, found) == Names(found) \ (Names(old) \cup Names(new))

LittleLost(old, new, found) ==
  \/ Lost(old, new, found) = {}
  \/ Len(new) - Len(old) > 0 /\ \E a \in Lost(old, new, found) : Lost(old, new, found) = {a}
  \/ Len(new) - Len(old) < 0
     /\ \E f \in [1..(-(Len(new) - Len(old))) -> Names(old)] :
          Lost(old, new, found) \subseteq Names(f)

LittleInvented(old, new, found) ==
  \/ Invented(old, new, found) = {}
  \/ Len(new) - Len(old) > 0
     /\ \E a \in Invented(old, new, found) : Invented(old, new, found) = {a}

\* A table that is read as it was, or as it was to become, has lost nothing.
LEMMA WholeTable ==
  ASSUME NEW old, NEW new, NEW found, found = old \/ found = new
  PROVE  LittleLost(old, new, found) /\ LittleInvented(old, new, found)
BY DEF LittleLost, LittleInvented, Lost, Invented

\* A set whose members are all the same one has one member or none.
LEMMA AtMostOne ==
  ASSUME NEW S, NEW a, S \subseteq {a}
  PROVE  S = {} \/ \E b \in S : S = {b}
OBVIOUS

\* The first c - 1 ids are those of the new table, and the others those of the old
\* one or, behind its last, what an earlier table left.
LEMMA TornLinks ==
  ASSUME NEW n \in Nat, NEW m \in Nat, NEW c \in Nat,
         NEW old \in [1..n -> Byte], NEW new \in [1..m -> Byte], NEW found \in [1..m -> Byte],
         c >= 1, Follows(old, new),
         \A k \in 1..m : k < c => found[k] = new[k],
         \A k \in 1..m : k >= c /\ k <= n => found[k] = old[k]
  PROVE  LittleLost(old, new, found) /\ LittleInvented(old, new, found)
<1>0. /\ Len(old) = n /\ Names(old) = {old[k] : k \in 1..n} /\ DOMAIN old = 1..n
      /\ Len(new) = m /\ Names(new) = {new[k] : k \in 1..m} /\ DOMAIN new = 1..m
      /\ Names(found) = {found[k] : k \in 1..m}
  BY LinksType
<1>1. CASE new = old
  <2>1. n = m /\ found = new
    BY <1>0, <1>1
  <2> QED BY <2>1, WholeTable
<1>2. CASE Plugged(old, new)
  <2>1. PICK i \in 1..m : \A k \in 1..n : old[k] = new[IF k < i THEN k ELSE k + 1]
    BY <1>0, <1>2 DEF Plugged
  <2>2. m = n + 1
    BY <1>0, <1>2 DEF Plugged
  <2>3. ASSUME NEW a \in Lost(old, new, found) PROVE c - 1 \in 1..n /\ a = old[c - 1]
    <3>1. PICK k \in 1..n : a = old[k]
      BY <1>0 DEF Lost
    <3>2. k \in 1..m /\ found[k] # a
      BY <1>0, <2>2 DEF Lost
    <3>3. k < c
      BY <3>1, <3>2
    <3>4. k >= i
      BY <2>1, <3>1, <3>2, <3>3
    <3>5. a = new[k + 1] /\ k + 1 \in 1..m
      BY <2>1, <2>2, <3>1, <3>4
    <3>6. found[k + 1] # a
      BY <1>0, <3>5 DEF Lost
    <3>7. k + 1 >= c
      BY <3>5, <3>6
    <3> QED BY <3>1, <3>3, <3>7
  <2>4. LittleLost(old, new, found)
    <3>1. Lost(old, new, found) \subseteq {old[c - 1]}
      BY <2>3
    <3>2. m - n > 0
      BY <2>2
    <3> QED BY <1>0, <3>1, <3>2, AtMostOne DEF LittleLost
  <2>5. Invented(old, new, found) \subseteq {found[m]}
    <3>1. ASSUME NEW a \in Invented(old, new, found) PROVE a = found[m]
      <4>1. PICK k \in 1..m : a = found[k]
        BY <1>0 DEF Invented
      <4>2. a \notin Names(old) /\ a \notin Names(new)
        BY DEF Invented
      <4>3. k >= c
        BY <1>0, <4>1, <4>2
      <4>4. k > n
        BY <1>0, <4>1, <4>2, <4>3
      <4> QED BY <2>2, <4>1, <4>4
    <3> QED BY <3>1
  <2>6. LittleInvented(old, new, found)
    <3>1. m - n > 0
      BY <2>2
    <3> QED BY <1>0, <2>5, <3>1, AtMostOne DEF LittleInvented
  <2> QED BY <2>4, <2>6
<1>3. CASE Unplugged(old, new)
  <2>1. PICK place \in [1..m -> 1..n] :
          /\ \A i, k \in 1..m : i < k => place[i] < place[k]
          /\ \A i \in 1..m : new[i] = old[place[i]]
    <3>1. PICK a \in Ids :
            \E place \in [DOMAIN new -> {k \in DOMAIN old : old[k] # a}] :
              /\ \A i, k \in DOMAIN new : i < k => place[i] < place[k]
              /\ \A i \in DOMAIN new : new[i] = old[place[i]]
      BY <1>3, Zenon DEF Unplugged
    <3>2. [1..m -> {k \in 1..n : old[k] # a}] \subseteq [1..m -> 1..n]
      OBVIOUS
    <3>3. DOMAIN new = 1..m /\ DOMAIN old = 1..n
      BY <1>0
    <3> QED BY <3>1, <3>2, <3>3
  <2>3. m <= n /\ \A i \in 1..m : i <= place[i]
    BY <2>1, PlacesGoUp
  <2>4. Invented(old, new, found) = {}
    <3>1. ASSUME NEW k \in 1..m PROVE found[k] \in Names(old) \cup Names(new)
      BY <1>0, <2>3
    <3> QED BY <1>0, <3>1 DEF Invented
  <2>5. ASSUME NEW b \in Lost(old, new, found) PROVE \E k \in m + 1..n : b = old[k]
    <3>1. PICK i \in 1..m : b = new[i]
      BY <1>0 DEF Lost
    <3>2. found[i] # b
      BY <1>0 DEF Lost
    <3>3. i >= c
      BY <3>1, <3>2
    <3>4. place[i] \in 1..n /\ b = old[place[i]] /\ place[i] >= c
      BY <2>1, <2>3, <3>1, <3>3
    <3>5. ~(place[i] \in 1..m)
      <4>1. ASSUME place[i] \in 1..m PROVE FALSE
        <5>1. found[place[i]] = b
          BY <3>4, <4>1
        <5> QED BY <1>0, <4>1, <5>1 DEF Lost
      <4> QED BY <4>1
    <3> QED BY <3>4, <3>5
  <2>6. CASE n = m
    BY <2>5, <2>6, <2>4 DEF LittleLost, LittleInvented
  <2>7. CASE n > m
    <3> DEFINE f == [k \in 1..n - m |-> old[m + k]]
    <3>1. f \in [1..n - m -> Names(old)]
      BY <1>0, <2>7
    <3>2. Names(f) = {old[m + k] : k \in 1..n - m}
      BY DEF Names
    <3>3. ASSUME NEW b \in Lost(old, new, found) PROVE b \in Names(f)
      <4>1. PICK k \in m + 1..n : b = old[k]
        BY <2>5
      <4>2. k - m \in 1..n - m /\ old[m + (k - m)] = b
        BY <4>1
      <4> QED BY <3>2, <4>2
    <3>4. -(m - n) = n - m /\ m - n < 0
      BY <2>7
    <3> HIDE DEF f
    <3> QED BY <1>0, <2>4, <3>1, <3>3, <3>4 DEF LittleLost, LittleInvented
  <2> QED BY <2>3, <2>6, <2>7
<1>4. CASE m = 0
  <2>1. Names(new) = {} /\ Names(found) = {}
    BY <1>0, <1>4
  <2> QED BY <2>1 DEF LittleLost, LittleInvented, Lost, Invented
<1>5. CASE m = 1
  <2>1. Names(new) = {new[1]} /\ Names(found) = {found[1]}
    BY <1>0, <1>5
  <2>2. CASE c > 1
    BY <2>1, <2>2, <1>5 DEF LittleLost, LittleInvented, Lost, Invented
  <2>3. CASE c = 1 /\ n = 0
    <3>1. Names(old) = {}
      BY <1>0, <2>3
    <3>2. Lost(old, new, found) = {} /\ Invented(old, new, found) \subseteq {found[1]}
      BY <2>1, <3>1 DEF Lost, Invented
    <3>3. Len(new) - Len(old) > 0
      BY <1>0, <1>5, <2>3
    <3> QED BY <3>2, <3>3, AtMostOne DEF LittleLost, LittleInvented
  <2>4. CASE c = 1 /\ n > 0
    <3>1. found[1] = old[1] /\ old[1] \in Names(old)
      BY <1>0, <1>5, <2>4
    <3>2. Invented(old, new, found) = {}
      BY <2>1, <3>1 DEF Invented
    <3>3. Lost(old, new, found) \subseteq {new[1]}
      BY <2>1 DEF Lost
    <3>4. CASE n = 1
      <4>1. Names(old) = {old[1]}
        BY <1>0, <3>4
      <4> QED BY <2>1, <3>1, <3>2, <4>1 DEF LittleLost, LittleInvented, Lost
    <3>5. CASE n > 1 /\ Lost(old, new, found) # {}
      <4>1. new[1] \in Names(old)
        BY <3>3, <3>5 DEF Lost
      <4> DEFINE f == [k \in 1..n - 1 |-> new[1]]
      <4>2. f \in [1..n - 1 -> Names(old)]
        BY <4>1
      <4>3. new[1] \in Names(f)
        BY <3>5 DEF Names
      <4>4. -(m - n) = n - 1 /\ m - n < 0
        BY <1>5, <3>5
      <4> HIDE DEF f
      <4> QED BY <1>0, <3>2, <3>3, <4>2, <4>3, <4>4 DEF LittleLost, LittleInvented
    <3>6. CASE Lost(old, new, found) = {}
      BY <3>2, <3>6 DEF LittleLost, LittleInvented
    <3> QED BY <2>4, <3>4, <3>5, <3>6
  <2> QED BY <2>2, <2>3, <2>4
<1> QED BY <1>0, <1>1, <1>2, <1>3, <1>4, <1>5 DEF Follows

\* Changes holds after a save that changes every table as Follows says.
LEMMA SaveChanges ==
  ASSUME IInv, NEW values, Typed(values), Save(values),
         \A r \in DOMAIN values \cap Tables : Follows(saved[r], values[r])
  PROVE  Changes'
<1>1. ASSUME NEW r \in Tables PROVE Follows(Load(start', r), saved'[r])
  <2>1. r \in Records
    BY DEF Records
  <2>2. start' = goal
    BY DEF Save, Idle
  <2>3. Load(start', r) = saved[r]
    BY <2>1, <2>2 DEF IInv
  <2>4. saved'[r] = IF r \in DOMAIN values THEN values[r] ELSE saved[r]
    BY <2>1 DEF Save
  <2>5. CASE r \in DOMAIN values
    BY <2>3, <2>4, <2>5
  <2>6. CASE r \notin DOMAIN values
    BY <2>3, <2>4, <2>6 DEF Follows
  <2> QED BY <2>5, <2>6
<1> QED BY <1>1 DEF Changes

LEMMA ChangesStep == ASSUME IInv, Changes, [Next]_vars PROVE Changes'
<1>0. Len(<<>>) = 0 /\ \A a : Len(<<a>>) = 1
  OBVIOUS
<1>1. CASE SaveConnexions
  <2>1. ASSUME NEW r \in Tables, NEW new \in Links(Ports(r)),
               Plugged(saved[r], new) \/ Unplugged(saved[r], new),
               Save([Kept EXCEPT ![r] = new])
        PROVE  Changes'
    <3> DEFINE values == [Kept EXCEPT ![r] = new]
    <3>1. DOMAIN values = Tables
          /\ \A q \in Tables : values[q] = IF q = r THEN new ELSE saved[q]
      BY DEF Kept
    <3>2. \A q \in Tables : Follows(saved[q], values[q])
      BY <2>1, <3>1 DEF Follows
    <3>3. Typed(values)
      BY <3>1, ConnexionsTyped
    <3> HIDE DEF values
    <3> QED BY <2>1, <3>2, <3>3, SaveChanges DEF values
  <2>2. ASSUME NEW r \in Inlets, NEW q \in Inlets, r # q,
               NEW left \in Links(FanIn), NEW new \in Links(FanIn),
               Unplugged(saved[r], left), Plugged(saved[q], new),
               Save([Kept EXCEPT ![r] = left, ![q] = new])
        PROVE  Changes'
    <3> DEFINE values == [Kept EXCEPT ![r] = left, ![q] = new]
    <3>1. DOMAIN values = Tables
          /\ \A p \in Tables :
               values[p] = IF p = r THEN left ELSE IF p = q THEN new ELSE saved[p]
      BY <2>2, InletPorts DEF Kept
    <3>2. \A p \in Tables : Follows(saved[p], values[p])
      BY <2>2, <3>1 DEF Follows
    <3>3. Typed(values)
      BY <2>2, <3>1, InletPorts, ConnexionsTyped
    <3> HIDE DEF values
    <3> QED BY <2>2, <3>2, <3>3, SaveChanges DEF values
  <2>3. ASSUME NEW r \in Tables, NEW a \in Ids,
               Save([q \in Tables |->
                       IF q = r THEN <<a>> ELSE IF q \in Inlets THEN <<>> ELSE saved[q]])
        PROVE  Changes'
    <3> DEFINE values == [q \in Tables |->
                 IF q = r THEN <<a>> ELSE IF q \in Inlets THEN <<>> ELSE saved[q]]
    <3>1. DOMAIN values = Tables
          /\ \A q \in Tables : values[q] \in {<<a>>, <<>>, saved[q]}
      OBVIOUS
    <3>2. \A q \in Tables : values[q] = saved[q] \/ values[q] \in Links(Ports(q))
      <4>1. FanIn \in Nat /\ FanOut \in Nat
        BY SizeAssumption
      <4>2. \A q \in Tables : <<a>> \in Links(Ports(q)) /\ <<>> \in Links(Ports(q))
        BY <4>1, InletPorts, EmptyAndSingle DEF Tables
      <4> QED BY <4>2
    <3> HIDE DEF values
    <3>3. ASSUME NEW q \in Tables PROVE Follows(saved[q], values[q])
      <4>1. values[q] = <<a>> \/ values[q] = <<>> \/ values[q] = saved[q]
        BY <3>1
      <4> QED BY <1>0, <4>1, Zenon DEF Follows
    <3>4. \A q \in Tables : Follows(saved[q], values[q])
      BY <3>3
    <3>5. Typed(values)
      BY <3>1, <3>2, ConnexionsTyped
    <3> QED BY <2>3, <3>4, <3>5, SaveChanges DEF values
  <2> QED BY <1>1, <2>1, <2>2, <2>3 DEF SaveConnexions
<1>2. CASE ClearInletLinks
  <2>1. Typed(Bare)
    BY InletPorts, EmptyAndSingle, ConnexionsTyped, SizeAssumption DEF Bare
  <2>2. \A r \in Tables \cap DOMAIN Bare : Follows(saved[r], Bare[r])
    BY <1>0 DEF Bare, Follows
  <2> QED BY <1>2, <2>1, <2>2, SaveChanges DEF ClearInletLinks
<1>3. CASE ClearOutletLinks
  <2> DEFINE values == [r \in {Outlet} |-> <<>>]
  <2>1. Typed(values)
    BY InletPorts, EmptyAndSingle, ConnexionsTyped, SizeAssumption
  <2>2. \A r \in Tables \cap DOMAIN values : Follows(saved[r], values[r])
    BY <1>0 DEF Follows
  <2> QED BY <1>3, <2>1, <2>2, SaveChanges DEF ClearOutletLinks
<1>4. CASE SaveConditions
  <2>1. \A r \in Conditions : r \in Records /\ Value(r) = Word /\ r \notin Tables
    BY DEF Conditions, Records, Value, Tables, Inlets, Outlet, UpdateMode
  <2>2. ASSUME NEW values \in [Conditions -> Numbers]
        PROVE  Typed(values) /\ DOMAIN values \cap Tables = {}
    BY <2>1, ValueAssumption DEF Typed
  <2> QED BY <1>4, <2>2, SaveChanges DEF SaveConditions
<1>5. CASE SaveData
  <2>1. \A r \in Data : r \in Records /\ Value(r) = Word /\ r \notin Tables
    BY DEF Data, Records, Value, Tables, Inlets, Outlet, UpdateMode
  <2>2. ASSUME NEW r \in Data, NEW n \in Numbers
        PROVE  Typed([q \in {r} |-> n]) /\ DOMAIN [q \in {r} |-> n] \cap Tables = {}
    BY <2>1, ValueAssumption DEF Typed
  <2> QED BY <1>5, <2>2, SaveChanges DEF SaveData
<1>6. CASE SaveUpdateMode
  <2>1. UpdateMode \in Records /\ Value(UpdateMode) = Byte /\ UpdateMode \notin Tables
    BY DEF Records, Value, Tables, Inlets, Outlet, UpdateMode
  <2>2. ASSUME NEW mode \in UpdateModes
        PROVE  Typed([q \in {UpdateMode} |-> mode])
               /\ DOMAIN [q \in {UpdateMode} |-> mode] \cap Tables = {}
    BY <2>1, ValueAssumption DEF Typed
  <2> QED BY <1>6, <2>2, SaveChanges DEF SaveUpdateMode
<1>7. CASE WriteByte
  BY <1>7 DEF WriteByte, Changes
<1>8. CASE PowerLoss
  <2>1. ASSUME NEW r \in Tables PROVE saved'[r] = Load(start', r)
    BY <1>8 DEF PowerLoss, Records
  <2> QED BY <2>1 DEF Changes, Follows
<1>9. CASE UNCHANGED vars
  BY <1>9 DEF vars, Changes
<1> QED BY <1>1, <1>2, <1>3, <1>4, <1>5, <1>6, <1>7, <1>8, <1>9 DEF Next

\* A power loss in the middle of a table costs no more of the links that were to stay
\* than the save was adding or deleting, and brings back one old link at most: for
\* all sizes of tables.
THEOREM TornTableIsBounded == Spec => []TornTable
<1>1. Init => Changes
  <2> SUFFICES ASSUME Init, NEW r \in Tables PROVE saved[r] = Load(start, r)
    BY DEF Changes, Follows
  <2>1. saved = [q \in Records |-> Load(memory, q)] /\ start = memory /\ r \in Records
    BY Zenon DEF Init, Records
  <2> QED BY <2>1
<1>2. IInv /\ Changes /\ [Next]_vars => Changes'
  BY ChangesStep
<1>3. ASSUME IInv, Changes, NEW r \in Tables
      PROVE  /\ LittleLost(Load(start, r), saved[r], Load(memory, r))
             /\ LittleInvented(Load(start, r), saved[r], Load(memory, r))
  <2> DEFINE first == Address(r)
  <2>0. r \in Records /\ first \in Int /\ Last(r) = first + Ports(r) /\ Ports(r) \in Nat
    BY SlotInMemory, SizeAssumption DEF Records
  <2>1. PICK b \in Int : \A x \in Addresses :
          memory[x] = IF x < b THEN goal[x] ELSE start[x]
    BY <1>3 DEF IInv, Front
  <2>2. /\ memory \in Image /\ goal \in Image /\ start \in Image
        /\ saved[r] = Load(goal, r) /\ Fits(memory)
        /\ goal[first] \in 0..Ports(r) /\ start[first] \in 0..Ports(r)
    <3>1. goal[first] \in Byte /\ start[first] \in Byte
      BY <1>3, <2>0, SlotInMemory DEF IInv, Image
    <3> QED BY <1>3, <2>0, <3>1, Bytes, MemoryFits DEF IInv, Fits
  <2>3. CASE b <= first
    <3>1. \A x \in Slot(r) : memory[x] = start[x]
      BY <2>0, <2>1, <2>3, SlotInMemory DEF Slot
    <3>2. Load(memory, r) = Load(start, r)
      BY <2>0, <2>2, <3>1, LoadInSlot DEF Fits
    <3> QED BY <3>2, WholeTable
  <2>4. CASE first < b
    <3> DEFINE m     == goal[first]
               n     == start[first]
               c     == b - first
               old   == Load(start, r)
               new   == saved[r]
               found == Load(memory, r)
    <3>1. memory[first] = m /\ m \in Nat /\ n \in Nat /\ c \in Nat /\ c >= 1
      BY <2>0, <2>1, <2>2, <2>4, SlotInMemory
    <3>2. \A k \in 1..Ports(r) : first + k \in Slot(r) /\ first + k \in Addresses
      BY <2>0, SlotInMemory DEF Slot
    <3>3. \A k \in 1..Ports(r) : /\ memory[first + k] \in Byte
                                 /\ goal[first + k] \in Byte
                                 /\ start[first + k] \in Byte
      BY <2>2, <3>2 DEF Image
    <3>4. /\ old = [k \in 1..n |-> start[first + k]]
          /\ new = [k \in 1..m |-> goal[first + k]]
          /\ found = [k \in 1..m |-> memory[first + k]]
      BY <2>2, <3>1 DEF Load
    <3>5. old \in [1..n -> Byte] /\ new \in [1..m -> Byte] /\ found \in [1..m -> Byte]
      BY <2>0, <2>2, <3>3, <3>4
    <3>6. ASSUME NEW k \in 1..m, k < c PROVE found[k] = new[k]
      <4>1. first + k < b /\ first + k \in Addresses
        BY <2>0, <2>2, <3>1, <3>2, <3>6
      <4> QED BY <2>1, <3>4, <4>1
    <3>7. ASSUME NEW k \in 1..m, k >= c, k <= n PROVE found[k] = old[k]
      <4>1. ~(first + k < b) /\ first + k \in Addresses /\ k \in 1..n
        BY <2>0, <2>2, <3>1, <3>2, <3>7
      <4> QED BY <2>1, <3>4, <4>1
    <3>8. Follows(old, new)
      BY <1>3 DEF Changes
    <3> HIDE DEF m, n, c, old, new, found
    <3>9. LittleLost(old, new, found) /\ LittleInvented(old, new, found)
      BY <3>1, <3>5, <3>6, <3>7, <3>8, TornLinks
    <3> QED BY <3>9 DEF old, new, found
  <2> QED BY <2>0, <2>3, <2>4
<1>4. IInv /\ Changes => TornTable
  BY <1>3 DEF TornTable, LittleLost, LittleInvented, Lost, Invented
<1> QED BY <1>1, <1>2, <1>4, StoreInvariance, PTL DEF Spec

-----------------------------------------------------------------------------
(* The bytes are a store of records.                                       *)

\* A word is made of its two bytes in one way only.
LEMMA OneWayToSplit ==
  ASSUME NEW a \in Byte, NEW b \in Byte, NEW c \in Byte, NEW d \in Byte,
         a + ByteSize * b = c + ByteSize * d
  PROVE  a = c /\ b = d
<1>1. /\ a \in Nat /\ b \in Nat /\ c \in Nat /\ d \in Nat
      /\ a < ByteSize /\ c < ByteSize /\ ByteSize \in Nat
  BY Bytes, SizeAssumption
<1>2. ASSUME NEW i \in Nat, NEW j \in Nat, i < j
      PROVE  ByteSize * i + ByteSize <= ByteSize * j
  <2>1. ByteSize * (i + 1) <= ByteSize * j
    BY <1>1, <1>2
  <2>2. ByteSize * (i + 1) = ByteSize * i + ByteSize
    BY <1>1
  <2> QED BY <2>1, <2>2
<1>3. ByteSize * b \in Nat /\ ByteSize * d \in Nat
  BY <1>1
<1>4. ~(b < d)
  BY <1>1, <1>2, <1>3
<1>5. ~(d < b)
  BY <1>1, <1>2, <1>3
<1>6. b = d
  BY <1>1, <1>4, <1>5
<1> QED BY <1>1, <1>3, <1>6

\* A record that can be read as it is to become stays so: the rest of its bytes
\* changes nothing.
LEMMA FinishedStays ==
  ASSUME NEW m \in Image, NEW n \in Image, NEW g \in Image, NEW r \in Records,
         r \in Tables => m[Address(r)] <= Ports(r),
         \A x \in Slot(r) : n[x] \in {m[x], g[x]},
         Load(m, r) = Load(g, r)
  PROVE  Load(n, r) = Load(m, r)
<1>1. Address(r) \in Slot(r)
  BY SlotInMemory DEF Slot
<1>2. CASE r \in Tables
  <2>1. m[Address(r)] \in Nat /\ g[Address(r)] \in Nat
    BY <1>1, SlotInMemory, Bytes DEF Image
  <2>2. /\ Load(m, r) = [k \in 1..m[Address(r)] |-> m[Address(r) + k]]
        /\ Load(g, r) = [k \in 1..g[Address(r)] |-> g[Address(r) + k]]
        /\ Load(n, r) = [k \in 1..n[Address(r)] |-> n[Address(r) + k]]
    BY <1>2 DEF Load
  <2>3. 1..m[Address(r)] = 1..g[Address(r)]
    BY <2>2
  <2>4. m[Address(r)] = g[Address(r)]
    <3>1. m[Address(r)] \in 1..m[Address(r)] \/ m[Address(r)] = 0
      BY <2>1
    <3>2. g[Address(r)] \in 1..g[Address(r)] \/ g[Address(r)] = 0
      BY <2>1
    <3> QED BY <2>1, <2>3, <3>1, <3>2
  <2>5. n[Address(r)] = m[Address(r)]
    BY <1>1, <2>4
  <2>6. ASSUME NEW k \in 1..m[Address(r)]
        PROVE  n[Address(r) + k] = m[Address(r) + k]
    <3>1. Address(r) + k \in Slot(r)
      BY <1>2, <2>1, SlotInMemory, SizeAssumption DEF Slot
    <3>2. m[Address(r) + k] = Load(m, r)[k] /\ g[Address(r) + k] = Load(g, r)[k]
      BY <2>2, <2>3
    <3>3. m[Address(r) + k] = g[Address(r) + k]
      BY <3>2
    <3> QED BY <3>1, <3>3
  <2> QED BY <2>2, <2>5, <2>6
<1>3. CASE r = UpdateMode
  BY <1>1, <1>3, SlotInMemory DEF Load
<1>4. CASE r \notin Tables /\ r # UpdateMode
  <2>1. Address(r) + 1 \in Slot(r)
    BY <1>4, SlotInMemory DEF Slot
  <2>2. /\ m[Address(r)] \in Byte /\ m[Address(r) + 1] \in Byte
        /\ g[Address(r)] \in Byte /\ g[Address(r) + 1] \in Byte
    BY <1>1, <2>1, SlotInMemory DEF Image
  <2>3. m[Address(r)] + ByteSize * m[Address(r) + 1]
          = g[Address(r)] + ByteSize * g[Address(r) + 1]
    BY <1>4 DEF Load
  <2>4. m[Address(r)] = g[Address(r)] /\ m[Address(r) + 1] = g[Address(r) + 1]
    BY <2>2, <2>3, OneWayToSplit
  <2>5. n[Address(r)] = m[Address(r)] /\ n[Address(r) + 1] = m[Address(r) + 1]
    BY <1>1, <2>1, <2>4
  <2> QED BY <1>4, <2>5 DEF Load
<1> QED BY <1>2, <1>3, <1>4

\* The next byte belongs to one record at most; those below it are finished, those
\* above it are not begun, so that only this one can be torn.
LEMMA WriteByteRewrites ==
  ASSUME IInv, IInv', WriteByte
  PROVE  (\E r \in Records : Store!Rewrite(r)) \/ UNCHANGED Store!contents
<1>1. PICK x \in Addresses :
        /\ memory[x] # goal[x]
        /\ \A y \in Addresses : memory[y] # goal[y] => x <= y
        /\ memory' = [memory EXCEPT ![x] = goal[x]]
        /\ UNCHANGED <<goal, start, saved, saves>>
  BY DEF WriteByte
<1>2. PICK b \in Int : \A y \in Addresses :
        memory[y] = IF y < b THEN goal[y] ELSE start[y]
  BY DEF IInv, Front
<1>3. x \in Int /\ \A y \in Addresses : y \in Int
  BY DEF Addresses
<1>4. \A y \in Addresses : /\ y < x => memory[y] = goal[y]
                           /\ x <= y => memory[y] = start[y]
  BY <1>1, <1>2, <1>3
<1>5. /\ memory \in Image /\ memory' \in Image /\ goal \in Image /\ start \in Image
      /\ \A y \in Addresses : memory'[y] = IF y = x THEN goal[x] ELSE memory[y]
  BY <1>1 DEF IInv, Image
<1>6. Fits(memory) /\ Fits(memory')
  <2>1. Fits(memory) /\ Fits(goal)
    BY MemoryFits DEF IInv
  <2> QED BY <1>5, <2>1, SlotInMemory DEF Fits, Records
<1>7. /\ Contents(start)' = Contents(start) /\ saved' = saved
  BY <1>1 DEF Contents
<1>8. ASSUME NEW q \in Records, x \notin Slot(q)
      PROVE  /\ Load(memory', q) = Load(memory, q)
             /\ Load(memory, q) \in {Load(start, q), saved[q]}
  <2>1. \A y \in Slot(q) : memory'[y] = memory[y]
    BY <1>5, <1>8, SlotInMemory
  <2>2. Load(memory, q) = Load(memory', q)
    BY <1>5, <1>6, <2>1, LoadInSlot DEF Fits
  <2>3. CASE Last(q) < x
    <3>1. \A y \in Slot(q) : memory[y] = goal[y]
      BY <1>3, <1>4, <2>3, SlotInMemory DEF Slot
    <3>2. Load(memory, q) = Load(goal, q)
      BY <1>5, <1>6, <3>1, LoadInSlot DEF Fits
    <3> QED BY <2>2, <3>2 DEF IInv
  <2>4. CASE x < Address(q)
    <3>1. \A y \in Slot(q) : memory[y] = start[y]
      BY <1>3, <1>4, <2>4, SlotInMemory DEF Slot
    <3>2. Load(memory, q) = Load(start, q)
      BY <1>5, <1>6, <3>1, LoadInSlot DEF Fits
    <3> QED BY <2>2, <3>2
  <2> QED BY <1>3, <1>8, <2>3, <2>4, SlotInMemory DEF Slot
<1>9. CASE \E r \in Records : x \in Slot(r)
  <2>1. PICK r \in Records : x \in Slot(r)
    BY <1>9
  <2>2. \A q \in Records \ {r} : x \notin Slot(q)
    BY <1>3, <2>1, SlotsApart, SlotInMemory DEF Slot
  <2>3. \A q \in Records \ {r} :
          /\ Load(memory', q) = Load(memory, q)
          /\ Load(memory, q) \in {Load(start, q), saved[q]}
    BY <1>8, <2>2
  <2>4. Load(memory', r) \in Value(r)
    BY <1>5, <1>6, LoadType DEF Fits
  <2>5. Contents(memory)' = [Contents(memory) EXCEPT ![r] = Load(memory', r)]
    BY <2>3 DEF Contents
  <2>6. CASE Load(memory, r) # saved[r]
    <3>1. Contents(memory)[r] # saved[r]
      BY <2>6 DEF Contents
    <3>2. \A q \in Records \ {r} :
            Contents(memory)[q] \in {Contents(start)[q], saved[q]}
      BY <2>3 DEF Contents
    <3>3. Store!Rewrite(r)
      BY <1>7, <2>4, <2>5, <3>1, <3>2 DEF Store!Rewrite, Store!Torn
    <3> QED BY <3>3
  <2>7. CASE Load(memory, r) = saved[r]
    <3>1. Load(memory, r) = Load(goal, r)
      BY <2>7 DEF IInv
    <3>2. \A y \in Slot(r) : memory'[y] \in {memory[y], goal[y]}
      BY <1>5, SlotInMemory
    <3>3. Load(memory', r) = Load(memory, r)
      BY <1>5, <1>6, <3>1, <3>2, FinishedStays DEF Fits
    <3>4. Contents(memory)' = Contents(memory)
      BY <2>3, <3>3 DEF Contents
    <3> QED BY <1>7, <3>4 DEF Store!contents
  <2> QED BY <2>6, <2>7
<1>10. CASE ~\E r \in Records : x \in Slot(r)
  <2>1. \A q \in Records : Load(memory', q) = Load(memory, q)
    BY <1>8, <1>10
  <2>2. Contents(memory)' = Contents(memory)
    BY <2>1 DEF Contents
  <2> QED BY <1>7, <2>2 DEF Store!contents
<1> QED BY <1>9, <1>10

\* Nothing is saved before what was saved last can be read.
LEMMA SaveSaves ==
  ASSUME IInv, IInv', NEW values, Save(values)
  PROVE  Store!Save
<1>1. /\ memory = goal /\ memory' = memory /\ start' = memory
      /\ saved' = [r \in Records |-> IF r \in DOMAIN values THEN values[r] ELSE saved[r]]
  BY DEF Save, Idle
<1>2. \A r \in Records : Contents(memory)[r] = saved[r]
  BY <1>1 DEF IInv, Contents
<1>3. Contents(start)' = Contents(memory) /\ Contents(memory)' = Contents(memory)
  BY <1>1 DEF Contents
<1>4. \A r \in Records : saved'[r] \in Value(r)
  BY LoadType DEF IInv, Fits
<1>5. saved' = [r \in Records |-> saved'[r]]
  BY <1>1
<1> QED BY <1>2, <1>3, <1>4, <1>5 DEF Store!Save

\* The program that writes byte after byte implements a store that writes record
\* after record.
THEOREM StoreOfRecords == Spec => ImplementsRecordStore
<1>1. Init => Store!Init
  <2> SUFFICES ASSUME Init PROVE Store!Init
    OBVIOUS
  <2>1. IInv /\ start = memory /\ saved = Contents(memory)
    BY AtFirst DEF Init, Contents
  <2>2. \A r \in Records : Load(memory, r) \in Value(r)
    BY <2>1, MemoryFits, LoadType DEF IInv, Fits
  <2> QED BY <2>1, <2>2 DEF Store!Init, Contents
<1>2. IInv /\ IInv' /\ [Next]_vars => [Store!Next]_(Store!contents)
  <2> SUFFICES ASSUME IInv, IInv', [Next]_vars
               PROVE  Store!Next \/ UNCHANGED Store!contents
    OBVIOUS
  <2>1. CASE SaveConnexions \/ ClearInletLinks \/ ClearOutletLinks
             \/ SaveConditions \/ SaveData \/ SaveUpdateMode
    <3>1. \E values : Save(values)
      BY <2>1 DEF SaveConnexions, ClearInletLinks, ClearOutletLinks,
                  SaveConditions, SaveData, SaveUpdateMode
    <3> QED BY <3>1, SaveSaves DEF Store!Next
  <2>2. CASE WriteByte
    BY <2>2, WriteByteRewrites DEF Store!Next
  <2>3. CASE PowerLoss
    <3>1. saved' = Contents(memory) /\ start' = memory /\ memory' = memory
      BY <2>3 DEF PowerLoss, Contents
    <3>2. Contents(start)' = Contents(memory) /\ Contents(memory)' = Contents(memory)
      BY <3>1 DEF Contents
    <3>3. Store!PowerLoss
      BY <3>1, <3>2 DEF Store!PowerLoss
    <3> QED BY <3>3 DEF Store!Next
  <2>4. CASE UNCHANGED vars
    BY <2>4 DEF vars, Store!contents, Contents
  <2> QED BY <2>1, <2>2, <2>3, <2>4 DEF Next
<1> QED
  BY <1>1, <1>2, StoreInvariance, PTL DEF Spec, ImplementsRecordStore, Store!Spec
=============================================================================
