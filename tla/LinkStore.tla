----------------------------- MODULE LinkStore -----------------------------
(***************************************************************************)
(* The EEPROM of a gluon, byte by byte (nonVolatileData.cpp and .h), and a *)
(* power loss between any two writes.                                      *)
(*                                                                         *)
(* What GluonLinks saves in one step is here a row of EEPROM.update(): the *)
(* tables of links, count first and then the ids of the active ports, the  *)
(* learnt conditions and the data of the logic, low byte first, and the    *)
(* update mode.  update() writes a byte only if it differs.  The addresses *)
(* are those of the code.  The numbers of inlets and outlets (addresses 10 *)
(* and 11) are written with each table but never change.                   *)
(***************************************************************************)
EXTENDS Integers, LinkTable

CONSTANTS
  ByteSize,     \* the values of a byte, 256
  NumInlets,    \* inlets of the gluon; the map has room for three
  FanIn,        \* ports of an inlet, MAX_FAN_IN
  FanOut,       \* ports of the outlet, MAX_FAN_OUT
  NumSensors,   \* sensors with conditions; the map has room for two
  NumData,      \* words of the logic
  Numbers,      \* what is learnt, or chosen by a user, as a word
  UpdateModes,  \* the masks of update modes
  MaxSaves      \* bound: the saves of one behaviour

Byte == 0..ByteSize - 1
Word == 0..ByteSize * ByteSize - 1

ASSUME SizeAssumption ==
  /\ ByteSize \in Nat /\ ByteSize > 3
  /\ NumInlets \in 1..3
  /\ FanIn \in 1..ByteSize - 1
  /\ FanOut \in 1..ByteSize - 1
  /\ NumSensors \in 0..2
  /\ NumData \in Nat
ASSUME ValueAssumption ==
  /\ Ids \subseteq Byte
  /\ Numbers \subseteq Word
  /\ UpdateModes \subseteq Byte
  /\ MaxSaves \in Nat

VARIABLES
  memory,   \* memory[x]: the byte at address x
  goal,     \* what the save under way makes of it; memory, if there is none
  start,    \* history: the memory when that save began
  saved,    \* history: the value last given to each record
  saves     \* the saves so far, for the bound

vars == <<memory, goal, start, saved, saves>>

-----------------------------------------------------------------------------
(* The map of the memory (nonVolatileData.h:25-65, 122-128).               *)

Inlets     == {"inlet"} \X (0..NumInlets - 1)
Outlet     == <<"outlet", 0>>
Tables     == Inlets \cup {Outlet}
Conditions == {"condition", "tolerance"} \X (0..NumSensors - 1)
Data       == {"data"} \X (0..NumData - 1)
UpdateMode == <<"mode", 0>>
Records    == Tables \cup Conditions \cup Data \cup {UpdateMode}

\* A mutation: the byte that holds the number of links is forgotten.
AddressInletNoCount(i) == 12 + i * FanIn

AddressInlet(i) == 12 + i * (FanIn + 1)
AddressOutlet   == AddressInlet(3)
AddressData(i)  == AddressOutlet + FanOut + 1 + 2 * i

Address(r) ==
  CASE r[1] = "condition" -> 1 + 4 * r[2]
    [] r[1] = "tolerance" -> 3 + 4 * r[2]
    [] r[1] = "mode"      -> 9
    [] r[1] = "inlet"     -> AddressInlet(r[2])
    [] r[1] = "outlet"    -> AddressOutlet
    [] r[1] = "data"      -> AddressData(r[2])

Ports(r) == IF r = Outlet THEN FanOut ELSE FanIn

\* The last address that belongs to record r.
Last(r) ==
  IF r \in Tables THEN Address(r) + Ports(r)
    ELSE IF r = UpdateMode THEN Address(r) ELSE Address(r) + 1

Slot(r)   == Address(r)..Last(r)
Addresses == 0..AddressData(NumData)

-----------------------------------------------------------------------------
(* Values of records, how they are written and what is read back.          *)

Links(size) == UNION {[1..n -> Byte] : n \in 0..size}

Value(r) ==
  IF r \in Tables THEN Links(Ports(r)) ELSE IF r = UpdateMode THEN Byte ELSE Word

\* Byte x of record r, when it is saved with value v.  Behind the last id of a
\* table nothing is written.
Writes(r, v, x) ==
  \/ r \notin Tables /\ x \in Slot(r)
  \/ r \in Tables /\ x \in Address(r)..Address(r) + Len(v)

ByteOf(r, v, x) ==
  IF r \in Tables
    THEN IF x = Address(r) THEN Len(v) ELSE v[x - Address(r)]
    ELSE IF x = Address(r) THEN v % ByteSize ELSE v \div ByteSize

\* A mutation: the high byte is added without being shifted.
LoadUnshifted(m, r) ==
  IF r \in Tables
    THEN [k \in 1..m[Address(r)] |-> m[Address(r) + k]]
    ELSE IF r = UpdateMode THEN m[Address(r)]
    ELSE m[Address(r)] + m[Address(r) + 1]

\* getInlet, getOutlet, loadConditionValue, loadToleranceValue, loadData and
\* loadUpdateMode.
Load(m, r) ==
  IF r \in Tables
    THEN [k \in 1..m[Address(r)] |-> m[Address(r) + k]]
    ELSE IF r = UpdateMode THEN m[Address(r)]
    ELSE m[Address(r)] + ByteSize * m[Address(r) + 1]

-----------------------------------------------------------------------------

Idle == memory = goal

Overwritten(values) ==
  [x \in Addresses |->
     IF \E r \in DOMAIN values : Writes(r, values[r], x)
       THEN LET r == CHOOSE r \in DOMAIN values : Writes(r, values[r], x)
            IN  ByteOf(r, values[r], x)
       ELSE memory[x]]

\* A mutation: the tables are emptied before they are written.
SaveFromBlank(values) ==
  /\ Idle
  /\ saves < MaxSaves
  /\ saves' = saves + 1
  /\ start'  = memory
  /\ goal'   = Overwritten(values)
  /\ memory' = [x \in Addresses |->
                  IF \E r \in DOMAIN values \cap Tables : x = Address(r)
                    THEN 0 ELSE memory[x]]
  /\ saved'  = [r \in Records |-> IF r \in DOMAIN values THEN values[r] ELSE saved[r]]

\* A mutation: a save may begin in the middle of another one.
SaveAtAnyTime(values) ==
  /\ saves < MaxSaves
  /\ saves' = saves + 1
  /\ start' = memory
  /\ goal'  = Overwritten(values)
  /\ saved' = [r \in Records |-> IF r \in DOMAIN values THEN values[r] ELSE saved[r]]
  /\ UNCHANGED memory

\* The loop begins to write the new values of some records.
Save(values) ==
  /\ Idle
  /\ saves < MaxSaves
  /\ saves' = saves + 1
  /\ start' = memory
  /\ goal'  = Overwritten(values)
  /\ saved' = [r \in Records |-> IF r \in DOMAIN values THEN values[r] ELSE saved[r]]
  /\ UNCHANGED memory

Bare == [r \in Inlets |-> <<>>]
Kept == [r \in Tables |-> saved[r]]

\* saveConnexions() after a link was made, deleted, or moved to another inlet, or
\* after one was made, at an inlet or at the outlet, and RESET_CON had cleared the
\* inlets in RAM before.  That there is nothing else GluonLinks!SavesAreSmall shows.
SaveConnexions ==
  \/ \E r \in Tables : \E new \in Links(Ports(r)) :
       /\ Plugged(saved[r], new) \/ Unplugged(saved[r], new)
       /\ Save([Kept EXCEPT ![r] = new])
  \/ \E r, q \in Inlets : \E left \in Links(FanIn) :
       /\ r # q
       /\ Unplugged(saved[r], left)
       /\ \E new \in Links(FanIn) :
            /\ Plugged(saved[q], new)
            /\ Save([Kept EXCEPT ![r] = left, ![q] = new])
  \/ \E r \in Tables : \E a \in Ids :
       Save([q \in Tables |->
               IF q = r THEN <<a>> ELSE IF q \in Inlets THEN <<>> ELSE saved[q]])

\* The clear keys and RESET_CON.  (Clearing everything does both.)
ClearInletLinks == Save(Bare)
ClearOutletLinks == Save([r \in {Outlet} |-> <<>>])

\* learnAnalogConditions() saves the conditions of every sensor.
SaveConditions ==
  \E values \in [Conditions -> Numbers] : Save(values)

SaveData == \E r \in Data : \E n \in Numbers : Save([q \in {r} |-> n])

SaveUpdateMode == \E mode \in UpdateModes : Save([q \in {UpdateMode} |-> mode])

\* A mutation: the counts of all tables are written before any id.
WriteCountsFirst ==
  \E x \in Addresses :
    /\ memory[x] # goal[x]
    /\ \A y \in Addresses :
         memory[y] # goal[y] =>
           \/ x <= y /\ ~(\E r \in Tables : y = Address(r))
           \/ x <= y /\ (\E r \in Tables : x = Address(r))
           \/ (\E r \in Tables : x = Address(r)) /\ ~(\E r \in Tables : y = Address(r))
    /\ memory' = [memory EXCEPT ![x] = goal[x]]
    /\ UNCHANGED <<goal, start, saved, saves>>

\* EEPROM.update() of the next byte that differs: saves go up in addresses.
WriteByte ==
  \E x \in Addresses :
    /\ memory[x] # goal[x]
    /\ \A y \in Addresses : memory[y] # goal[y] => x <= y
    /\ memory' = [memory EXCEPT ![x] = goal[x]]
    /\ UNCHANGED <<goal, start, saved, saves>>

\* The gluon is switched off and on: it goes on with what it can read.
PowerLoss ==
  /\ saved' = [r \in Records |-> Load(memory, r)]
  /\ goal'  = memory
  /\ start' = memory
  /\ UNCHANGED <<memory, saves>>

-----------------------------------------------------------------------------

\* A gluon after its first build: no links, and the bytes of the factory.
Init ==
  /\ memory = [x \in Addresses |->
                 IF \E r \in Tables : x = Address(r) THEN 0 ELSE ByteSize - 1]
  /\ goal = memory
  /\ start = memory
  /\ saved = [r \in Records |-> Load(memory, r)]
  /\ saves = 0

Next ==
  \/ SaveConnexions
  \/ ClearInletLinks
  \/ ClearOutletLinks
  \/ SaveConditions
  \/ SaveData
  \/ SaveUpdateMode
  \/ WriteByte
  \/ PowerLoss

Spec == Init /\ [][Next]_vars

-----------------------------------------------------------------------------
(* Properties.                                                             *)

\* Every byte is a byte, and every record holds a value of its kind.  So no
\* table has more links than ports, also after a save that was cut short: the
\* ids that getInlet() reads behind the count (nonVolatileData.cpp:20) are
\* those of its own slot.
TypeOK ==
  /\ saves \in 0..MaxSaves
  /\ memory \in [Addresses -> Byte]
  /\ goal \in [Addresses -> Byte]
  /\ start \in [Addresses -> Byte]
  /\ \A r \in Records : saved[r] \in Value(r) /\ Load(memory, r) \in Value(r)

\* Between saves a gluon that is switched off and on finds every record as it
\* was last saved: what is loaded is what was saved, however many other records
\* were written since (nonVolatileData.h:24-65: the slots do not overlap).
SavedIsLoaded ==
  Idle => \A r \in Records : Load(memory, r) = saved[r]

\* A power loss in the middle of a save of the whole pattern costs one record at
\* most: any other reads as it was before, or as it was to become.
WholeButOne ==
  \A r, q \in Records :
    /\ Load(memory, r) \notin {Load(start, r), saved[r]}
    /\ Load(memory, q) \notin {Load(start, q), saved[q]}
    => r = q

Names(links) == {links[k] : k \in DOMAIN links}

\* What is left of that one table: of the links that were there and were to
\* stay no more are lost than were being added or deleted, and links of neither
\* table show up only if it grew (then it is a byte left behind by an earlier
\* table: an old link comes back, in spite of nonVolatileData.cpp:21 "we only
\* saved ACTIVE links").
TornTable ==
  \A r \in Tables :
    LET old   == Load(start, r)
        found == Load(memory, r)
        new   == saved[r]
        lost     == {a \in Names(old) \cap Names(new) : a \notin Names(found)}
        invented == Names(found) \ (Names(old) \cup Names(new))
        growth   == Len(new) - Len(old)
    IN  /\ \/ lost = {}
           \/ growth > 0 /\ \E a \in lost : lost = {a}
           \/ growth < 0 /\ \E f \in [1..(-growth) -> Names(old)] :
                lost \subseteq Names(f)
        /\ \/ invented = {}
           \/ growth > 0 /\ \E a \in invented : invented = {a}

-----------------------------------------------------------------------------
(* The bytes are a store of records: of a row of bytes that is written one *)
(* by one, a reader sees records that are rewritten one after the other.   *)

Contents(m) == [r \in Records |-> Load(m, r)]

Store == INSTANCE RecordStore
           WITH Kind   <- [r \in Records |-> Value(r)],
                stored <- Contents(memory),
                before <- Contents(start),
                wanted <- saved

\* Every byte that is written, every save that begins and every power loss is a
\* step of the store of records, or changes nothing that can be read: no write
\* touches two records or one that is finished already, and none is begun before
\* the one before it is whole (nonVolatileData.cpp:82-116).
ImplementsRecordStore == Store!Spec
=============================================================================
