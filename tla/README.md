# TLA+ models of the Gluons

Gluons are small battery-powered modules (AVR, RFM69 radio, infrared emitter and
receiver) that pass data to each other along *links*. Somebody holds the outlet
of one gluon in front of another; the second hears the infrared beacon of the
first and links one of its *inlets* to that outlet. From then on the first sends
its data to the second by radio. Nothing runs between the gluons but the
protocol of `GLUON_GENERIC/src`, on radios that lose, replace and acknowledge
packets without naming them.

This directory holds TLA+ modules of that program, TLC configurations that check
them on small instances, and proofs, checked by TLAPS, of the same properties for
any number of gluons and any sizes. `PROJECT.json` lists the runs, the source
lines of every definition, the hazards and the mutations used to show that each
property can fail.

Paths below are relative to `src/GLUON_GENERIC/src/` unless they start
otherwise.

## 1. Inventory of the system

A gluon runs one loop, `Node::update` (`NodeClass.cpp:148-255`): tilt sensor, one
infrared code, one radio packet, sensors, logic, outlet, beacon, actuators. The
handlers run to completion, except that a radio call with acknowledgement
blocks the whole loop for up to (`NUM_RETRIES` + 1) * `ACK_WAIT_TIME` = 40 ms.
Three interrupts run beside the loop: the radio, the infrared receiver, the tilt
sensor. Gluons are concurrent with each other.

| Component | State it keeps | Operations | Talks to |
|---|---|---|---|
| Link protocol (`NodeClass.cpp`) | none of its own; inlets, outlet, EEPROM | `processRequest`, `ACK_LINK`, `ACK_LINK_DELETED`, `RESET_CON`, clear keys, `saveConnexions`, `loadConnexions` | IR receiver (requests), radio (blocking calls), EEPROM |
| Ports and links (`utils.h`) | arrays of `Port` with node id and creation time | `connect`, `disconnect`, `disconnectAll`, `isFull`, `stateLink` | used by inlets and outlets |
| Inlets (`Inlet.cpp`) | up to 3 inlets of `MAX_FAN_IN` = 3 ports, their data and new-data flag | `requestForConnexion`, `requestMoveDeleteInlet`, `requestForUpdate`, `isSynchData` | link protocol, logic |
| Outlet (`Outlet.cpp`) | one outlet of `MAX_FAN_OUT` = 4 ports, its data and flag | `setNewLink`, `setNewData`, `isFullCapacity` | link protocol, data flow |
| EEPROM image (`nonVolatileData.cpp`) | numbers of links and their ids, per inlet and outlet; update mode; learnt conditions | save, load, clear | link protocol, logic, sensors |
| Radio (`moduleRF.cpp`, `lib/RFM69`) | one packet buffer, mode, acknowledgement flags | `sendTo`, `updateReceive`, `sendWithRetry`, interrupt | other gluons, sniffer |
| Data flow (`NodeClass.cpp`, `BaseLogic.cpp`) | data of inlets and outlet, time of the last latch | `sendNewDataMessageRF`, `sendMessageToChildren`, `UPDATE`, `PULL`, latch | radio, logic, sensors |
| Infrared (`moduleIR.cpp`) | code under reception, new-data flag, beacon timer | `detectCarrier` (interrupt), `readNEC`, `updateBeacon` | hardware, link protocol |
| Logic modules (`logic*.h`, `testLogic.h`) | update mode, counter, metronome | `update`, `compute`, `evolve`, `forceUpdate`, `toggleUpdateMode` | inlets, sensors, outlet, actuators |
| Sensors and learning (`BaseSensor.cpp`, `learningButton.cpp`) | data, fuzzy conditions | `update`, `learnConditions`, save and load | logic, EEPROM |
| Actuators (`actuatorBase*.h`) | mode, pulse timer | `setNewData`, `update` | logic |
| Tilt sensor (`tiltSensor.cpp`) | ring of tick times | `tickAddTime` (interrupt), `checkEvent` | data flow |
| Message codec (`utils.cpp`) | none | parse, format | radio |
| Sniffer (`src/SNIFFER`) | none that matters | `RESET_CON`, forwarding | radio |
| Indicators, drivers, logger, wireless programming, vendored libraries | output or I/O only | | |

What is hard here, and what makes each part correct:

* **Links.** The two ends of a link live in the EEPROM of two gluons that may
  call each other at the same time, lose packets and acknowledgements, retry,
  answer late, be cleared, be reset by the sniffer or be switched off. Correct
  is: both ends agree when they can; a failed call changes nothing but what it
  asked for; a restart brings back what was there; a sender feeds one inlet, as
  `requestForUpdate` looks at the first match only; nobody blocks for ever.
* **Radio.** The buffer holds one packet, which newer traffic replaces or erases;
  an acknowledgement names its sender and no packet. Correct is: an
  acknowledged packet was processed.
* **Data flow.** Data are held back by a latch, overwritten in the outlet, in the
  radio and in the inlet; a round of calls goes on after a child fails. Correct
  is: the flag "nothing new" tells the truth, and the last data arrive
  everywhere in the end, through relays too.
* **EEPROM.** Written byte by byte, count first. Correct is: records do not
  overlap, a power loss leaves readable tables and spoils one of them at most.
* **Infrared and tilt interrupts.** They share variables with the loop, and a
  beacon stops the first in the middle of a code. Correct is: the loop acts on
  codes that somebody sent to the end, once each; a shake is seen once.
* **Logic, sensors, actuators.** They look at their times only when the loop gets
  round to it, and the loop is blocked by its own delays; numbers of 8 and 16
  bits from other gluons set tops, periods and thresholds. Correct is: a press
  counts once, beats are in time and sent, a light goes off, a counter turns
  over, settings survive a power cut.

Every one of these points is listed under "hazards" in `PROJECT.json`, at its
line, with the properties that cover it or the reason why none does yet.

## 2. Modules

```
Ports <- InletArray <- GluonLinks <- MCGluonLinks
Ports <- Radio      <- GluonLinks      GluonLinks has INSTANCE PatchTable (abstract)
         Radio      <- DataFlow <- MCDataFlow
LinkTable <- LinkStore                 LinkStore has INSTANCE RecordStore (abstract)
                                       Ports has INSTANCE LinkTable
InfraredLink <- MCInfraredLink
TiltSensor        GluonUnit <- MCGluonUnit

PortsProofs <- InletArrayProofs <- GluonLinksProofs
PortsProofs <- DataFlowProofs
InfraredLinkProofs   LinkStoreProofs   TiltSensorProofs   GluonUnitProofs
```

A gluon is cut along the places where its parts meet through little state.
`GluonLinks` and `DataFlow` are about several gluons, the others about one:
`InfraredLink` is what ends in a request of `GluonLinks`; `LinkStore` is the save
that `GluonLinks` takes as one step; `TiltSensor` is the shake, and `GluonUnit`
the sensor and the logic, that `DataFlow` takes as single steps.

**`Ports`** is `Link`, `Port` and `ArrayPort`, and the image of such an array in
EEPROM. An idle port holds `NoNode`; `millis() - timeCreation` is an age that
saturates at `LoosePeriod` (`LOOSE_PERIOD`, 2 s), below which a link is LOOSE.
`Load` gives FIXED links, as the boot takes longer than that period.

**`InletArray`** is `requestForConnexion` with its three outcomes: a FIXED link is
deleted, a LOOSE one moves to the next inlet with space, a new one is added to
the first inlet with space. It keeps the corner of the code where a LOOSE link
that cannot move falls through to the branch that adds.

**`Radio`** is one packet per gluon (`mail`) and one blocking call per gluon
(`call`): `Transmit`, `Read`, `Acknowledge`, `TimedOut`. A gluon in a call reads
nothing else. `Acknowledge` lets a caller take any acknowledgement of the node
it called for the answer, as `ACKReceived` does. Its part of the constant
`Events` says what may go wrong: `lost`, `noack`, `late` (a gluon does not look
at its radio before its caller gave up).

**`GluonLinks`** composes them into the network: `inlets` and `outlet` in RAM,
`eeIn` and `eeOut` in EEPROM.

| Action | Code |
|---|---|
| `ProcessRequest(r, s)` | `processIRMessage`, `processRequest` up to the call; a move is saved at once. Both beacon commands are served the same way (`NodeClass.cpp:461-469`) |
| `Retry`, `Commit`, `GiveUp` | the rest of `sendWithRetry`, and `saveConnexions` or `loadConnexions` after it |
| `SendData`, `DataSent`, `ReceiveData` | UPDATE or PULL along one link of the outlet (`sendMessageToChildren`): a call that blocks and is acknowledged like the others and changes no link |
| `ReceiveAckLink`, `ReceiveAckLinkDeleted`, `ReceiveResetCon` | the branches of `processRFMessage`, with the acknowledgement of `updateReceive` and the save |
| `ClearAllConnexions`, `ClearInletLinks`, `ClearOutletLinks` | the clear keys of the remote control |
| `PowerCycle`, `DieAfterAcknowledge` | switched off at any point, also between `sendACK` and the handler; `setup()` loads the links |
| `SnifferResets`, `Overhear`, `Tick` | the sniffer's broadcast, traffic for others, time |

Data are in `GluonLinks` for what they do to the calls: they keep a gluon from
answering, replace a packet in a radio, and their acknowledgement may pass for that of
a call about a link. A round of calls to several children is as many calls of the model;
between two of them the code reads no packet, and the model may. What the data say is
the subject of `DataFlow`.

`Facing` holds the pairs that may hear each other's beacon. A beacon may be heard
at any time the listener's loop runs; what lies between the sender's beacon and
the listener's `processIRMessage` is `InfraredLink`.

**`PatchTable`** is the abstract specification: what a receiving gluon is promised
is a table of patch cords, plugged, unplugged or moved one at a time, or all
dropped, with no sender in two inlets. `ImplementsPatchTable` says that the links
in the EEPROM of each gluon implement it; the mapping is `SavedTable`.

**`LinkTable`** is how the table of one inlet, or of the outlet, changes from one save to
the next: `Plugged` and `Unplugged`, on the sequence of ids that is in EEPROM. It joins
two modules that look at the same save from two sides: `LinkStore` takes these
changes as what is saved, and `SavesAreSmall` of `GluonLinks` says that its saves are
made of no others. Neither is left to assume what the other does.

**`DataFlow`** is what runs along the links once they are made. The links, update
modes and kinds of gluon are constants, and `PatchAssumption` states what
`GluonLinks` shows of links (both ends agree, a sender feeds one inlet), so that
its theorems hold for every patch. Each pass of `loop()` goes through `stage`:
a shake sends PULL to all children; `FORCE_BANG`; one packet; then `Work`, which
is sensor, logic and `Send`. A round of calls (`round`, `call`) visits the ports in order,
`Answered`, `Unanswered` and `Retry` are what happens to each, `EndRound` clears
the flag of the outlet and shuts the latch if all children answered. The data
are positions of a dial (`logicN3`); other gluons are relays (`logicN2`), which
pass on the data of the first inlet that has new ones. `heard` is a history
variable: what each child last took from each parent.

**`InfraredLink`** is one gluon that hears infrared codes: the interrupt
`detectCarrier` (`nextBit`, `raw`, `newData`) against the loop (`stage`), and what
is on the air (`air`). An edge of the carrier is known by the time since the edge
before: `gap`, `agc`, `repeat`, or a bit.

| Action | Code |
|---|---|
| `StartCode`, `Agc`, `NextBitEdge` | the edges of a code that another gluon or a remote control sends (`sendNEC`), each with what the interrupt makes of it (`Edge`, `DetectCarrier`) |
| `StartRepeat`, `Repeat`, `Cut` | a key is held down; a code is broken off |
| `Poll`, `Take` | `readNEC`: it looks at `newData`, then locks the interrupt and takes the code. Stage `seen` is the time in between, in which one edge may come (`hit`); edges are at least 1.1 ms apart |
| `EnableSending`, `EnableReception` | the gluon's own beacon, with the interrupt off. It resets the receiver and restarts the timer, so the next edge is measured short (`Measured`) |
| `EndPass` | a pass of the loop without a beacon |

`owed` and `held` are history variables: the last code that was sent to its end
and not acted on yet, and whether a repeat came since.

**`LinkStore`** is the EEPROM byte by byte, at the addresses of
`nonVolatileData.h`. A save (`SaveConnexions`, `ClearInletLinks`,
`ClearOutletLinks`, `SaveConditions`, `SaveData`, `SaveUpdateMode`) fixes what the
memory is to become (`goal`); `WriteByte` is one `EEPROM.update()`, which skips bytes
that do not differ; `PowerLoss` may come between any two of them, after which the
gluon goes on with what `Load` reads. `start` and `saved` are history variables: the
memory when the save began, and the value each record was last given. The model
shows what a torn save does: one table is torn. A deletion that is cut short may
leave the deleted link and lose another one instead; a table that grew may name an
id of an earlier table, or the 255 of a blank byte, as a link
(`nonVolatileData.cpp:21` says "we only saved ACTIVE links"); a word may be half
old and half new. `TornTable` bounds the damage.

**`RecordStore`** is the abstract specification of that memory: records that a save
rewrites one at a time (`Save`, `Rewrite`), of which the one in hand may hold anything
of its kind, and a `PowerLoss` that makes what is there count. `ImplementsRecordStore`
says that the bytes implement it. The mapping reads the memory as `setup()` would:
`stored` is what the bytes say now, `before` what they said when the save began,
`wanted` what was given to it.

**`TiltSensor`** is the ring of tick times: `Tick` is the interrupt `tickAddTime`,
`CheckEvent` the look of the loop, `Advance` the clock, which wraps at `Word`.
`ticks` is a history variable, the real times of the last ticks since a report. The
loop may be blocked for longer than the time from which on ticks count (`MinTick`, 500
ms), as it is by calls, by a pulled patch chord (3.4 s), `SCAN_NET` (3.8 s), `RESET_CON`
(15 ms times the id) and learning (3 s); `ShakesAreSeen` says that a shake is lost to a
tick that comes in such a time and to nothing else. `Settled`: for 8 s after `millis()`
is 0, at boot and at a wrap, the times that a reset puts into the table lie in the
future, and a single tick may pass for a shake.

**`GluonUnit`** is one gluon as its builder sees it: sensor, logic and light, for
three of the units of `GLUON_GENERIC.ino`: the range finder
(`logicAnalogSensor.h`), the counter (`logicN4.h`) and the metronome
(`logicMetro.h`). A pass of the loop goes through `stage`:

| Action | Code |
|---|---|
| `ChangeModes`, `ForceBang`, `Learn` | keys of the remote control: `toggleUpdateMode`, `setUpdateMode`, `forceUpdate`, `learnAnalogConditions`, in RAM |
| `WriteByte` | one `EEPROM.update()` of what a key, the switch or a packet changed: words low byte first, a learnt value before its tolerance (`Following`) |
| `LookLearnt`, `Pace` | what a function does between two saves or after them: `update()` of the sensors after learning; new beats per minute after a toggle |
| `Receive` | a packet for an inlet |
| `Look` | `BaseSensor::update` (debouncing, events), and the switch of the metronome in `evolve` |
| `Think` | the beat of `evolve`, `checkInletCondition` (`Bang`) and `compute` |
| `Finish` | the latch and the send, reduced to whether all children answered; `BaseActuatorDigital::update` in mode PULSE |
| `Advance` | time, in a `delay()` of the code (`wait`) or between passes (`gap`) |
| `Move`, `Restart` | people; the power switch, between any two of the other steps, after which what is in `memory` is loaded |

Times are ages that stop counting when no comparison of the code or of a property
can tell any more. Numbers are those of the AVR: `% Word` where an `int` becomes
unsigned, `% Byte` for the counter. `newDataFlag` of an actuator is not
initialised, so `Init` and `Restart` choose it freely. `todo` is the write that comes
next in a function that saves; the node does nothing else before it is done, but may be
switched off. Three history variables: `kept`, the settings that were last saved to the end;
`opened` and `released`, whether the switch was open at two moments farther apart than a
debounce time since it last toggled the metronome (a contact that trembles is not).

**`MCGluonLinks`**, **`MCDataFlow`**, **`MCInfraredLink`**, **`MCGluonUnit`** only define
constants for the runs.

## 3. Runs

All bounds are constants of the configurations. The code's own sizes are 3
inlets of 3 ports, an outlet of 4 and one retry; the runs use the
smallest sizes at which the case in question happens: two inlets are enough for
a move, two ports for a competing sender, one retry for a packet read twice.
Proofs (section 5) cover the other sizes.

### Runs that pass

| Run | Instance | Shows |
|---|---|---|
| `links_answered` | 3 gluons in a row with 2 x 2 ports, beacons both ways, packets lost, data sent along the links, 1 retry; 717 000 states | `LinkedAtBothEnds`, `AckLinkFindsRoom` |
| `links_late` | 3 gluons, two pairs in conflict, data along the links, packets and acknowledgements lost, answers late; fair; 141 000 states | `AcknowledgedMeansDone`, `CallConcernsPeerOnly`, `EveryCallEnds` |
| `links_faulty` | one listener with 2 x 2 ports, two senders, every event, links LOOSE for 2 ticks; 47 000 states | `TypeOK`, `RestartKeepsLinks`, `OneInletPerNode`, `ImplementsPatchTable`, `SavesAreSmall` |
| `flow_shown` | the dial `n1` feeds `n2` and `n3`, `n2` feeds `n3`; packets and acknowledgements lost, shakes, `FORCE_BANG`; at most 2 touches; fair; 137 000 states | `TypeOK`, `DeliveredWhenClear`, `SentMeansReceived`, `QuietIsShown`, `EventuallyShown` |
| `infrared_codes` | codes of 3 bits, one of which is the start of another; codes broken off, repeats, beacons; 16 000 states | `TypeOK`, `CodesAreSent` |
| `store_power` | 2 inlets of 2 ports, an outlet of 1, one sensor, one word of data, bytes of 5 values; at most 4 saves, power losses anywhere; 69 000 states | `TypeOK`, `SavedIsLoaded`, `WholeButOne`, `TornTable`, `ImplementsRecordStore` |
| `tilt_shakes` | 3 ticks within 5 units make a shake, a clock of 32 values that wraps once, a loop that is blocked for up to 3; 336 000 states | `TypeOK`, `ShakesAreReal`, `ShakesAreSeen` |
| `unit_works` | the three units, with keys, packets (-1 and 1 for numbers out of and in bounds), failed sends, power cuts between any two bytes; debounce 1, latch 2, pulse 1, toggle delay 1, up to 7 beats in a minute of 7; 1 433 000 states | `TypeOK`, `SensorFollows`, `BeatsKeepTime`, `LightGoesOff`, `CountStaysBelowTop`, `PressIsNotRepeated`, `BeatsAreSent`, `RestartKeepsSettings` |

The states of `GluonLinks` are finite without any bound (ages saturate), and the
runs explore them all. In `DataFlow` the bound is `MaxTouches`, the number of
turns, shakes and bangs: two are enough for a second turn that overtakes the
data of the first, and for a shake in the middle of it. The triangle is the
smallest patch with a relay, a round of two children and two paths to one gluon.
In `links_faulty` the senders hear nobody, so no gluon saves a link of its outlet while
its own inlets are bare after `RESET_CON`; that case of `SavesAreSmall` is in the proof
only.
In `InfraredLink` a code has 3 bits in place of 32: a first, a middle and a last one.
In `LinkStore` the bound is `MaxSaves`: two saves fill a table, the third empties it,
so that the bytes behind the count hold what was there, and the fourth makes it
grow over them and is torn. Bytes have 5 values: three counts, a blank and an id.
In `TiltSensor` the bound is `MaxTime`: the observation begins before the 8 s after boot are
over, holds a wrap and the unsettled time after it, and ends within a round of the clock
(`ShortAssumption`); it stops there, so deadlock is not checked. `GluonUnit` is
finite without a bound. Its periods are from longer than the latch to shorter than a pass.
`SYMMETRY` is used in runs of safety properties only, over gluons that `Facing`
does not tell apart.

### Runs that disagree with what the repository says of itself

| Run | Property | What the code says, and does |
|---|---|---|
| `links_after_reset` | `CallConcernsPeerOnly` | `NodeClass.cpp:618`: "go back to the previous state of the inputs". `RESET_CON` leaves the inlets in EEPROM, and a later failed call brings links with other gluons back. |
| `links_retried` | `NoConflictingOutletLinks` | `Outlet.cpp:13`: connect checks "no conflict (another similar link)". It does not; a retry after a lost acknowledgement makes a second link to the same gluon. |
| `flow_stale_ack` | `SentMeansReceived` | `moduleRF.cpp:54`: "sent: OK" means "we did receive an acknowledgment". A late acknowledgement of an earlier packet counts for a newer one that was lost, whose data are then not sent again. (The same property holds when nobody is late: `flow_shown`.) |
| `unit_range` | `RangeHasTwoSides` | `BaseSensor.cpp:71`: "data on range?", printed as condition +/- tolerance. The difference of an `int` and an unsigned int of 16 bits is unsigned, `fabs` comes too late, and readings below the condition are out of range. |

## 4. Fairness

`loop()` (`GLUON_GENERIC.ino:342`) runs for ever and every wait of
`sendWithRetry` is bounded by `millis()`, so the steps that end a wait or follow
it (`Retry`, `Commit`, `GiveUp`; `Answered`, `Unanswered`) are weakly fair, and
so is the reading of the radio by a gluon that is not blocked. In `DataFlow` one
pass of the loop is weakly fair as a whole (receive or work), and so is the
latch, which is a clock. Nothing is assumed of people, of the sniffer, of
traffic and of power. One assumption is about the radio: `Answers`: a child that
is sent UPDATE over and over is heard to answer over and over, without which no protocol
could deliver. It is a condition on the channel, not on a step, as the sender
cannot choose which attempt is lost. `EveryCallEnds` does not need it.

`InfraredLink`, `LinkStore`, `TiltSensor` and `GluonUnit` assume no fairness: their
properties are about what may happen, and what must happen in time is stated with
ages (`BeatsKeepTime`, `LightGoesOff`, `SensorFollows`) or as what a step must do
first (`ShakesAreSeen`). `MaxGap` is the longest pass of the loop: a bound of the runs,
and a constant that may have any value in the proofs.

Both assumptions of `DataFlow` matter: without `Answers`, or without the latch opening, TLC finds
`EventuallyShown` violated.

## 5. Proofs

`PortsProofs` and `InletArrayProofs` hold the lemmas on operators: what
`Connect`, `Disconnect`, `Image` and `Load` do to the set of nodes that an array
names, and that `RequestForConnexion` returns inlets of the right shape, touches
no sender but the one that asks, and keeps every sender on one inlet. The rank of
a port in an image is handled through cardinalities of finite sets; no induction
over data is needed. A second group is about rows, the ids at the active ports of an
array in their order: `Connect` puts one id in (`ConnectRow`), `Disconnect` takes one
id out (`DisconnectRow`), `Load` gives the row that was saved (`LoadRow`), and ageing
changes none (`OlderRow`); a request changes one row of the inlets (`RequestRows`).

`GluonLinksProofs`, for all `Nodes`, sizes, `Retries`, `Facing` and `Events`:

* `TypeCorrect`: `Spec => []TypeOK`.
* `Invariance`: `Spec => []IInv`. None of the properties is inductive: a failed
  call reloads EEPROM, so they depend on what EEPROM holds while a call is under
  way. `IInv` relates the two. Outside a call RAM and EEPROM name the same
  senders per inlet (or the inlets are bare after `RESET_CON`). During a call
  they differ by the cord of the peer of that call, in the way the type of the
  call says. In both, a sender is on one inlet. `NodeInv(n)` names these
  conjuncts; `ResetsHaveCause` says that a `RESET_CON` packet exists only if
  `Events` has resets.
* `LinksStayOnOneInlet` (`OneInletPerNode`), `RestartIsSafe`
  (`RestartKeepsLinks`), and `SavesAreOneCord` (`ImplementsPatchTable`: initial
  states map to initial states, every step to a step of `PatchTable` or a
  stutter).
* `SavesMakeSmallChanges` (`SavesAreSmall`). A table of ids, unlike a table of cords,
  has an order and may hold a gluon twice, so `IInv` does not say enough of it.
  `RowsInv(n)` adds that images are packed, that the row of the outlet is always the
  saved one, that outside a call the rows of the inlets are the saved ones, or bare with
  an empty outlet, and that one row differs during a call; `Signed`, that a packet
  about a link names its sender. The attempt showed that `LinkStore` missed a save:
  after `RESET_CON` a gluon that gets an outlet link saves it together with its
  bare inlets, which changes all tables at once. `LinkStore` has it now, and its
  theorems hold with it.
* `CallsConcernPeer` (`CallConcernsPeerOnly`), with the hypothesis that there are
  no resets. `links_after_reset` shows that it is needed.
* `AcknowledgedCallsAreDone` (`AcknowledgedMeansDone`), for packets and
  acknowledgements that are lost, answers that are late and data that are sent
  (`Undisturbed`). An acknowledgement does not say what it answers, so one has to know
  every packet that may still be in a radio: `AsksFor(n)`, invariant by
  `CallsAskForTheOpposite`, says that all packets of `n` to one gluon about their link,
  of the present call or of one given up, ask for the opposite of what `n` has saved, and
  that none is left when a call is acknowledged. `AlongLinks` says that data in a radio or
  in a call go along a link of the outlet they came from. A caller that has no link to the
  called gluon therefore has no data there whose answer could pass for that of its call.
  A caller that has one is exempt, and must be: where two gluons each have or make a link
  to the other, the answer to data that were given up passes for that of ACK_LINK. It is
  the mechanism of `flow_stale_ack`, and TLC finds it in `links_late` when the exemption is
  taken away.
* `EndsAgree` (`LinkedAtBothEnds`) and `NewLinksFindRoom` (`AckLinkFindsRoom`), where
  packets are lost, data are sent and nothing worse happens (`OnlyLosses`). `BothInvariance` adds
  `EndsMeet(s)`: the outlet of `s` holds, once each, the listeners that have saved
  the link, but for one whose call about it it has answered and that has not saved yet;
  and a packet in a radio belongs to a call that waits, and is of its type. `LinksAreSingle`
  (`NoConflictingOutletLinks`) follows at once; `links_retried` shows that it fails
  where acknowledgements are lost too. That room is left follows by counting: the listeners in the outlet are among those that hear `s`, and the one
  that calls is not in it yet.

From `AcknowledgedCallsAreDone` on they need `HaveRoom`: no more nodes hear a beacon than an outlet has
ports, and a node hears no more others than fit in all its inlets but one, or its
inlets have one port. Without it a LOOSE link that finds all other inlets full
is added once more to its own inlet, and `ACK_LINK` makes it twice at the other end
too: with one inlet of two ports, two requests within two seconds are enough,
and TLC then finds `AcknowledgedMeansDone`, `LinkedAtBothEnds` and `AckLinkFindsRoom`
violated. With the three inlets of three
ports of the code, six senders may be in reach.

`DataFlowProofs`, for every patch, all sizes, modes and events:

* `FlowTypes`: `Spec => []TypeOK`.
* `DataArrive` (`DeliveredWhenClear`) and `SentIsReceived` (`SentMeansReceived`),
  with the hypothesis that no gluon is late; `flow_stale_ack` shows that it is
  needed. `FlowInv` says, for a gluon in a round: its call goes to its port
  (`CallsItsPort`); a packet of it in a radio is the packet of its call, so none
  outlives its call (`PacketOfCall`); if nothing failed so far, the ports before
  hold its data, and this one does if its call is acknowledged
  (`ServedSoFar`); and if the outlet has nothing new, all of them do
  (`OldIsHeard`).
* `QuietRelaysAgree` (`QuietIsShown`), with the same hypothesis: where a relay has
  nothing new in its inlets and its parents have nothing new to send, it shows what one
  of them shows. `FlowInv` says what was delivered; `ShownInv` adds what became of it:
  new data of an inlet are the last that one of its senders was heard to send
  (`Taken`), a relay with nothing new shows such data (`Relayed`), a dial shows its
  position (`Dialled`). It is the safety half of `EventuallyShown`, for any patch.

`InfraredLinkProofs`, for codes of any length, any set of codes and all events:

* `InfraredTypes`: `Spec => []TypeOK`.
* `OnlyCodesThatAreSent` (`CodesAreSent`). `IInv` says what `raw` holds: after a
  beacon nothing until the first edge (`Quiet`); while a code is read its bits so
  far, in step with the air (`Reading`); after the AGC pulse nothing else waits for
  the loop (`Passing`); what waits is complete and owed (`Waiting`), and so is what
  is left of it if an edge comes before the interrupt is locked (`Seen`). A lemma
  for each kind of edge says what it does to the receiver.

`LinkStoreProofs`, for all sizes of bytes and tables, any number of saves and power
losses anywhere:

* `StoreTypes` (`TypeOK`: a table never has more links than ports, torn or not),
  `SavedRecordsAreLoaded` (`SavedIsLoaded`) and `OneRecordIsTorn`
  (`WholeButOne`). `StoreInvariance`: the goal holds the saved values, no two slots
  share a byte, and a save has reached its goal below some address and is where it
  started above it.
* `TornTableIsBounded` (`TornTable`). Which bytes of a table are new when a save is cut
  short is known from `StoreInvariance`; that a torn table loses no more than was being
  changed needs in addition that the new table differs from the old one by one change of
  `LinkTable`, or was cleared and has one link at most (`Changes`). What is lost is then
  found by comparing the places of the ids in both.
* `StoreOfRecords` (`ImplementsRecordStore`): `Init` maps to the abstract `Init`, a
  byte to a `Rewrite` of the record it is in or to a stutter, a save to `Save`.

`TiltSensorProofs`, for any number of ticks, interval and clock:

* `TiltTypes` (`TypeOK`), `ReportsAreReal` (`ShakesAreReal`) and `ReportsAreComplete`
  (`ShakesAreSeen`). `TiltInvariance`: the slots behind the index hold the last
  ticks modulo `Word`, and the slots that no tick reached still hold what the reset
  wrote (`Ring`); the ticks lie between the start and now, in order, within one round
  of the clock (`Past`); a shake that was not reported is no older than the last look
  of the loop (`Fresh`), so a tick that replaces its first comes after a longer time than
  `MinTick` without a look. The rest is arithmetic modulo `Word`.

`GluonUnitProofs`, for all times, numbers and units:

* `UnitTypes` (`TypeOK`), `CounterTurnsOver` (`CountStaysBelowTop`), `BeatsAreOnTime`
  (`BeatsKeepTime`), `SettingsSurvive` (`RestartKeepsSettings`) and
  `PressesAreSingle` (`PressIsNotRepeated`). `UnitInvariance` has, besides types:
  what a save under way has written of each setting, and that all others are in the memory
  as they are in use (`Saved`); while the switch was not open for a debounce time since its
  last toggle, its sensor believes it pressed or has not looked yet, and a change that the
  sensor saw is no older than the opening (`Held`); the node waits only inside a pass of its
  loop and learns only after a key (`Waits`); and how old the last beat may be in each stage
  of the pass (`OnTime`).
* `SensorIsRight` (`SensorFollows`): a change that the sensor does not know is no older
  than its last look (`Followed`). The pass has a bound at each stage (`Lasting`), and so
  has the time since the last look (`SinceLook`).
* `BeatsLeave` (`BeatsAreSent`): a beat waits in the outlet for the latch only, and its
  age is bounded by that of the latch (`Latched`).
* `LightIsShort` (`LightGoesOff`). Data for the light put off the look at its timer, and
  what can still come is known from the switch: a light that is due and not looked at
  is one whose metronome was switched off in this pass (`Lit`); one pass later
  the switch is still held (`OncePutOff`), and after another the sensor believes it
  pressed, so it tells no event (`TwicePutOff`). The property was first stated with two
  passes. The proof did not go through, and TLC found the behaviour that takes
  three in `unit_works` with `ToggleDelay` = 0; with the delay of the run two are enough,
  as a pass in which the metronome is switched is then a long one.
* `RangeIsOneSided`: what is left of `RangeHasTwoSides`, which `unit_range` refutes. A
  reading that stays is reported exactly if it lies between the condition and the
  condition plus the tolerance, for conditions that do not reach the end of 16 bits.

Assumptions are those of the modules: `NoNode` is no gluon, sizes are positive, the
patch is one that `GluonLinks` can make, no code is all zeros, constants within their
widths.

Model-checked only: `EveryCallEnds` and `EventuallyShown`. They are liveness properties
under fairness, which is outside the prover's reach, as is ENABLED. Every safety
invariant, action property and refinement of the passing runs is stated by a theorem.

## 6. What is left out, and limits

* `LinkedAtBothEnds` needs packets to be answered in time, nobody to clear, reset
  or restart, and room for all that is in reach (`HaveRoom`): an acknowledgement lost
  for good rolls the listener back and leaves the sender linked. The code has no
  repair but the next request, and promises none, so this is recorded as a hazard
  and not as a finding.
* `AcknowledgedMeansDone` says nothing of a call to a gluon that the caller has a link to
  itself: where answers are late, the answer to data may pass for that of the call
  (section 5). Links both ways between two gluons are a use the program allows, so this is
  a limit of the program and not of the runs; the listener then saves a link of which the
  other end does not know.
* In `GluonLinks` a save of all links is one step. The bytes are the subject of
  `LinkStore`, for the changes that `SavesAreSmall` names. What a network does after
  a torn save of one gluon is not composed: the gluon goes on with a table within the
  bounds of `TornTable`, which the other end does not know of. The numbers of inlets and outlets, which are in EEPROM too, never
  change: no code of the program writes them once a gluon works.
* In `DataFlow` links and modes do not change during a run. A failed call of the link
  protocol makes new `Inlet` objects and so drops data that were not yet looked
  at; this needs the composition that is planned.
* `EventuallyShown` is for a single dial and the modes `init()` gives. In `synch`
  mode a relay may pair old with new data, as `timeUpdated` is never set and
  `isSynchData` compares nothing; no text says what must come out.
* The build-time branch of `setup()` that creates inlets and outlets: its test
  `#if (FIRST_TIME_BUILD)` sees a C++ constant and not a macro
  (`GLUON_GENERIC.ino:12`, 137), so the branch is compiled out. `Init` is the EEPROM
  that branch would leave, which is what a gluon that works was once given.
* In `InfraredLink` one sender at a time is on the air, and its code follows a gap
  that overflows the timer. What the receiver makes of two overlapping carriers
  depends on its demodulator. A beacon may be sent in any pass: its period and
  random delay are left out. The empty word, which may reach the loop when a repeat
  is measured where there was none, is no command and no key. Widths of the
  intervals are abstracted to their kinds; the ranges for AGC and repeat overlap by
  13 ticks, and AGC is looked at first.
* In `TiltSensor` `checkEvent` is one step, as it looks at the table with interrupts off
  (`tiltSensor.cpp:57`). A shake in a time in which the loop is blocked for longer than
  500 ms can be missed; no text excludes it.
* `GluonUnit` models the learning of analogue conditions by what it leaves (a value,
  a tolerance, their record), not by its samples. `learnAnalogConditions()` also
  calls `update()` of the sensor outside the pass, which can consume an event that
  the logic then never sees.
* What `GluonUnit` shows of its units and no text of the repository settles, so that
  it is no finding: a top of 0, which a second inlet that never got data delivers,
  silences the counter; a rate packet that comes more often than the period restarts
  the metronome and silences it; the light of the range finder can stay on while
  packets stream in. `logicMetro.h:62-65` speaks of actuator 1 where the code uses 0.
* `millis()` wraps after 49.7 days; for 2 s after it, loaded links are LOOSE.

Not modelled, and why:

* The text of messages, the forwarding to the sniffer's serial port, lights, sounds
  and the vibrator: formatting and output; a message is a record here.
* The toggle switch and the test logic, the blinking and analogue actuators, the
  remaining detection modes of sensors: the same pass of the loop with another
  formula in it. They are the first item of the plan.
* Drivers of particular sensors and displays: one read or one write of a chip.
* The logger and wireless programming: tools on a host, the second a third party's;
  the program of a gluon does not call them.
* Vendored libraries under `GLUON_GENERIC/lib`. They are most of the
  lines of the repository (the program's own code is about 7 700 lines of some 61 000);
  of RFM69 the part that the program calls is modelled by its use.

## 7. Plan

Done: `Ports`, `LinkTable`, `InletArray`, `PatchTable`, `Radio`, `GluonLinks`,
`DataFlow`, `InfraredLink`, `LinkStore`, `RecordStore`, `TiltSensor`, `GluonUnit`,
their runs, and theorems for all their safety properties. Next, in this order:

1. The remaining logic modules, actuators and detection modes, in `GluonUnit`.
2. The composition of `GluonLinks` and `DataFlow`: `GluonLinks` has the packets of
   data and their acknowledgements but not their values; what an inlet holds while
   links move, fail and are reloaded, and the links of a network after a torn save.
3. More proofs: what both ends of a link hold when acknowledgements are lost or
   late, as an invariant on how they may differ; an abstract specification of the
   data flow with `heard` as its state.
4. The interrupt of RFM69 and its buffer between two passes of the loop.
