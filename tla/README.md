# TLA+ models of the TETRA demodulator plugin

Models, model-checking runs and proofs for the decoder in `src/` (a plugin for
SDR++ around a modified osmo-tetra). Paths below are relative to `src/`;
`dec/` stands for `src/decoder/src/`.

## 1. The system

```
 VFO -> demodulator -> symbol extractor -> bit unpacker ->  (chunks of bits)
   osmotetradec::process            src/dsp/osmotetra_dec.h
     tetra_burst_sync_in            dec/phy/tetra_burst_sync.c     burst grid, time += 1 slot
       tetra_burst_rx_cb            dec/phy/tetra_burst.c          blocks of a burst
         tp_sap_udata_ind           dec/lower_mac/tetra_lower_mac.c  decode, CRC, time, voice
           upper_mac_prim_recv      dec/tetra_upper_mac.c          PDUs, fragments, SYSINFO
             crypto state           dec/crypto/tetra_crypto.c      key and keystream
         put_voice_data             -> ring buffer -> audio
   or _demodSinkHandler             src/main.cpp                   bits to a UDP socket
```

Each DSP block has a thread of its own. Everything from `process` downwards runs
in one thread as nested calls; the display thread reads the state, and starts and
stops the blocks. Two instances of the plugin have two such threads, which share
the static `t_phy_state` and `_tcd`.

| Component | State | Operations | What is hard | What makes it correct |
|---|---|---|---|---|
| TDMA time, `dec/tetra_tdma.c` | `tetra_tdma_time` | add slots (symbols, frames: no caller); which slots broadcast | carries of three counters that start from 1 | the time is that of the air across every carry |
| Burst synchroniser, `dec/phy/tetra_burst_sync.c` | `state`, `bitbuf`, two bit counters | one call per chunk | chunks of any length, a limited buffer, loss of bursts, at most one slot consumed per call, counters that wrap | the grid is the true one, no bit is lost while locked, each burst given once and in order, lock recovered |
| Burst parsing, `dec/phy/tetra_burst.c` | display array | search of training sequences, split of a burst into blocks | offsets, a search over more than one burst | each burst recognised for what it is, blocks cut out where they were put |
| Channel decoding, `dec/lower_mac/*.c` | none | descrambling, deinterleaving, depuncturing, Viterbi, CRC, RM(30,14) | index arithmetic, metrics of 16 bits | runs of errors corrected, nothing wrong accepted |
| Lower MAC, `dec/lower_mac/tetra_lower_mac.c` | `_tcd`, `t_phy_state.time`, `cur_burst`, `last_frame`, `curr_active_timeslot` | one call per block, with a loop over its PDUs | state left by an earlier block or burst; failed CRCs | right time once synchronised; traffic flag of the same burst; one speech slot per frame |
| Upper MAC, `dec/tetra_upper_mac.c`, `dec/tetra_fragslot.h` | `fragslots[5]`, `last_sid` | resource, fragment, end, broadcast, access assignment, ageing | lost fragments (they carry no number), reuse of slots, ageing driven by received blocks | messages are not mixed, slots are freed, buffer and counters agree |
| MAC PDU decoding, `dec/tetra_mac_pdu.c` | none | field extraction | optional fields, tables of lengths, elements decoded at two places | the loop goes from PDU to PDU, a TM-SDU has all its bits |
| Crypto, `dec/crypto/tetra_crypto.c` | `tetra_crypto_state`, key database | new network, new key number, key choice, keystream, key file | parameters that arrive separately and are cached; handover | the key belongs to the network a message came from, the parameters are those last received |
| Ciphers, `dec/crypto/{taa1,tea1,tea2,tea3,hurdle}.c` | none | | | |
| Decoder block, `src/dsp/osmotetra_dec.h` | `inSymsCtr`, `outSymsCtr`, ring buffer | process a chunk, take speech | pacing of silence against speech; a full buffer | sound keeps its rate, speech is not broken, and left out at the begin of a call only |
| Module, `src/main.cpp` | `enabled`, running blocks, `decoder_mode`, `conn`, `tsfound`, configuration | construct, delete, enable, disable, set mode, change the sample rate, start and stop the network, search training sequences | calls of several steps, against the thread of the sink | one reader of the bits; one chunk at most is sent when stopped, and through a socket replaced meanwhile; the saved state is the state; no wait without end |
| Demodulator, `src/dsp/*.cpp` | filters and loops | | floating point | |
| Higher layers, `dec/tetra_{mle,cmce,mm,sndcp}*.c` | none | names of PDUs | | |

The hazards of the code, each at its line, are listed in `PROJECT.json` with the
properties that cover them.

## 2. The modules

```
 SlotStream <= BurstSync (BurstSyncSlots)      BurstSync <= BurstCounters
 ChannelCoding <- Burst <- BroadcastChannel -> TetraTdma <- TimeslotReceiver
 UpperMac <- FragmentReceiver <- FragmentAgeing      UpperMac, MacPdu <- MacBlock
 CryptoState <- CryptoNetwork      AudioPacing      ModuleLifecycle
```

(`A <= B`: B implements A; `A <- B`: B extends A.)

| Module | Models | State |
|---|---|---|
| `TetraTdma` | the addition of slots of `tetra_tdma.c` and `is_bnch`, as operators on time records | none |
| `BurstSync` | `tetra_burst_sync_in` and its environment | `state`, `buf`, `gap`, the transmitter |
| `SlotStream`, `BurstSyncSlots` | the bursts a synchroniser promises to its callback, without bits; the mapping under which `BurstSync` implements it | locked, bursts begun and not taken |
| `BurstCounters` | the same call with its two wrapping counters; implements `BurstSync` | `start`, `next` |
| `ChannelCoding` | scrambling, interleaving, puncturing, CRC, the code and the Viterbi decoder, as operators on bits | none |
| `Burst` | layout of bursts, search of training sequences, blocks cut out, RM(30,14), symbols and their bits, as operators | none |
| `BroadcastChannel` | base station, channel and receiver, bit by bit: the blocks of the broadcast frames, time and identity of the cell | `tcd`, `time`, the slot in the air |
| `TimeslotReceiver` | `tetra_burst_rx_cb` and `tp_sap_udata_ind`, block by block: time, traffic flag, choice of the speech slot | lock, times, pending blocks, `cur_burst.is_traffic`, ... |
| `UpperMac` | the operations on fragment slots and `rx_tmv_unitdata_ind`, as operators | none |
| `FragmentReceiver` | blocks on the way from a base station into the fragment slots | `fragslots`, pending blocks, transmitters |
| `FragmentAgeing` | the same with a count of multiframes | `since` |
| `MacPdu` | lengths of PDUs and their elements, carriers of SYSINFO, as operators | none |
| `MacBlock` | the loop over the PDUs of a block, with offsets in bits | `offset`, `pos`, a fragment slot |
| `CryptoState` | the operations on `tetra_crypto_state`, as operators | none |
| `CryptoNetwork` | a receiver that is tuned from cell to cell | crypto state, cell data, keys of the fragment slots, last keystream |
| `AudioPacing` | `process` of the decoder block and its ring buffer, with calls and losses of lock | `inSyms`, `outSyms`, `ring`, marks of speech, the slot played last, the silence of a call |
| `ModuleLifecycle` | the module in the two threads that run it | `running`, `todo`, `config`, sockets, `handler`, `tsfound` |
| `*MC` | values of constants for TLC | |
| `UpperMac_proofs` | theorems about `FragmentReceiver` and `MacBlock` | |
| other `*_proofs` | theorems about the module they are named after; `BroadcastChannel_proofs` also about `ChannelCoding` and `Burst` | |

**BurstSync.** A bit is abstracted to its place in the burst it was sent in and
the kind of that burst; a training sequence is recognised where a burst that was
not corrupted has one. `SyncIn` is one call of `tetra_burst_sync_in`; its
branches are `Unlocked`, `KnowFStart` (which falls through, as the switch does)
and `Locked`, and `Handle` is the part with a full frame in the buffer. `gap` is
the difference of the two bit counters; `BurstCounters` has the counters and its
run checks that every call with them is a call of `BurstSync` on the difference, but for
those that compare the end of the buffer with a frame start on the other side of the
wrap (`Across`), which are not.
The transmitter sends bursts back to back; until the signal turns good any of
them may be corrupted.

**SlotStream, BurstSyncSlots.** The abstract specification is the input that
`TimeslotReceiver` and `FragmentReceiver` assume: a locked synchroniser takes the
bursts sent one after the other and gives each on, unless it is corrupted. Under
the mapping of `BurstSyncSlots` the bursts begun and not yet taken are those the
buffer has bits of, so that a grid that is off, a burst taken twice or one left
out is a step that `SlotStream` does not have.

**ChannelCoding, Burst, BroadcastChannel.** The functions of the receiver's path
are operators on sequences of bits: `DecodeBlock` is what `tp_sap_udata_ind` does
to a block before its CRC is looked at, `ConvDecode` the Viterbi decoder for the
one code used (constraint length 5, rate 1/4), with its trellis in the order of
its own tables, its branch metrics, its normalisation and its trace back. A loop of the code is `Loop`, a recursive function that takes
the turns sixteen at a time, so that neither TLC nor the proofs have to unroll it. The other
direction (`EncodeBlock`, `SyncBurst`, `NormBurst`) is the base station's, after
the functions of the same files that build bursts. `Phases` and `Unpacked` are
the symbols, turned by any number of quarters, and the decisions the extractor
and the unpacker make. `BroadcastChannel` runs the slots of a hyperframe; bursts
are made and received in frame 18, the one with the broadcast slots, and only
counted in the others. A burst may have a run of errors and may be another cell's.

**TimeslotReceiver.** A step of the environment is a timeslot: the outcome of the
synchroniser for a whole burst (`Receive`), which ticks the time. Then one action
per call of `tp_sap_udata_ind`, in the order of `BlocksOf`: `RxSb1` sets the time,
`RxBbk` the traffic flag (the access assignment has no CRC in the code, so
anything may be read), `PlaySchF` chooses the slot to be played. Left out are the
slot stealing flags, which nothing reads, and the speech decoder itself.

**UpperMac, FragmentReceiver, FragmentAgeing.** `RxResrc`, `RxMacFrag`, `RxMacEnd`
and `AgeFragslots` are the functions of these names. A PDU is its kind, its
lengths and an identity that stands for its bits; `msgb.ids` is what a buffer
holds. `ParsePdu` is one turn of the loop of `tp_sap_udata_ind` over a block.

**MacPdu, MacBlock.** `MacBlock` has the same loop with real lengths. A base station
fills a block from `pos` with resources, fragments and ends whose elements have the
widths of EN 300 392-2 (`Sent*`); the receiver parses at `offset` with the widths of
the code. That the two stay together, and that what is left between header and
fill bits is the TM-SDU, is what the run and the theorem show. PDUs whose length
indicator is reserved are sent too (`Odd`).

**CryptoState, CryptoNetwork.** Pointers into the key database are indices, 0 is
NULL. `RxSb1` is the publication of the cell data by the lower MAC, `RxBroadcast` the
crypto part of `rx_bcast`; the code does not look at the type of a broadcast PDU, so
that it takes any for a SYSINFO PDU (`OtherPdus` are what it then reads). There are three
places that decipher: `RxResource` does it with the key of the network believed in, and
keeps the key in the fragment slot when it opens one; `RxFragment` (`rx_macfrag` and
`rx_macend`) with the key of the slot, whatever network it is on by then. Ageing may empty
any slot when a block comes. The keystream is recorded by what it is made of, with the
cell of the first PDU of the message (`sender`, history). The model has a key file loaded;
the plugin itself never calls `load_keystore`, so that it runs with an empty
database and deciphers nothing (with `Keys = <<>>` the properties hold of what is left).

**AudioPacing.** One step is one call of `process`: the bits that came in, the speech
that `put_voice_data` left in the ring buffer if a burst ended in the call, and
`Pace`, the arithmetic of the two counters. A call (of a subscriber) takes one
timeslot of every frame but the last of a multiframe. `Plays` is the choice of
`tp_sap_udata_ind` by the numbers of the frame and slot of the last speech: what it does
not choose is left out (`out.skipped`). `quiet` is history: the
samples of silence put into the sound of a call since it is received from the first
frame of a multiframe on, and the calls of `process` since; `SpeechIsUnbroken` relates
the two.

**ModuleLifecycle.** A call of the user interface is a list of steps (`todo`) that
the code takes one after the other: start or stop a block, save a field of the
configuration, open, close or destroy the socket (the assignment to `conn` destroys the
one before, after it has made the new one). The thread of the sink takes a step
between any two of them: `HandlerTests` loads the pointer, `HandlerAsks` is `isOpen()` on
what it points to, `HandlerLoads` loads it again, `HandlerSends` is `send()`, and one
`HandlerSearches` per bit the rest of `_demodSinkHandler`. A call to a socket that is
destroyed by then is undefined: it may answer anything, do nothing, or end the program
(`Crash`), which is then started again with a configuration saved some time before.
`stop()` of a block waits for
the call its thread is in, as `dsp::block` does; the blocks of the demodulator, all
started and stopped together, are one. A delete is followed by the creation of
the module with the configuration that was left.

## 3. The runs

"violation" runs check one statement of a comment, declaration or test in the code
that the code does not meet; `PROJECT.json` quotes it under `findings`.

| Run | Bounds | Shows |
|---|---|---|
| `broadcast` | one hyperframe of 4320 slots and its wrap, two cells | `BurstsAreFound`, `RunsAreCorrected`, `NoGarbagePasses`, `SyncTellsTime`, `BnchIsNamed`, `MetricsFit` |
| `sync_lock` | slot of 6 bits, buffer of 15, chunks of 1, 3, 5 | `FrameStartKept`, `LockedLosesNothing`, `GridIsTrue`, `LocksForGood`; `GivesAllBursts`: `SlotStream` is implemented |
| `sync_retune` (violation) | slot of 10, buffer of 25, chunks of 3 | a lock on a wrong grid that lasts for ever |
| `counters_steps` | counters modulo 64; from 0, and locked with any values, over any number of wraps, without the calls that compare across one | `StepsRefine`: steps with counters are steps of `BurstSync`, whether the receiver searches or is locked when they wrap |
| `timeslot_time` | 2 frames of 4 slots, 2 multiframes | `TimeIsAirTime`, `TrafficIsOfThisBurst`, `OneSlotPerFrame`, `TimeBecomesRight` |
| `fragments` | 2 timeslots with 2 and 1 messages of up to 3 fragments, buffer for 3, age limit 2, frames 17 and 18 | `UnusedIsBlank`, `CountsMatchBuffer`, `KeyHeld`, `MessagesNotMixed`, `SlotsAreFreed` |
| `fragment_age` (violation) | 4 timeslots, age limit 6 | a message dropped within one frame 18 |
| `crypto_keys` | three cells of two networks, four keys, two fragment slots, two hyperframe numbers (one above 15 bits) | `CachedKeyIsCurrent`, `KeyOfMessageNetwork`, `KeystreamOfLastReceived`, `ParametersStayKnown` |
| `pdu_loop` | blocks of 124 and 268 bits, two address types, three channel allocations, messages of 140 and 300 bits | `LoopIsAligned`, `MessageIsWhole`, `NothingIsHidden`, `LoopEnds` |
| `pdu_duplex` (violation) | two bands, four duplex spacings | an uplink carrier where the spacing is reserved |
| `audio_calls` | chunks of 340 bits, the code's numbers otherwise, a ring buffer for one timeslot of speech, two calls in timeslots 1 and 4, one loss of lock | `LagIsBounded`, `SpeechIsUnbroken`, `PaceIsKept`, `SilenceComes` |
| `module_threads` | window of 2 bits, light on for 3, two sockets | `OneReader`, `ChainMatchesMode`, `ConfigIsState`, `SendingStops`, `LightIsRecent`, `InterfaceReturns` |

Why the bounds are enough:

* `broadcast` has no small numbers: bursts, code and hyperframe are those of the
  code. The runs of errors are the longest that are corrected wherever in a block
  they are (10 bits in SB1, 14 in half slots, 20 in SCH/F; found by trying
  every place), moved through the block from multiframe to multiframe, and longer
  ones that are not corrected and must fail the CRC. SB1 meets every place within
  the hyperframe. The other cell differs in one bit of its colour code. What is not
  covered is every content of the payload: it is one sequence per slot of the
  hyperframe.
* `BurstSync`: what matters are the order of the offsets (blind bits < SYNC
  sequence < normal sequence < slot), a buffer of a little more than two slots and
  chunks that divide neither. With 6, 15 and {1, 3, 5} every branch fires, frames
  straddle chunks, and the buffer overflows while unlocked. The proofs hold for
  all sizes.
* `counters_steps`: `Wrap` exceeds four buffers, as 2^32 does, so that a difference of
  live counters is unambiguous. A call that compares across the wrap is left out, and the
  run ends there, so that it does not check deadlock. What is left out is no more than
  what is wrong: that is the theorem `WrongAcrossTheWrap`.
* `timeslot_time`: 4 slots is the code's number; two frames are one with and one
  without usage markers, and two multiframes let the time be wrong by frames and
  by multiframes (the full numbers are in `broadcast` and in the proofs). One
  traffic usage marker is enough as the code only compares with 3.
* `fragments`: two messages in a slot, so that one may run into the other; a
  third fragment overflows the buffer; the age limit is passed by blocks of one
  and of several frames 18.
* `crypto_*`: cells that share a network, a country code, a colour code or an
  area with another one, keys of a wrong type and of a wrong number before the
  right one; a broadcast PDU that is not SYSINFO and reads as one; two slots, so that a
  message of each network may be open.
* `pdu_loop`: channel allocations that are absent, shortest, and with all but one of
  the optional parts; TM-SDUs of 0 and 21 bits, which need different fill bits;
  messages that end in the next block and in the one after it, encrypted with and
  without a key.
* `audio_calls`: 340 is two thirds of a slot, so that a burst ends in two calls of three
  and the remainders of the divisions go through all values; two calls follow each
  other in either order of their slots. `RingSize` is the least the assumption
  allows; the code has 32768. Chunks of mixed lengths, which cut every multiframe up in
  another way, are left to the proofs.
* `module_threads`: two bits in the window and three until the light goes out are
  the least with a bit that is in neither and with a countdown of more than one; two
  sockets are one that is replaced and destroyed, and the one in its place.

**Fairness.** `LocksForGood` assumes that bits keep coming (`[]<><<Receive>>`: the
stream of the demodulator never ends) and that at some point bursts are no longer
lost and SYNC bursts not absent for long: a base station sends them, the decoder
cannot lock without. `TimeBecomesRight` assumes the same of timeslots, weak
fairness of the processing (it is a call that returns), and strong fairness of a
SYNC burst that leaves the receiver locked, which is what `LocksForGood` says of
the synchroniser. `SlotsAreFreed` assumes that again and again a burst is received
in frame 18; its data blocks may all fail their CRC, the access assignment ages
the slots. `LoopEnds` assumes that the loop is run (it is a loop of one call).
`SilenceComes` assumes that bits keep coming, that calls end, and that a lost lock
is found again. `InterfaceReturns` assumes that both threads run and that a chunk of
bits has an end: the strong fairness is of the last bit of a chunk, which is never
more than a buffer away. A call to a destroyed socket returns or ends the program, too.

## 4. The proofs

All leaves are checked by tlapm for every value of the constants that meets the
assumptions named in the modules.

* `BurstSync_proofs`: `TypeCorrect`, `FrameStartIsKept`, `LockedKeepsUp`,
  `GridStaysTrue`, `SlotsAreTaken`. `TypeCorrect` is for chunks of any length that fits the
  buffer: `SlippingSpec /\ []FrameStartKept => []TypeOK`, as the one thing that can make the
  buffer longer than it is, is a shift by a negative offset. The others assume `SmallChunks`: no chunk
  longer than a slot nor than the smallest distance of an awaited frame start (510
  and 317 bits in the code; see 5 for longer ones). The assumption of the module has
  the training sequences within the slot. The invariant `IInv` bounds the fill of the
  buffer in each state: while waiting for the frame start the discarded bits are always ones before it, and a
  locked receiver that consumes a slot per call never has more than it had when it
  locked. `GInv` adds what the buffer holds: its bits are the last ones sent, so
  that the place of each in its burst, and which of them are of one burst, follow from
  the transmitter's place (`Stream`). Then a training sequence found in the buffer
  tells where its burst begins. `SlotsAreTaken` is the refinement: each step is one of
  `SlotStream` under the mapping of `BurstSyncSlots`, or a stutter.
* `BurstCounters_proofs`: `CountersRefine`, `WrongAcrossTheWrap`, `GridSurvivesWrap`, under
  `SmallChunks`. They are about `BoundedSpec`, which leaves out the calls that compare across
  the wrap; the second theorem is that each of those would break the first. The
  invariant is `GInv` of the difference of the counters and that a frame start awaited
  is less than two buffers away; a difference modulo `Wrap` is then the difference.
* `CryptoNetwork_proofs`: `TypeCorrect`, `KeyIsCurrent`, `KeyIsOfMessage`,
  `KeystreamIsOfLastReceived`, `KnownStaysKnown`. The properties are not inductive
  alone: `NetworkOfTcd` relates the network believed in to the cell data once a
  cell is known; `ParametersHeard` says that area and carrier are those of the last
  broadcast PDU, or the area is unknown, and what the hyperframe number is; `SlotKeys`
  that the key of a fragment slot is of the network of the cell that opened it.
* `UpperMac_proofs`, of the fragment slots: `TypeCorrect`, `UnusedSlotsAreBlank`,
  `CountsAgree`, `KeyIsHeld`, `MessagesAreNotMixed`. A lemma per operation on a slot says that it keeps
  a slot sound (blank, or counted right, young and with its key); the queue of blocks
  only holds PDUs a base station sends. For `MessagesAreNotMixed` the invariant
  (`OrderInv`) says that a slot's buffer is in order and not ahead of its transmitter,
  and that at most one block of a fragment is under way, the transmitter's latest
  (`Coming`).
  Of the loop over a block: `LoopStaysAligned`, `NoPduIsHidden`, `MessagesAreWhole`, for any
  lengths of TM-SDUs and messages, any address types and optional elements. `Moves` is what the loop needs of a PDU: the
  length returned for it is the one it was sent with, or ends the block, or is 0. A
  lemma per kind of PDU shows it of whatever a base station puts into a block; a PDU
  that is parsed again had it before. `NoPduIsHidden` needs what the base station has
  put last into a block (`SentInv`). `MessagesAreWhole` assumes `FitsBuffer`: a message
  and one block more are not longer than the buffer of a slot (8192 bits in the code).
  Its invariant (`WholeInv`) says that the bits of a message sent so far are those in
  the slot, behind the header of the first fragment, which the code keeps.
* `TimeslotReceiver_proofs`: `TypeCorrect`, `TimeIsRight`, `TrafficIsOwn`, `OneSlot`,
  `ControlFrameSilent`, for every number of frames and multiframes (at least 2) and
  any usage markers. Lemma `Tick` writes the carries out and the rest follows from
  it. The invariant says what the blocks still pending tell of the burst: after the
  access assignment the traffic flag is its word (`Assigned`), a burst with SCH/F
  was noted in the frame of the present time (`Parsing`); and once synchronised the
  slot played, if any, is the chosen one and the frame of the choice is the present
  one (`Synced`).
* `AudioPacing_proofs`: `PaceKept`, `LagIsRight`, `RingHasRoom`, `SpeechStaysWhole`, for
  any lengths of chunks, timeslots and frames for which speech balances over a multiframe.
  `PaceKept` is the arithmetic of the divisions. For `LagIsRight` the
  invariant (`LagInv`) bounds what sound is ahead by `Ahead`, a function of the place
  in the multiframe: each frame with speech adds `Gain`, the last frame takes them
  all away (`GainIsConsumed`), a loss or silence only brings it nearer to 0, and
  `Ahead` is never below 0; its greatest value is the bound. `SpeechStaysWhole` keeps
  accounts: what sound is ahead, with the silence already given out and the rounding of
  the calls, is at least a balance (`Balance`) that is never below 0, and silence is
  only put in when nothing is ahead. `BegunInv` says why no speech is left out once a call
  was heard: the slot played last is then the call's. So the silence within a call is no more than the
  rounding of the calls of `process` (a ninth of a sample each) and that of one chunk.
* `ModuleLifecycle_proofs`: `SendingIsStopped`, `LightIsRight`, `ReaderIsOne`,
  `ChainIsOfMode`, `ConfigIsKept`, for any window, time of the light and number of
  sockets. For `SendingIsStopped` the invariant says that only sockets older than that of
  `conn` are destroyed, and that the handler is about to use an open one unless no chunk
  was given to a closed one yet. For `ReaderIsOne` the invariant speaks of the steps still to be taken: the list starts no reader, or stops the other
  one before; every list a call makes is of this form, and so is its tail
  with the step's effect on `running`. For `ChainIsOfMode` it says what the steps to be
  taken will make of `running` (`After`): the chain of the mode, or nothing but the
  resampler; for `ConfigIsKept` that a field is right or its save is still to come.
  For `LightIsRight` the countdown is the age of the last sequence recognised in the history of bits.

* `BroadcastChannel_proofs`, of the operators: `MetricsNeverOverflow`, `NoWordScoresMore`,
  `CleanCodeIsDecoded`, `CrcTellsBursts`, `UndisturbedBlockPasses`, `TurnedSymbolsAreRead`,
  `SyncBlocksAreCutOut`, `NormBlocksAreCutOut`; of the receiver: `MetricsAlwaysFit`,
  `TimeIsToldBySync`, `BnchIsWhereItIs`. They are described next.

**The channel.** A loop of the code is proved about by the row of what its turns make. A row
exists by induction over its length; the recursive function `Loop` gives its last element,
because that row is what the function is (a lemma per loop, such as `CrcMakes` and
`PhasesMade`); everything else is about neighbours in the row.
The library's induction theorem for numbers cannot be used, since its parameter is an
operator. `NatSet` replaces it: a set of numbers that has 0 and with a number the next one
has every number, which follows from `WFMin`, the theorem on least elements.

* `MetricsNeverOverflow`, `MetricsAlwaysFit` hold for any bits whatever in a block of any
  length. Two metrics differ by no more than `Apart`, which depends on how many of the lower
  bits of the states agree: a state is reached from two others, and a step adds or takes at
  most 254, as puncturing leaves two known symbols of four. So they are within 0 and 4064
  after a normalisation, and within 19050 until the next one, 59 steps later (`Near`, `Age`).
* `NoWordScoresMore` says that the decoder is a maximum-likelihood decoder, which is its
  reason to exist: whatever was received, no input has a code word that agrees with it in
  more symbols than that of the traced path. The metric of a state is the greatest score
  of a path to it plus what all paths have in common; the trellis with its own order of
  states and its tables is shown to be that of the shift register. `CleanCodeIsDecoded`: without errors
  the encoder's state has the best metric at each step, so that the trace back goes along
  its states (the four erased steps at the end lose nothing, because four zeros end the
  input: `Flushed`).
* `CrcTellsBursts`: two inputs that differ within 16 bits have different CRCs. Registers that
  are equal after the last difference agree in one place less before each bit (`CrcBitBack`),
  so that of the 16 one is left at the first difference, and there the bits would be the same;
  different registers stay different while the inputs are the same (`CrcBitIsInjective`).
* `UndisturbedBlockPasses`: for a block of each type, any content and any scrambling.
  Scrambling is its own inverse, deinterleaving inverts interleaving (the multiplier has no
  factor in common with the length, for each of the lengths of the code), and depuncturing puts
  back what puncturing left.
* `TurnedSymbolsAreRead`: each change of phase is read as the two bits it was made of, in each of the
  four quadrants, so that the numbers of the extractor and of the unpacker fit each other.
  `SyncBlocksAreCutOut` and `NormBlocksAreCutOut` follow the nine parts of a burst through
  `build_*_burst`, the symbols and `tetra_burst_rx_cb`.
* `TimeIsToldBySync` and `BnchIsWhereItIs` are `Spec /\ []NoGarbagePasses => []P`: they
  depend on nothing but that what passes the CRC was sent (what a payload holds does not
  enter into the proof), for any runs of errors, any identity of the two cells that a SYNC PDU has room for, and any number
  of frames and multiframes it has (`BroadcastAssumption`). The invariant (`KnowInv`) is that `elapsed` is a slot of the
  hyperframe, that the receiver's time is in its range from the start, and that once a cell is known
  the time is that of the slot, the cell one of those sending, and the blocks heard named
  for this slot. Within a burst it is shown block by block (`Trusted`), as SB1 changes what
  the blocks behind it are named. The condition is there because it is not a fact: a run of errors that
  is long enough can meet a word with the same CRC. In the run it holds of all that is sent.

**Model-checked only.** Liveness (`LocksForGood`, `TimeBecomesRight`, `SlotsAreFreed`,
`LoopEnds`, `SilenceComes`, `InterfaceReturns`) is out of the prover's reach. Of `broadcast`,
three properties are not theorems because they are not true of every payload and every
error: `BurstsAreFound` (a payload may hold a training sequence before that of its burst),
`RunsAreCorrected` (its bounds were found by trial and hold of runs of errors up to them; what
is proved is that the decoder finds the closest code word) and `NoGarbagePasses` (a CRC of 16
bits passes one in 65536 of what is not a burst of errors).

## 5. Not modelled

* The filters and loops of the demodulator (floating-point signal processing) and
  the ciphers (table-driven functions of bits to bits, without state); names and
  display texts; the speech codec; higher layers (not called).
* Code nobody calls: the puncturers other than 2/3, the matrix interleaver and
  `tch_reordering`; `osmo_conv.c` for other codes (recursive, tail biting, other rates);
  `decrypt_voice_timeslot`, `get_key_by_addr`, `load_keystore`; `is_bsch`,
  `tetra_tdma_time_add_sym` and `_add_fn`.
* Two decoders on the statics `t_phy_state` and `_tcd`: with two instances tuned to
  different cells nothing can be promised of the time or the cell, and there is no
  weaker statement the code is written for.
* Drawing and the text fields of the menu; a crash of the host for other reasons than the
  use of a destroyed socket (the module is otherwise deleted and created in order, with the
  configuration saved before).

Limits of the models, and behaviour they leave out on purpose:

* Chunks of a timeslot or more can push an awaited frame start out of the buffer;
  `SmallChunks` excludes them. The counters wrap after 2^32 bits; a receiver that
  waits for a frame start on the other side of the wrap compares wrongly. It then waits
  until the counters have come round, 33 hours, or moves a negative number of bits
  (`Across`; such calls are not in `BoundedSpec`, and none of them does what it should).
* Accidental training sequences inside data: in `BurstSync` a bit carries no value, in
  `BroadcastChannel` the payload has none.
* After a handover the location area and carrier of the cell before are kept until its
  SYSINFO; the properties of `CryptoNetwork` speak of what was received last for that reason.
  A first SYNC PDU with a failed CRC publishes zeros.
* A fragment slot keeps its key when the network changes. A fragment of the new network
  that arrives in a slot still open is deciphered with the key of the old one, until the
  slot has aged. "A PDU is deciphered only with a key of its own network" is therefore not
  a property of the code; `KeyOfMessageNetwork` has the network of the PDU that opened the
  slot.
* Nothing tests whether a hyperframe number was received: until then the keystream is made
  with the low 15 bits of -1. Nor is the type of a broadcast PDU tested: other ones than
  SYSINFO set area, carrier and the key or hyperframe number. `KeystreamOfLastReceived`
  allows for both.
* The RM(30,14) code of the access assignment is not decoded, its information bits
  are taken as received.
* The Viterbi decoder runs four steps beyond the data with erased symbols. Its metrics
  stay within 16 bits because puncturing leaves no more than two known
  symbols of four; with four, which no caller passes, they would not be safe by this argument.
* Sound is fast by up to half a bit in each call, about a thousandth. The mark of a
  speech slot stays while the lock is lost.
* The connection is replaced under the thread of the sink, without a lock: the chunk in
  its handler may go to the new socket, to none, or to the old one while it is destroyed.
  The last is undefined behaviour that the code does not prevent; `SendingStops` says how
  long it can last, and `ModuleLifecycle` lets the program end there. That `conn` itself is
  read while it is assigned is taken as a read of the pointer before or after.
* A change of the sample rate starts the resampler of a module that is disabled
  (`ChainMatchesMode` allows for it).
* A MAC-END whose length is 0 is parsed again and again; the second disjunct of
  `LoopEnds` is this case, and the only one.
* Speech in a frame whose number equals that of the last speech, multiframes ago, is taken
  for that of a second slot and left out (`Plays`). That is at the begin of a call only, as
  `SpeechIsUnbroken` states. In `AudioPacing` the receiver knows the time as soon as it
  is locked; the timeslots between the lock and the first SYNC PDU are left out.
* The spacings of 36, 45 and 39 MHz in the table of uplink carriers are too large for its
  16 bits and are stored as negative ones (`Int16`), which puts the uplink at a wrong
  place; the code says nothing of where it should be.
* A MAC-END whose length is less than that of its header, in an open slot, would be copied
  with a negative length (`append_frag_bits`); the base stations of `FragmentReceiver` and
  `MacBlock` send none, as the length includes the header.
* `sysinfo` decodes `option_field` from the bits of the key number; nothing reads it.
  The direction bit of the IV is left as the code passes it, 0; a build with assertions
  stops at that value (`tea_build_iv`).

## 6. Plan

Every safety property of the runs is a theorem but three of `broadcast`, which section 4
names with the reason, and so are both refinements. What could be added next, in this order: the
runs of errors that are certainly corrected, from the distance of the code, in place of the
bounds found by trial; the type invariants of `MacBlock`, `AudioPacing` and
`ModuleLifecycle`, of which the present proofs need only parts; the refinement of the
input of `TimeslotReceiver` by `SlotStream`; `load_keystore`, if the plugin comes to call it.
