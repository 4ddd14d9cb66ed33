---------------------------- MODULE AudioPacing ----------------------------
(***************************************************************************)
(* The sound of the decoder block (dsp/osmotetra_dec.h): each call of      *)
(* process() takes a chunk of bits, and gives out the speech decoded in    *)
(* it, or silence, so that 8 samples come for 36 bits.  Speech comes a     *)
(* frame at a time, more than is due at that moment; what is ahead is      *)
(* counted and keeps silence back later.                                   *)
(*                                                                         *)
(* Around it: a base station with at most one call, which has its timeslot *)
(* in every frame but the last of a multiframe, and a synchroniser that    *)
(* loses its lock with a burst and gets it again sooner or later.  Locked  *)
(* means here that the time is right as well (synced in TimeslotReceiver): *)
(* the frame and slot number the decoder works with are those in the air.  *)
(***************************************************************************)
EXTENDS Integers

CONSTANTS
    Lens,           \* lengths of the chunks, in bits
    BitsPerSlot,    \* 510
    Speech,         \* samples in a timeslot of speech: 480
    MaxFn,          \* frames in a multiframe: 18
    RingSize,       \* of out_tmp_buff: 32768
    CallSlots,      \* bound: the timeslots calls are given
    MaxLosses,      \* bound: how many bursts are lost while the signal is bad
    MaxCalls        \* bound: how many calls begin

ASSUME AudioPacingAssumption ==
    /\ Lens # {} /\ Lens \subseteq 1 .. BitsPerSlot
    /\ BitsPerSlot \in Nat \ {0} /\ Speech \in Nat \ {0}
    /\ MaxFn \in Nat \ {0, 1} /\ RingSize \in Nat /\ RingSize >= Speech
    /\ CallSlots \subseteq 1 .. 4 /\ MaxLosses \in Nat /\ MaxCalls \in Nat
    \* A call brings as many samples in a multiframe as are due in one.
    /\ (MaxFn - 1) * Speech * 36 = MaxFn * 4 * BitsPerSlot * 8

VARIABLES
    inSyms,         \* inSymsCtr
    outSyms,        \* outSymsCtr
    ring,           \* samples in out_tmp_buff
    voice,          \* the timeslots whose timeslot_content is 4
    out,            \* the last call: samples of speech and of silence given out,
                    \* samples that did not fit into the ring, whether a timeslot of
                    \* speech was received but not played, bits taken in
    lastFrame,      \* tms->last_frame: the frame of the last speech
    activeSlot,     \* tms->curr_active_timeslot: the timeslot played in that frame
    locked,         \* the synchroniser is locked
    air,            \* the timeslot in the air: [bit, tn, fn]
    call,           \* the timeslot of the call, 0 for none
    begun,          \* history: speech of this call has been played
    since,          \* history: all of the speech of the call was received since it
                    \* was played in the first frame of a multiframe
    quiet,          \* history: the samples of silence and the calls of process since
                    \* the last speech in such a frame, as long as since is true
    left            \* the losses and calls yet to come

chosen == <<lastFrame, activeSlot>>
vars == <<inSyms, outSyms, ring, voice, out, chosen, locked, air, call, begun, since, quiet,
          left>>

NotQuiet == [samples |-> 0, calls |-> 0]

-----------------------------------------------------------------------------
\* The burst of a timeslot as the decoder notes it.
IsSpeech(slot) == call = slot.tn /\ slot.fn # MaxFn

\* The choice in tp_sap_udata_ind: the first slot with speech in a frame is played.
\* A frame is only told from the last one with speech by its number, so that speech
\* in another slot is not played when that was a multiframe ago.
MutPlays(slot) == IsSpeech(slot) /\ slot.fn # lastFrame      \* whatever the slot
Plays(slot) == IsSpeech(slot) /\ (slot.fn = lastFrame => slot.tn = activeSlot)

\* put_voice_data.
Put(r) == IF RingSize - r >= Speech THEN r + Speech ELSE r

\* Samples due for some bits.
Required(bits) == (bits * 8) \div 36

MutCarried(o, due) == 0                     \* what is ahead is forgotten
Carried(o, due) == IF o < due THEN 0 ELSE o - due

MutMark(v, tn, speech) == IF speech THEN v \cup {tn} ELSE v    \* never taken away
\* What tetra_burst_rx_cb and the lower MAC note of a timeslot.
Mark(v, tn, speech) == IF speech THEN v \cup {tn} ELSE v \ {tn}

MutRest(bits, due) == 0                     \* what is left of the bits is forgotten
Rest(bits, due) == bits - (due * 36) \div 8

Decoding(v) == v # {}

\* The rest of process, when the synchroniser has left r samples in the ring and v is
\* what it noted: len bits came in, lost samples did not fit, skipped if speech was not
\* played.  All of the ring is given out, and silence if less is there than is due.
Pace(len, r, v, lost, skipped) ==
    LET bits == inSyms + len
        due == Required(bits)
        o == outSyms + r
        silence == IF due > o /\ ~Decoding(v) THEN due - o ELSE 0
    IN  /\ out' = [speech |-> r, silence |-> silence, lost |-> lost, skipped |-> skipped,
                   bits |-> len]
        /\ ring' = 0
        /\ outSyms' = Carried(o, due)
        /\ inSyms' = Rest(bits, due)
        /\ voice' = v

-----------------------------------------------------------------------------
NextSlot(a) ==
    IF a.tn < 4 THEN [bit |-> 0, tn |-> a.tn + 1, fn |-> a.fn]
    ELSE [bit |-> 0, tn |-> 1, fn |-> IF a.fn = MaxFn THEN 1 ELSE a.fn + 1]

\* What quiet is after a call; started if it had speech of a first frame.
Hush(started) ==
    LET before == IF started THEN NotQuiet ELSE quiet
    IN  quiet' = IF since' THEN [samples |-> before.samples + out'.silence,
                                 calls |-> before.calls + 1]
                 ELSE NotQuiet

\* One call of process in the middle of a timeslot, or with its last bits: then the
\* synchroniser has a burst, at most one as no chunk is longer.
Within(len) ==
    /\ air.bit + len < BitsPerSlot
    /\ air' = [air EXCEPT !.bit = @ + len]
    /\ Pace(len, ring, voice, 0, FALSE)
    /\ UNCHANGED <<chosen, locked, call, begun, since, left>>
    /\ Hush(FALSE)

\* The burst is received and parsed, or it is not.
BurstEnds(len, received) ==
    /\ air.bit + len >= BitsPerSlot
    /\ air' = [NextSlot(air) EXCEPT !.bit = air.bit + len - BitsPerSlot]
    /\ IF received
       THEN LET r == IF Plays(air) THEN Put(ring) ELSE ring
            IN  /\ Pace(len, r, Mark(voice, air.tn, IsSpeech(air)),
                        IF Plays(air) /\ r = ring THEN Speech ELSE 0,
                        IsSpeech(air) /\ ~Plays(air))
                /\ lastFrame' = IF IsSpeech(air) THEN air.fn ELSE lastFrame
                /\ activeSlot' = IF Plays(air) THEN air.tn ELSE activeSlot
                /\ begun' = (begun \/ Plays(air))
       ELSE Pace(len, ring, voice, 0, FALSE) /\ UNCHANGED <<chosen, begun>>
    /\ since' = IF IsSpeech(air) THEN received /\ (since \/ (Plays(air) /\ air.fn = 1))
                ELSE since
    /\ Hush(Plays(air) /\ air.fn = 1)
    /\ UNCHANGED call

Receive(len) == locked /\ BurstEnds(len, TRUE) /\ UNCHANGED <<locked, left>>

\* A burst is not recognised: the lock is lost.
Lose(len) ==
    /\ locked /\ left.losses > 0
    /\ BurstEnds(len, FALSE)
    /\ locked' = FALSE /\ left' = [left EXCEPT !.losses = @ - 1]

\* A timeslot without a lock; at its end there may be one again.
Search(len, found) ==
    /\ ~locked
    /\ BurstEnds(len, FALSE)
    /\ locked' = found /\ UNCHANGED left

\* Calls begin and end between frames.
AtFrame == air.tn = 1 /\ air.bit = 0

CallBegins(tn) ==
    /\ AtFrame /\ call = 0 /\ left.calls > 0
    /\ call' = tn /\ begun' = FALSE
    /\ left' = [left EXCEPT !.calls = @ - 1]
    /\ UNCHANGED <<inSyms, outSyms, ring, voice, out, chosen, locked, air, since, quiet>>

CallEnds ==
    /\ AtFrame /\ call # 0
    /\ call' = 0 /\ begun' = FALSE /\ since' = FALSE /\ quiet' = NotQuiet
    /\ UNCHANGED <<inSyms, outSyms, ring, voice, out, chosen, locked, air, left>>

Process ==
    \E len \in Lens :
        Within(len) \/ Receive(len) \/ Lose(len) \/ \E found \in BOOLEAN : Search(len, found)

Init ==
    /\ inSyms = 0 /\ outSyms = 0 /\ ring = 0 /\ voice = {}
    /\ out = [speech |-> 0, silence |-> 0, lost |-> 0, skipped |-> FALSE, bits |-> 0]
    /\ lastFrame = 0 /\ activeSlot = 0
    /\ locked = FALSE /\ call = 0 /\ begun = FALSE /\ since = FALSE /\ quiet = NotQuiet
    /\ air \in [bit : {0}, tn : 1 .. 4, fn : {MaxFn}]
    /\ left = [losses |-> MaxLosses, calls |-> MaxCalls]

Next == Process \/ CallEnds \/ \E tn \in CallSlots : CallBegins(tn)
Spec == Init /\ [][Next]_vars

\* Bits keep coming, calls end, and the lock is found again.
FairSpec ==
    /\ Spec /\ WF_vars(Process) /\ SF_vars(CallEnds)
    /\ SF_vars(\E len \in Lens : Search(len, TRUE))

-----------------------------------------------------------------------------
\* What is given out is what the bits are good for: in each call to half a bit, the
\* counters taken into account.  Only while a timeslot is marked as speech may it
\* be less.  (In 36ths of a sample; 8 are due for a bit.)
Account == 36 * outSyms - 8 * inSyms

PaceIsKept ==
    [][Process =>
        LET given == 36 * (out'.speech + out'.silence) - 8 * out'.bits
            off == given - (Account' - Account)
        IN  off <= 4 /\ (~Decoding(voice') => off >= 0)]_vars

\* The lag that builds up in a multiframe is gone with its last frame, also if calls
\* follow one another: sound is never further ahead than if all the speech of a
\* multiframe came from the end of its first frame to the end of the first slot of its
\* last frame but one.
LagIsBounded ==
    outSyms <= (MaxFn - 1) * Speech - Required((4 * (MaxFn - 2) - 3) * BitsPerSlot)

\* Whatever is in the ring buffer is given out in the call that brought it, so that there
\* is room for more.  Speech that is received is always played, but for the begin of a
\* call: what comes in a frame with the number of the last frame an earlier call in another
\* slot was heard in is left out, until the first speech that is played; after it nothing
\* is.  And from then on a call that is received is not interrupted by silence: what it is
\* ahead in a multiframe lasts for the frame without speech.  From one first frame to the
\* next no more silence is given out than for half a bit in each call of process, and for
\* the bits of one chunk and those left over before it, as the chunks may lie differently
\* in the next multiframe (tp_sap_udata_ind, put_voice_data, process).
SpeechIsUnbroken ==
    /\ out.lost = 0
    /\ begun => ~out.skipped
    /\ since => \E len \in Lens :
                    36 * quiet.samples <= 4 * quiet.calls + 8 * (len + 4)

\* When there is no call any more, sound goes on: the marks that keep silence back
\* are all taken away.
SilenceComes == []<>(out.silence > 0)
=============================================================================
