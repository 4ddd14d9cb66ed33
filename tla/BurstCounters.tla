---------------------------- MODULE BurstCounters ----------------------------
(***************************************************************************)
(* The burst synchroniser with its two absolute bit counters, which are    *)
(* unsigned and wrap (after 2^32 bits, 33 hours of reception).  BurstSync  *)
(* describes the same machine by their difference; here each update and    *)
(* the one comparison of the counters is the C expression, modulo Wrap.    *)
(***************************************************************************)
EXTENDS Integers, Sequences

CONSTANTS TS, BufSize, SyncOffs, NormOffs, SyncLen, NormLen, Blind, Lossy, Lens,
          MaxNoSync,
          Wrap      \* 2^32: unsigned int

VARIABLES
    state, buf, out, air,
    start,          \* bitbuf_start_bitnum
    next            \* next_frame_start_bitnum

vars == <<state, buf, out, air, start, next>>

U32(n) == n % Wrap

\* int offset = next - start: the difference modulo Wrap, read as signed.
Signed(n) == IF U32(n) < Wrap \div 2 THEN U32(n) ELSE U32(n) - Wrap

\* The distance BurstSync keeps; it is dead while the receiver is unlocked.
gap == IF state = "unlocked" THEN 0 ELSE Signed(next - start)

Sync == INSTANCE BurstSync

ASSUME BurstCountersAssumption ==
    /\ Sync!BurstSyncAssumption
    /\ Wrap \in Nat /\ Wrap > 4 * BufSize

-----------------------------------------------------------------------------
Counters(s, n) == start' = U32(s) /\ next' = U32(n)

Keep(s, b) == state' = s /\ buf' = b /\ out' = Sync!Idle

\* RX_S_LOCKED with b in the buffer, whose first bit is number s.
Process(b, s, n) ==
    IF Len(b) < TS
    THEN Keep("locked", b) /\ Counters(s, n)
    ELSE Sync!Handle(b) /\ Counters(s + TS, n + TS)

Unlocked(b, s) ==
    /\ state = "unlocked"
    /\ LET m == IF Len(b) < 2 * TS THEN {} ELSE Sync!Matches(b, {"sync"})
       IN  IF m = {} THEN Keep("unlocked", b) /\ Counters(s, next)
           ELSE /\ Keep("know_fstart", b)
                /\ Counters(s, s + Sync!First(m) + Sync!FStart)

MutReceived(b, s) == U32(s + Len(b)) > next     \* one bit late
\* The comparison is between two wrapped numbers.
FrameStartReceived(b, s) == U32(s + Len(b)) >= next

KnowFStart(b, s) ==
    /\ state = "know_fstart"
    /\ IF ~FrameStartReceived(b, s) THEN Keep("know_fstart", b) /\ Counters(s, next)
       ELSE LET offset == Signed(next - s)
            IN  Process(Sync!Shifted(b, offset), s + offset, next + TS)

Locked(b, s) == state = "locked" /\ Process(b, s, next)

SyncIn(bits) ==
    LET b == Sync!Appended(bits)
        s == U32(start + Sync!Dropped(Len(bits)))
    IN  Unlocked(b, s) \/ KnowFStart(b, s) \/ Locked(b, s)

Receive(len) ==
    \E ks \in [1 .. Sync!Begun(len) -> Sync!AirKinds] :
        /\ Sync!MayFollow(ks)
        /\ SyncIn(Sync!Sent(len, ks))
        /\ Sync!Advance(len, ks)

\* trs is zeroed memory; one transmitter is enough, its phase is arbitrary.
Init ==
    /\ state = "unlocked" /\ buf = <<>> /\ out = Sync!Idle
    /\ start = 0 /\ next = 0
    /\ air \in [ph : 0 .. TS - 1, kind : Sync!AirKinds, run : {0}, good : {FALSE}]

\* Reception has been going on for any length of time and is locked.
LockedInit ==
    /\ state = "locked" /\ buf = <<>> /\ out = Sync!Idle
    /\ start \in 0 .. Wrap - 1 /\ next = U32(start + TS)
    /\ air \in [ph : {0}, kind : Sync!AirKinds, run : {0}, good : {FALSE}]

\* A call that is about to compare the end of its buffer with a frame start on the other
\* side of the wrap: one of the two numbers has wrapped since the start of the buffer.
Across(len) ==
    LET d == Sync!Dropped(len)
        s == U32(start + d)
    IN  state = "know_fstart" /\ (U32(s + (Len(buf) + len - d)) < s) # (next < s)

\* All calls but those: the comparison is then wrong, and the code waits until the counters
\* have come round, or moves a negative number of bits.
Calls == \E len \in Lens : ~Across(len) /\ Receive(len)
BoundedSpec == (Init \/ LockedInit) /\ [][Calls]_vars

-----------------------------------------------------------------------------
\* Every call of BoundedSpec, locked or searching, before, at and behind the wrap, does what
\* BurstSync says: on the difference of the counters, a call waits exactly while the
\* awaited frame start is beyond the buffer.
StepsRefine == [][Sync!Next]_(Sync!vars)

\* While locked or about to lock, next_frame_start_bitnum is where a frame of the
\* transmitter starts and the buffer is aligned to it.
GridIsTrue == Sync!GridIsTrue
=============================================================================
