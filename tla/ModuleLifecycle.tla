-------------------------- MODULE ModuleLifecycle --------------------------
(***************************************************************************)
(* The plugin in SDR++ (main.cpp): the thread of the user interface        *)
(* creates, enables, disables and destroys the module and handles its      *)
(* menu, each time in several steps; the thread of demodSink hands bits to *)
(* _demodSinkHandler, which sends them through a socket that the other     *)
(* thread opens, closes and replaces.  Nothing keeps the two apart: conn   *)
(* is a shared_ptr that one thread assigns while the other loads the       *)
(* pointer in it and then calls the object, which may be gone by then.     *)
(*                                                                         *)
(* A block's stop() lets its thread take no more input and waits for the   *)
(* call it is in; start() and stop() of a block that runs, or does not, do *)
(* nothing.                                                                *)
(***************************************************************************)
EXTENDS Naturals, Sequences, FiniteSets

CONSTANTS
    Window,         \* bits in tsfind_buffer: 45
    Expire,         \* symsbeforeexpire when a training sequence is found: 2048
    MaxSockets      \* bound: sockets opened in the life of a module

ASSUME LifecycleAssumption ==
    /\ Window \in Nat \ {0} /\ Expire \in Nat \ {0, 1} /\ MaxSockets \in Nat

VARIABLES
    enabled, mode,      \* enabled, decoder_mode
    running,            \* the blocks that run
    todo,               \* what the user interface has still to do in its call
    config,             \* config.conf[name]: mode and sending
    conn,               \* the socket conn points to, 0 for none
    opened, destroyed,  \* the sockets that are open, and those that were destroyed
    handler,            \* where _demodSinkHandler is
    sock,               \* the pointer it has loaded from conn, 0 for none
    heard,              \* history: the last bits, latest first; TRUE where a training
                        \* sequence begins.  The first Window are tsfind_buffer
    tsfound, expires,   \* tsfound, symsbeforeexpire
    late                \* history: chunks given to a socket that is not open, since one
                        \* was closed or opened, to 2

chain == <<enabled, mode, running>>
net == <<conn, opened, destroyed, late>>
thread == <<handler, sock>>
search == <<heard, tsfound, expires>>
vars == <<chain, todo, config, net, thread, search>>

\* The demodulator up to the unpacker of bits, the two that may read its output, and
\* what plays the sound.
Blocks == {"front", "decoder", "sink", "resamp", "back"}

\* One step of the user interface.
Start(b) == [op |-> "start", arg |-> b]
Stop(b) == [op |-> "stop", arg |-> b]
Save(field) == [op |-> "save", arg |-> field]
Do(op) == [op |-> op, arg |-> ""]

MutSetMode(m) ==                    \* the new one first
    IF m = 0 THEN <<Start("decoder"), Stop("sink"), Save("mode")>>
    ELSE <<Start("sink"), Stop("decoder"), Save("mode")>>

SetMode(m) ==
    IF m = 0 THEN <<Stop("sink"), Start("decoder"), Save("mode")>>
    ELSE <<Stop("decoder"), Start("sink"), Save("mode")>>

StartAll(m) == <<Start("front")>> \o SetMode(m) \o <<Start("resamp"), Start("back")>>

MutStopAll == <<Stop("front"), Stop("decoder"), Stop("resamp"), Stop("back")>>
StopAll == <<Stop("front"), Stop("decoder"), Stop("sink"), Stop("resamp"), Stop("back")>>

StartNetwork == <<Do("close"), Do("open"), Do("destroy")>>

NetActive == conn \in opened

-----------------------------------------------------------------------------
(* Calls of the user interface. *)

Idle == todo = <<>>
\* The menu is greyed out while the module is disabled.
Clickable == Idle /\ enabled

Enable ==
    /\ Idle /\ ~enabled
    /\ todo' = StartAll(mode) \o <<Do("enable")>>
    /\ UNCHANGED <<chain, config, net, thread, search>>

Disable ==
    /\ Idle /\ enabled
    /\ todo' = StopAll \o <<Do("disable")>>
    /\ UNCHANGED <<chain, config, net, thread, search>>

ClickMode(m) ==
    /\ Clickable /\ mode # m
    /\ mode' = m /\ todo' = SetMode(m)
    /\ UNCHANGED <<enabled, running, config, net, thread, search>>

MutNetStop == <<Save("idle")>>              \* the socket stays open
NetStop == <<Do("close"), Save("idle")>>

ClickNetStop ==
    /\ Clickable /\ mode = 1 /\ NetActive
    /\ todo' = NetStop
    /\ UNCHANGED <<chain, config, net, thread, search>>

ClickNetStart ==
    /\ Clickable /\ mode = 1 /\ ~NetActive
    /\ todo' = StartNetwork \o <<Save("sending")>>
    /\ UNCHANGED <<chain, config, net, thread, search>>

\* sampleRateChangeHandler: enabled or not.
SampleRateChange ==
    /\ Idle
    /\ todo' = <<Stop("resamp"), Start("resamp")>>
    /\ UNCHANGED <<chain, config, net, thread, search>>

\* The module is deleted, and later created with the configuration it left.
Delete ==
    /\ Idle
    /\ todo' = (IF enabled THEN StopAll ELSE <<>>) \o <<Do("create")>>
    /\ UNCHANGED <<chain, config, net, thread, search>>

-----------------------------------------------------------------------------
(* The steps they take. *)

Op(op) == todo # <<>> /\ Head(todo).op = op /\ todo' = Tail(todo)
Arg == Head(todo).arg

StartBlock ==
    /\ Op("start")
    /\ running' = running \cup {Arg}
    /\ UNCHANGED <<enabled, mode, config, net, thread, search>>

\* Bits are missed: a sequence that had only begun is not recognised any more.
Cut(h) == [i \in DOMAIN h |-> h[i] /\ i >= Window]

StopBlock ==
    /\ Op("stop")
    /\ Arg = "sink" => handler = "wait"
    /\ running' = running \ {Arg}
    /\ heard' \in {heard, IF Arg \in {"front", "sink"} THEN Cut(heard) ELSE heard}
    /\ UNCHANGED <<enabled, mode, config, net, thread, tsfound, expires>>

SaveConfig ==
    /\ Op("save")
    /\ config' = IF Arg = "mode" THEN [config EXCEPT !.mode = mode]
                 ELSE [config EXCEPT !.sending = (Arg = "sending")]
    /\ UNCHANGED <<chain, net, thread, search>>

SetEnabled ==
    /\ Op("enable") \/ Op("disable")
    /\ enabled' = (Head(todo).op = "enable")
    /\ UNCHANGED <<mode, running, config, net, thread, search>>

CloseSocket ==
    /\ Op("close")
    /\ opened' = opened \ {conn} /\ late' = 0
    /\ UNCHANGED <<chain, config, conn, destroyed, thread, search>>

\* openudp makes a socket, which conn then points to, or throws.
OpenSocket ==
    /\ Op("open")
    /\ \/ /\ conn < MaxSockets
          /\ conn' = conn + 1 /\ opened' = {conn + 1} /\ late' = 0 /\ UNCHANGED destroyed
       \/ UNCHANGED net
    /\ UNCHANGED <<chain, config, thread, search>>

MutReplaced == 1 .. conn                    \* also if no other took its place
\* conn was the only one to own the socket it pointed to before.
Replaced == 1 .. (conn - 1)

DestroySocket ==
    /\ Op("destroy")
    /\ destroyed' = Replaced
    /\ UNCHANGED <<chain, config, conn, opened, late, thread, search>>

\* The buffer of the search is not initialised.
FreshBuffer ==
    {h \in [1 .. (Window + Expire) -> BOOLEAN] : \A i \in DOMAIN h : i >= Window => ~h[i]}

\* The constructor, up to the first start.
Create ==
    /\ todo # <<>> /\ Head(todo).op = "create"
    /\ mode' = config.mode /\ enabled' = TRUE /\ running' = {}
    /\ conn' = 0 /\ opened' = {} /\ destroyed' = {} /\ late' = 0
    /\ handler' = "wait" /\ sock' = 0
    /\ tsfound' = FALSE /\ expires' = 0 /\ heard' \in FreshBuffer
    /\ todo' = StartAll(config.mode) \o (IF config.sending THEN StartNetwork ELSE <<>>)
    /\ UNCHANGED config

-----------------------------------------------------------------------------
(* The thread of demodSink. *)

\* It loads conn and tests the pointer.
HandlerTests ==
    /\ handler = "wait" /\ {"front", "sink"} \subseteq running
    /\ todo # <<>> => Head(todo) # Stop("sink")
    /\ sock' = conn
    /\ handler' = IF conn # 0 THEN "ask" ELSE "search"
    /\ UNCHANGED <<chain, todo, config, net, search>>

MutAnswers(s) == BOOLEAN                    \* whether it is open does not matter
\* What isOpen() may say: what is left of a destroyed socket says anything.
Answers(s) == IF s \in destroyed THEN BOOLEAN ELSE {s \in opened}

HandlerAsks ==
    /\ handler = "ask"
    /\ \E open \in Answers(sock) : handler' = IF open THEN "load" ELSE "search"
    /\ sock' = 0
    /\ UNCHANGED <<chain, todo, config, net, search>>

\* It loads conn again, and takes whatever it points to by now.
HandlerLoads ==
    /\ handler = "load"
    /\ sock' = conn /\ handler' = "send"
    /\ UNCHANGED <<chain, todo, config, net, search>>

MutAfterSend == IF sock \in opened THEN "search" ELSE "load"    \* it tries again
AfterSend == "search"

HandlerSends ==
    /\ handler = "send"
    /\ late' = IF sock \in opened THEN late ELSE IF late = 0 THEN 1 ELSE 2
    /\ handler' = AfterSend /\ sock' = 0
    /\ UNCHANGED <<chain, todo, config, conn, opened, destroyed, search>>

\* A call to a socket that was destroyed may also end the program; then it is started
\* again with the configuration as it was saved some time before.
Crash ==
    /\ handler \in {"ask", "send"} /\ sock \in destroyed
    /\ running' = {} /\ todo' = <<Do("create")>>
    /\ config' \in [mode : {0, 1}, sending : BOOLEAN]
    /\ handler' = "wait" /\ sock' = 0
    /\ UNCHANGED <<enabled, mode, net, search>>

MutExpires(e, found) == IF found THEN Expire ELSE IF e > 0 THEN e - 1 ELSE 0
\* The count is set, and then counted down for the same bit.
Expires(e, found) == IF found THEN Expire - 1 ELSE IF e > 0 THEN e - 1 ELSE 0

\* One turn of the loop: the next bit enters the buffer; a training sequence is
\* recognised when its first bit is the oldest there.
HandlerSearches(starts, last) ==
    /\ handler = "search"
    /\ heard' = [i \in DOMAIN heard |-> IF i = 1 THEN starts ELSE heard[i - 1]]
    /\ LET found == heard'[Window]
       IN  /\ expires' = Expires(expires, found)
           /\ tsfound' = (expires' > 0 /\ (found \/ tsfound))
    /\ handler' = IF last THEN "wait" ELSE "search"
    /\ UNCHANGED <<chain, todo, config, net, sock>>

-----------------------------------------------------------------------------
Init ==
    /\ enabled = TRUE /\ mode = 0 /\ running = {}
    /\ config = [mode |-> 0, sending |-> FALSE]
    /\ conn = 0 /\ opened = {} /\ destroyed = {} /\ late = 0
    /\ handler = "wait" /\ sock = 0
    /\ heard \in FreshBuffer /\ tsfound = FALSE /\ expires = 0
    /\ todo = StartAll(0)

UserInterface ==
    \/ StartBlock \/ StopBlock \/ SaveConfig \/ SetEnabled \/ CloseSocket \/ OpenSocket
    \/ DestroySocket \/ Create

User ==
    \/ Enable \/ Disable \/ ClickNetStop \/ ClickNetStart \/ SampleRateChange \/ Delete
    \/ \E m \in {0, 1} : ClickMode(m)

Handler ==
    \/ HandlerTests \/ HandlerAsks \/ HandlerLoads \/ HandlerSends \/ Crash
    \/ \E starts, last \in BOOLEAN : HandlerSearches(starts, last)

Next == UserInterface \/ User \/ Handler
Spec == Init /\ [][Next]_vars

\* Both threads run, and a chunk of bits has an end.
FairSpec ==
    /\ Spec /\ WF_vars(UserInterface) /\ WF_vars(Handler)
    /\ SF_vars(\E starts \in BOOLEAN : HandlerSearches(starts, TRUE))

-----------------------------------------------------------------------------
TypeOK ==
    /\ enabled \in BOOLEAN /\ mode \in {0, 1} /\ running \subseteq Blocks
    /\ todo \in Seq([op : {"start", "stop", "save", "enable", "disable", "close", "open", "destroy",
                           "create"},
                     arg : Blocks \cup {"mode", "sending", "idle", ""}])
    /\ config \in [mode : {0, 1}, sending : BOOLEAN]
    /\ conn \in 0 .. MaxSockets /\ sock \in 0 .. MaxSockets
    /\ opened \subseteq 1 .. MaxSockets /\ destroyed \subseteq 1 .. MaxSockets
    /\ handler \in {"wait", "ask", "load", "send", "search"}
    /\ expires \in 0 .. Expire /\ tsfound \in BOOLEAN

\* At no moment do the decoder and the sink both read the unpacked bits: a stream has
\* one reader, and stopping one of two would stop the other.
OneReader == ~({"decoder", "sink"} \subseteq running)

\* Between its calls the user interface leaves a chain that is complete and has the
\* reader of the chosen mode, or one that stands still but for the resampler, which
\* a change of the sample rate starts; nothing is in the handler without its block.
ChainMatchesMode ==
    /\ Idle => IF enabled
               THEN running = Blocks \ {IF mode = 0 THEN "sink" ELSE "decoder"}
               ELSE running \subseteq {"resamp"}
    /\ handler # "wait" => "sink" \in running

\* What is in the configuration is what a restart should restore: the mode, and that
\* bits are sent if they are.
ConfigIsState == Idle => config.mode = mode /\ (NetActive => config.sending)

\* Once the user has stopped the network no more than the chunk being handled is given to
\* a socket, although whether it is open is asked of one and the bits are given to another
\* (_demodSinkHandler, stopNetwork).  What conn points to exists, also after openudp has
\* thrown; null is never called.  The socket that was loaded from it may be destroyed
\* before it is called, which nothing in the code prevents: but then it was replaced in
\* between, and in the next call of the handler it is not used any more (startNetwork).
SendingStops ==
    /\ late <= 1
    /\ conn \notin destroyed
    /\ handler \in {"ask", "send"} => sock # 0 /\ (sock \in destroyed => sock < conn)

\* The light for training sequences is on exactly if one was recognised in the last
\* Expire - 1 bits that came, however often the sink was stopped meanwhile.
LightIsRecent == tsfound <=> \E i \in Window .. (Window + Expire - 2) : heard[i]

\* The user interface never waits for ever for a thread to end.
InterfaceReturns == []<>Idle
=============================================================================
