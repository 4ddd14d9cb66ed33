----------------------- MODULE ModuleLifecycle_proofs -----------------------
(***************************************************************************)
(* Proofs about ModuleLifecycle, for every length of the buffer of the     *)
(* search, of the time the light stays on, and any number of sockets.      *)
(***************************************************************************)
EXTENDS ModuleLifecycle, SequenceTheorems, TLAPS

-----------------------------------------------------------------------------
(* The socket. *)

\* A chunk can be on its way to a socket that was found open, or in a call that asks one
\* that was replaced since: then none was given to a closed socket since conn was closed
\* or assigned.  Those that were destroyed were made before the one conn points to.
SendingInv ==
    /\ conn \in Nat /\ sock \in Nat /\ late \in {0, 1}
    /\ \A s \in destroyed : s \in Nat /\ s < conn
    /\ handler = "ask" => sock # 0 /\ (sock = conn \/ late = 0)
    /\ handler = "load" => conn # 0 /\ (conn \in opened \/ late = 0)
    /\ handler = "send" => sock # 0 /\ (sock \in opened \/ late = 0)

LEMMA SendingInit == Init => SendingInv
BY DEF Init, SendingInv

\* The steps that leave the socket and the handler alone, and those of the two threads
\* that do not.
LEMMA SendingStep == SendingInv /\ [Next]_vars => SendingInv'
<1> SUFFICES ASSUME SendingInv, [Next]_vars PROVE SendingInv'
    OBVIOUS
<1> USE DEF SendingInv
<1>1. CASE UNCHANGED <<net, thread>>
    BY <1>1 DEF net, thread
<1>2. CASE CloseSocket
    BY <1>2 DEF CloseSocket, thread
<1>3. CASE OpenSocket
    <2>1. CASE UNCHANGED net
        BY <1>1, <1>3, <2>1 DEF OpenSocket
    <2>2. CASE conn' = conn + 1 /\ late' = 0 /\ UNCHANGED <<destroyed, thread>>
        BY <2>2 DEF thread
    <2> QED
        BY <1>3, <2>1, <2>2 DEF OpenSocket
<1>12. CASE DestroySocket
    BY <1>12 DEF DestroySocket, Replaced, thread
<1>4. CASE Create
    BY <1>4 DEF Create
<1>5. CASE HandlerTests
    BY <1>5 DEF HandlerTests, net
<1>13. CASE HandlerAsks
    BY <1>13 DEF HandlerAsks, Answers, net
<1>14. CASE HandlerLoads
    BY <1>14 DEF HandlerLoads, net
<1>6. CASE HandlerSends
    BY <1>6 DEF HandlerSends, AfterSend
<1>15. CASE Crash
    BY <1>15 DEF Crash, net
<1>7. CASE \E starts, last \in BOOLEAN : HandlerSearches(starts, last)
    BY <1>7 DEF HandlerSearches, net
<1>8. CASE StopBlock
    BY <1>8, <1>1 DEF StopBlock
<1>9. CASE UNCHANGED vars
    BY <1>9, <1>1 DEF vars
<1>10. CASE StartBlock \/ SaveConfig \/ SetEnabled
    BY <1>10, <1>1 DEF StartBlock, SaveConfig, SetEnabled
<1>11. CASE User
    BY <1>11, <1>1 DEF User, Enable, Disable, ClickNetStop, ClickNetStart, SampleRateChange, Delete, ClickMode
<1> QED
    BY <1>2, <1>3, <1>4, <1>5, <1>6, <1>7, <1>8, <1>9, <1>10, <1>11, <1>12, <1>13, <1>14, <1>15
       DEF Next, UserInterface, Handler

\* Once the network is stopped at most the chunk being handled is given to a socket; conn
\* never points to one that is destroyed, and the handler calls one only if it was replaced
\* after it had loaded the pointer (_demodSinkHandler, startNetwork, stopNetwork).
THEOREM SendingIsStopped == Spec => []SendingStops
<1>1. SendingInv => SendingStops
    BY DEF SendingInv, SendingStops
<1> QED
    BY SendingInit, SendingStep, <1>1, PTL DEF Spec

-----------------------------------------------------------------------------
(* The light. *)

\* The count of bits says how long ago the last training sequence was recognised.
LightInv ==
    /\ heard \in [1 .. (Window + Expire) -> BOOLEAN]
    /\ expires \in 0 .. Expire - 1
    /\ tsfound \in BOOLEAN /\ (tsfound <=> expires > 0)
    /\ expires > 0 => heard[Window + Expire - 1 - expires]
    /\ \A i \in Window .. (Window + Expire - 2) : heard[i] => expires >= Window + Expire - 1 - i

LEMMA LightInit == Init => LightInv
<1> SUFFICES ASSUME Init PROVE LightInv
    OBVIOUS
<1>1. heard \in [1 .. (Window + Expire) -> BOOLEAN] /\ \A i \in 1 .. (Window + Expire) : i >= Window => ~heard[i]
    BY DEF Init, FreshBuffer
<1>2. \A i \in Window .. (Window + Expire - 2) : i \in 1 .. (Window + Expire) /\ i >= Window
    BY LifecycleAssumption DEF LifecycleAssumption
<1>3. expires = 0 /\ tsfound = FALSE /\ 0 \in 0 .. Expire - 1
    BY LifecycleAssumption DEF Init, LifecycleAssumption
<1>4. ~(expires > 0) /\ \A i \in Window .. (Window + Expire - 2) : ~heard[i]
    BY <1>1, <1>2, <1>3
<1> QED
    BY <1>1, <1>3, <1>4 DEF LightInv

\* One bit more: all that was heard is one place further back.
LEMMA LightSearch ==
    ASSUME LightInv, NEW starts \in BOOLEAN, NEW last \in BOOLEAN, HandlerSearches(starts, last)
    PROVE  LightInv'
<1> DEFINE found == heard'[Window]
<1>1. /\ Window \in Nat \ {0} /\ Expire \in Nat \ {0, 1} /\ expires \in Nat
    BY LifecycleAssumption DEF LifecycleAssumption, LightInv
<1>2. /\ heard' = [i \in 1 .. (Window + Expire) |-> IF i = 1 THEN starts ELSE heard[i - 1]]
      /\ expires' = IF found THEN Expire - 1 ELSE IF expires > 0 THEN expires - 1 ELSE 0
      /\ tsfound' = (expires' > 0 /\ (found \/ tsfound))
    BY DEF HandlerSearches, LightInv, Expires
<1>3. /\ heard' \in [1 .. (Window + Expire) -> BOOLEAN]
      /\ \A i \in 2 .. (Window + Expire) : heard'[i] <=> heard[i - 1]
      /\ found \in BOOLEAN
    BY <1>1, <1>2 DEF LightInv
<1>4. expires' \in 0 .. Expire - 1
    BY <1>1, <1>2, <1>3 DEF LightInv
<1>5. tsfound' \in BOOLEAN /\ (tsfound' <=> expires' > 0)
    BY <1>1, <1>2, <1>3 DEF LightInv
<1>6. expires' > 0 => heard'[Window + Expire - 1 - expires']
    <2>1. CASE found
        BY <1>1, <1>2, <2>1
    <2>2. CASE ~found /\ expires' > 0
        <3>1. expires' = expires - 1 /\ expires > 1
            BY <1>1, <1>2, <2>2
        <3>2. Window + Expire - 1 - expires' \in 2 .. (Window + Expire)
            BY <1>1, <1>4, <3>1 DEF LightInv
        <3> DEFINE at == Window + Expire - 1 - expires'
        <3>3. heard'[at] <=> heard[at - 1]
            <4> HIDE DEF at, found
            <4> QED BY <1>3, <3>2 DEF at
        <3>4. at - 1 = Window + Expire - 1 - expires
            BY <1>1, <3>1
        <3> QED
            BY <3>1, <3>3, <3>4 DEF LightInv
    <2> QED
        BY <2>1, <2>2, <1>3
<1>7. ASSUME NEW i \in Window .. (Window + Expire - 2), heard'[i]
      PROVE  expires' >= Window + Expire - 1 - i
    <2>1. CASE found
        BY <1>1, <1>2, <2>1
    <2>2. CASE ~found
        <3>1. i \in Window + 1 .. (Window + Expire - 2)
            BY <1>1, <1>7, <2>2
        <3>2. heard[i - 1] /\ i - 1 \in Window .. (Window + Expire - 2)
            BY <1>1, <1>3, <1>7, <3>1
        <3>3. expires >= Window + Expire - 1 - (i - 1)
            BY <3>2 DEF LightInv
        <3> QED
            BY <1>1, <1>2, <2>2, <3>1, <3>3
    <2> QED
        BY <2>1, <2>2
<1> QED
    BY <1>3, <1>4, <1>5, <1>6, <1>7 DEF LightInv

LEMMA LightStep == LightInv /\ [Next]_vars => LightInv'
<1> SUFFICES ASSUME LightInv, [Next]_vars PROVE LightInv'
    OBVIOUS
<1>1. CASE UNCHANGED search
    BY <1>1 DEF search, LightInv
<1>2. CASE StopBlock
    <2>1. /\ DOMAIN heard' = 1 .. (Window + Expire) /\ heard' \in [1 .. (Window + Expire) -> BOOLEAN]
          /\ \A i \in 1 .. (Window + Expire) : i >= Window => (heard'[i] <=> heard[i])
          /\ UNCHANGED <<tsfound, expires>>
        BY <1>2, LifecycleAssumption DEF StopBlock, Cut, LightInv, LifecycleAssumption
    <2>2. \A i \in Window .. (Window + Expire - 2) : i \in 1 .. (Window + Expire) /\ i >= Window
        BY LifecycleAssumption DEF LifecycleAssumption
    <2>3. expires > 0 => Window + Expire - 1 - expires \in Window .. (Window + Expire - 2)
        BY LifecycleAssumption DEF LightInv, LifecycleAssumption
    <2>4. expires' > 0 => heard'[Window + Expire - 1 - expires']
        BY <2>1, <2>2, <2>3 DEF LightInv
    <2>5. \A i \in Window .. (Window + Expire - 2) : heard'[i] => expires' >= Window + Expire - 1 - i
        BY <2>1, <2>2 DEF LightInv
    <2>6. expires' \in 0 .. Expire - 1 /\ tsfound' \in BOOLEAN /\ (tsfound' <=> expires' > 0)
        BY <2>1 DEF LightInv
    <2>7. heard' \in [1 .. (Window + Expire) -> BOOLEAN]
        BY <2>1
    <2> QED
        BY <2>4, <2>5, <2>6, <2>7 DEF LightInv
<1>3. CASE Create
    <2>1. /\ heard' \in [1 .. (Window + Expire) -> BOOLEAN]
          /\ \A i \in 1 .. (Window + Expire) : i >= Window => ~heard'[i]
          /\ tsfound' = FALSE /\ expires' = 0
        BY <1>3 DEF Create, FreshBuffer
    <2>2. \A i \in Window .. (Window + Expire - 2) : i \in 1 .. (Window + Expire) /\ i >= Window
        BY LifecycleAssumption DEF LifecycleAssumption
    <2>3. ~(expires' > 0) /\ 0 \in 0 .. Expire - 1
        BY <2>1, LifecycleAssumption DEF LifecycleAssumption
    <2>4. \A i \in Window .. (Window + Expire - 2) : ~heard'[i]
        BY <2>1, <2>2
    <2> QED
        BY <2>1, <2>3, <2>4 DEF LightInv
<1>4. CASE \E starts, last \in BOOLEAN : HandlerSearches(starts, last)
    BY <1>4, LightSearch
<1>5. CASE StartBlock \/ SaveConfig \/ SetEnabled \/ CloseSocket \/ OpenSocket \/ DestroySocket
    BY <1>5, <1>1 DEF StartBlock, SaveConfig, SetEnabled, CloseSocket, OpenSocket, DestroySocket
<1>6. CASE User
    BY <1>6, <1>1 DEF User, Enable, Disable, ClickNetStop, ClickNetStart, SampleRateChange, Delete, ClickMode
<1>7. CASE HandlerTests \/ HandlerAsks \/ HandlerLoads \/ HandlerSends \/ Crash \/ UNCHANGED vars
    BY <1>7, <1>1 DEF HandlerTests, HandlerAsks, HandlerLoads, HandlerSends, Crash, vars
<1> QED
    BY <1>2, <1>3, <1>4, <1>5, <1>6, <1>7 DEF Next, UserInterface, Handler

\* The light is on exactly if a training sequence was recognised in the last Expire - 1
\* bits, however often the sink was stopped meanwhile (_demodSinkHandler).
THEOREM LightIsRight == Spec => []LightIsRecent
<1>1. LightInv => LightIsRecent
    <2> SUFFICES ASSUME LightInv PROVE LightIsRecent
        OBVIOUS
    <2>1. Window \in Nat \ {0} /\ Expire \in Nat \ {0, 1}
        BY LifecycleAssumption DEF LifecycleAssumption
    <2>2. ASSUME expires > 0
          PROVE  \E i \in Window .. (Window + Expire - 2) : heard[i]
        <3>1. Window + Expire - 1 - expires \in Window .. (Window + Expire - 2)
            BY <2>1, <2>2 DEF LightInv
        <3> QED
            BY <2>2, <3>1 DEF LightInv
    <2>3. ASSUME NEW i \in Window .. (Window + Expire - 2), heard[i]
          PROVE  expires > 0
        BY <2>1, <2>3 DEF LightInv
    <2> QED
        BY <2>2, <2>3 DEF LightInv, LightIsRecent
<1> QED
    BY LightInit, LightStep, <1>1, PTL DEF Spec

-----------------------------------------------------------------------------
(* The lists of steps of the user interface. *)

Fields == {"mode", "sending", "idle"}
Others == {"enable", "disable", "close", "open", "destroy", "create"}
Steps == {Start(b) : b \in Blocks} \cup {Stop(b) : b \in Blocks}
            \cup {Save(f) : f \in Fields} \cup {Do(o) : o \in Others}

LEMMA TailAt ==
    ASSUME NEW s \in Seq(Steps), s # <<>>
    PROVE  /\ Tail(s) \in Seq(Steps) /\ Len(s) \in Nat \ {0} /\ Len(Tail(s)) = Len(s) - 1
           /\ Head(s) = s[1] /\ s[1] \in Steps
           /\ \A i \in 1 .. Len(Tail(s)) : i + 1 \in 1 .. Len(s) /\ Tail(s)[i] = s[i + 1]
OBVIOUS

\* The sequences the steps are taken from.
LEMMA Lists ==
    /\ \A m \in {0, 1} : SetMode(m) \in Seq(Steps) /\ StartAll(m) \in Seq(Steps)
    /\ StopAll \in Seq(Steps) /\ StartNetwork \in Seq(Steps) /\ NetStop \in Seq(Steps)
    /\ \A op \in Others : <<Do(op)>> \in Seq(Steps)
    /\ \A field \in Fields : <<Save(field)>> \in Seq(Steps)
    /\ <<Stop("resamp"), Start("resamp")>> \in Seq(Steps)
<1>1. /\ \A b \in Blocks : Start(b) \in Steps /\ Stop(b) \in Steps
      /\ \A f \in Fields : Save(f) \in Steps
      /\ \A o \in Others : Do(o) \in Steps
    BY DEF Steps
<1>2. /\ Start("front") \in Steps /\ Start("decoder") \in Steps /\ Start("sink") \in Steps
      /\ Start("resamp") \in Steps /\ Start("back") \in Steps
      /\ Stop("front") \in Steps /\ Stop("decoder") \in Steps /\ Stop("sink") \in Steps
      /\ Stop("resamp") \in Steps /\ Stop("back") \in Steps
      /\ Save("mode") \in Steps /\ Save("sending") \in Steps /\ Save("idle") \in Steps
      /\ Do("close") \in Steps /\ Do("open") \in Steps /\ Do("destroy") \in Steps
    BY <1>1 DEF Blocks, Fields, Others
<1>3. \A m \in {0, 1} : SetMode(m) \in Seq(Steps)
    BY <1>2 DEF SetMode
<1>4. \A m \in {0, 1} : StartAll(m) \in Seq(Steps)
    BY <1>2, <1>3 DEF StartAll
<1>5. StopAll \in Seq(Steps)
    BY <1>2 DEF StopAll
<1>6. StartNetwork \in Seq(Steps) /\ NetStop \in Seq(Steps)
    BY <1>2 DEF StartNetwork, NetStop
<1>7. <<Stop("resamp"), Start("resamp")>> \in Seq(Steps)
    BY <1>2
<1>8. \A op \in Others : <<Do(op)>> \in Seq(Steps)
    BY <1>1
<1>9. \A field \in Fields : <<Save(field)>> \in Seq(Steps)
    BY <1>1
<1> QED
    BY <1>3, <1>4, <1>5, <1>6, <1>7, <1>8, <1>9

\* What is still to be done never starts a reader beside the other: it starts one of them
\* only, after it has stopped the other one if that runs.
Orderly(s, r) ==
    /\ \A i, j \in 1 .. Len(s) : ~(s[i] = Start("sink") /\ s[j] = Start("decoder"))
    /\ \A i \in 1 .. Len(s) : s[i] = Start("sink") /\ "decoder" \in r =>
            \E j \in 1 .. i - 1 : s[j] = Stop("decoder")
    /\ \A i \in 1 .. Len(s) : s[i] = Start("decoder") /\ "sink" \in r =>
            \E j \in 1 .. i - 1 : s[j] = Stop("sink")

StartsNone(s) == \A i \in 1 .. Len(s) : s[i] # Start("sink") /\ s[i] # Start("decoder")

LEMMA NoneIsOrderly == ASSUME NEW s, NEW r, StartsNone(s) PROVE Orderly(s, r)
BY DEF StartsNone, Orderly

LEMMA StepFields ==
    /\ \A x : Start(x).op = "start" /\ Start(x).arg = x /\ Stop(x).op = "stop" /\ Stop(x).arg = x
    /\ \A x : Save(x).op = "save" /\ Save(x).arg = x /\ Do(x).op = x
BY DEF Start, Stop, Save, Do

\* Steps with different names differ.
LEMMA StepNames ==
    /\ \A b, c : Start(b) # Stop(c) /\ (Start(b) = Start(c) => b = c) /\ (Stop(b) = Stop(c) => b = c)
    /\ \A b, f : Start(b) # Save(f) /\ Stop(b) # Save(f) /\ (Save(b) = Save(f) => b = f)
    /\ \A b, f : f \in Others => Start(b) # Do(f) /\ Stop(b) # Do(f) /\ Save(b) # Do(f)
    /\ \A f, g : Do(f) = Do(g) => f = g
<1>1. ASSUME NEW b, NEW c
      PROVE  Start(b) # Stop(c) /\ (Start(b) = Start(c) => b = c) /\ (Stop(b) = Stop(c) => b = c)
    <2>1. Start(b) # Stop(c)
        BY StepFields, "start" # "stop"
    <2>2. Start(b) = Start(c) => b = c
        <3>1. Start(b).arg = b /\ Start(c).arg = c
            BY StepFields
        <3> QED
            BY <3>1
    <2>3. Stop(b) = Stop(c) => b = c
        <3>1. Stop(b).arg = b /\ Stop(c).arg = c
            BY StepFields
        <3> QED
            BY <3>1
    <2> QED
        BY <2>1, <2>2, <2>3
<1>2. ASSUME NEW b, NEW f
      PROVE  Start(b) # Save(f) /\ Stop(b) # Save(f) /\ (Save(b) = Save(f) => b = f)
    <2>1. Start(b) # Save(f) /\ Stop(b) # Save(f)
        BY StepFields, "start" # "save", "stop" # "save"
    <2>2. Save(b) = Save(f) => b = f
        <3>1. Save(b).arg = b /\ Save(f).arg = f
            BY StepFields
        <3> QED
            BY <3>1
    <2> QED
        BY <2>1, <2>2
<1>3. ASSUME NEW b, NEW f, f \in Others
      PROVE  Start(b) # Do(f) /\ Stop(b) # Do(f) /\ Save(b) # Do(f)
    <2>1. f # "start" /\ f # "stop" /\ f # "save"
        BY <1>3 DEF Others
    <2> QED
        BY <2>1, StepFields
<1>4. ASSUME NEW f, NEW g, Do(f) = Do(g)
      PROVE  f = g
    <2>1. Do(f).op = f /\ Do(g).op = g
        BY StepFields
    <2> QED
        BY <1>4, <2>1
<1> QED
    BY <1>1, <1>2, <1>3, <1>4

\* A step is what its operation says.
LEMMA StepKinds ==
    ASSUME NEW s \in Steps
    PROVE  /\ s.op = "start" => s.arg \in Blocks /\ s = Start(s.arg)
           /\ s.op = "stop" => s.arg \in Blocks /\ s = Stop(s.arg)
           /\ s.op = "save" => s.arg \in Fields /\ s = Save(s.arg)
           /\ s.op \in Others => s = Do(s.op)
<1>1. "start" # "stop" /\ "start" # "save" /\ "stop" # "save"
    OBVIOUS
<1>2. "start" \notin Others /\ "stop" \notin Others /\ "save" \notin Others
    BY DEF Others
<1>3. CASE \E b \in Blocks : s = Start(b)
    BY <1>1, <1>2, <1>3, StepFields
<1>4. CASE \E b \in Blocks : s = Stop(b)
    BY <1>1, <1>2, <1>4, StepFields
<1>5. CASE \E f \in Fields : s = Save(f)
    BY <1>1, <1>2, <1>5, StepFields
<1>6. CASE \E o \in Others : s = Do(o)
    BY <1>1, <1>2, <1>6, StepFields
<1> QED
    BY <1>3, <1>4, <1>5, <1>6 DEF Steps

LEMMA SetModeAt ==
    /\ Len(SetMode(0)) = 3 /\ SetMode(0)[1] = Stop("sink") /\ SetMode(0)[2] = Start("decoder")
    /\ SetMode(0)[3] = Save("mode")
    /\ Len(SetMode(1)) = 3 /\ SetMode(1)[1] = Stop("decoder") /\ SetMode(1)[2] = Start("sink")
    /\ SetMode(1)[3] = Save("mode")
BY DEF SetMode

LEMMA SetModeIsOrderly == ASSUME NEW m \in {0, 1}, NEW r PROVE Orderly(SetMode(m), r)
<1>1. CASE m = 0
    BY <1>1, SetModeAt, StepNames DEF Orderly
<1>2. CASE m = 1
    BY <1>2, SetModeAt, StepNames DEF Orderly
<1> QED
    BY <1>1, <1>2

LEMMA ThreeParts ==
    ASSUME NEW a, NEW b, NEW c, NEW d, NEW e, NEW f, NEW s, s = <<a>> \o <<b, c, d>> \o <<e, f>>
    PROVE  Len(s) = 6 /\ s[1] = a /\ s[2] = b /\ s[3] = c /\ s[4] = d /\ s[5] = e /\ s[6] = f
OBVIOUS

LEMMA StartAllAt ==
    ASSUME NEW m \in {0, 1}
    PROVE  /\ Len(StartAll(m)) = 6 /\ StartAll(m)[1] = Start("front")
           /\ StartAll(m)[2] = SetMode(m)[1] /\ StartAll(m)[3] = SetMode(m)[2] /\ StartAll(m)[4] = SetMode(m)[3]
           /\ StartAll(m)[5] = Start("resamp") /\ StartAll(m)[6] = Start("back")
<1>1. PICK b, c, d : /\ SetMode(m) = <<b, c, d>>
                     /\ SetMode(m)[1] = b /\ SetMode(m)[2] = c /\ SetMode(m)[3] = d
    <2>1. CASE m = 0
        BY <2>1, SetModeAt DEF SetMode
    <2>2. CASE m = 1
        BY <2>2, SetModeAt DEF SetMode
    <2> QED
        BY <2>1, <2>2
<1>2. StartAll(m) = <<Start("front")>> \o <<b, c, d>> \o <<Start("resamp"), Start("back")>>
    BY <1>1, Zenon DEF StartAll
<1>3. /\ Len(StartAll(m)) = 6 /\ StartAll(m)[1] = Start("front")
      /\ StartAll(m)[2] = b /\ StartAll(m)[3] = c /\ StartAll(m)[4] = d
      /\ StartAll(m)[5] = Start("resamp") /\ StartAll(m)[6] = Start("back")
    BY <1>2, ThreeParts
<1> QED
    BY <1>1, <1>3

LEMMA ConcatAt ==
    \A x, t \in Seq(Steps) : \A s : s = x \o t =>
        /\ Len(s) = Len(x) + Len(t)
        /\ \A i \in 1 .. Len(x) : s[i] = x[i]
        /\ \A i \in 1 .. Len(s) : i > Len(x) => i - Len(x) \in 1 .. Len(t) /\ s[i] = t[i - Len(x)]
OBVIOUS

LEMMA StartAllIsOrderly ==
    ASSUME NEW m \in {0, 1}, NEW r, NEW t \in Seq(Steps), StartsNone(t)
    PROVE  Orderly(StartAll(m) \o t, r)
<1> DEFINE s == StartAll(m) \o t
<1>1. StartAll(m) \in Seq(Steps) /\ Len(StartAll(m)) = 6 /\ Len(t) \in Nat
    <2>1. Len(t) \in Nat
        BY LenProperties
    <2> QED
        BY <2>1, Lists, StartAllAt
<1>2. s = StartAll(m) \o t
    OBVIOUS
<1> HIDE DEF s
<1>3. /\ Len(s) = 6 + Len(t)
      /\ \A i \in 1 .. 6 : s[i] = StartAll(m)[i]
      /\ \A i \in 1 .. Len(s) : i > 6 => i - 6 \in 1 .. Len(t) /\ s[i] = t[i - 6]
    <2> DEFINE x == StartAll(m)
    <2>1. x \in Seq(Steps) /\ Len(x) = 6 /\ s = x \o t
        BY <1>1, <1>2
    <2> HIDE DEF x
    <2>2. /\ Len(s) = Len(x) + Len(t)
          /\ \A i \in 1 .. Len(x) : s[i] = x[i]
          /\ \A i \in 1 .. Len(s) : i > Len(x) => i - Len(x) \in 1 .. Len(t) /\ s[i] = t[i - Len(x)]
        <3>1. t \in Seq(Steps)
            OBVIOUS
        <3>2. \A z : z = x \o t =>
                /\ Len(z) = Len(x) + Len(t)
                /\ \A i \in 1 .. Len(x) : z[i] = x[i]
                /\ \A i \in 1 .. Len(z) : i > Len(x) => i - Len(x) \in 1 .. Len(t) /\ z[i] = t[i - Len(x)]
            BY <2>1, <3>1, ConcatAt, Zenon
        <3> QED
            BY <2>1, <3>2, Zenon
    <2>3. /\ Len(s) = 6 + Len(t)
          /\ \A i \in 1 .. 6 : s[i] = x[i]
          /\ \A i \in 1 .. Len(s) : i > 6 => i - 6 \in 1 .. Len(t) /\ s[i] = t[i - 6]
        BY <2>1, <2>2
    <2> QED
        BY <2>3 DEF x
<1>4. \A i \in 1 .. Len(s) : s[i] = Start("sink") \/ s[i] = Start("decoder") => i = 3
    <2> SUFFICES ASSUME NEW i \in 1 .. Len(s), i # 3
                 PROVE  s[i] # Start("sink") /\ s[i] # Start("decoder")
        OBVIOUS
    <2>1. CASE i > 6
        BY <2>1, <1>3 DEF StartsNone
    <2>2. CASE i \in {1, 5, 6}
        <3>1. s[i] = Start("front") \/ s[i] = Start("resamp") \/ s[i] = Start("back")
            BY <2>2, StartAllAt, <1>3
        <3> QED
            BY <3>1, StepNames
    <2>3. CASE i \in {2, 4}
        <3>1. s[i] = Stop("sink") \/ s[i] = Stop("decoder") \/ s[i] = Save("mode")
            BY <2>3, StartAllAt, <1>3, SetModeAt
        <3> QED
            BY <3>1, StepNames
    <2> QED
        BY <2>1, <2>2, <2>3, <1>1, <1>3
<1>5. s[3] = Start("sink") => s[2] = Stop("decoder")
    BY StartAllAt, <1>3, SetModeAt, StepNames
<1>6. s[3] = Start("decoder") => s[2] = Stop("sink")
    BY StartAllAt, <1>3, SetModeAt, StepNames
<1>7. Start("sink") # Start("decoder")
    BY StepNames
<1>8. Orderly(s, r)
    BY <1>4, <1>5, <1>6, <1>7, 2 \in 1 .. (3 - 1) DEF Orderly
<1> QED
    BY <1>8 DEF s

\* Taking the first step off the list keeps the rest orderly: q are the blocks that run
\* after it.
LEMMA TailIsOrderly ==
    ASSUME NEW s \in Seq(Steps), s # <<>>, NEW r, NEW q, Orderly(s, r),
           "decoder" \in q => s[1] = Start("decoder") \/ ("decoder" \in r /\ s[1] # Stop("decoder")),
           "sink" \in q => s[1] = Start("sink") \/ ("sink" \in r /\ s[1] # Stop("sink"))
    PROVE  Orderly(Tail(s), q)
<1>1. /\ Len(s) \in Nat \ {0} /\ Len(Tail(s)) = Len(s) - 1
      /\ \A i \in 1 .. Len(Tail(s)) : i + 1 \in 1 .. Len(s) /\ Tail(s)[i] = s[i + 1]
    BY TailAt
<1>2. ASSUME NEW i \in 1 .. Len(Tail(s)), NEW c, s[1] # Stop(c),
             \E j \in 1 .. (i + 1) - 1 : s[j] = Stop(c)
      PROVE  \E j \in 1 .. i - 1 : Tail(s)[j] = Stop(c)
    <2>1. PICK j \in 1 .. i : s[j] = Stop(c)
        BY <1>2
    <2>2. j # 1
        BY <1>2, <2>1
    <2>3. j - 1 \in 1 .. i - 1 /\ j - 1 \in 1 .. Len(Tail(s)) /\ Tail(s)[j - 1] = s[(j - 1) + 1]
        BY <1>1, <2>1, <2>2
    <2>4. Tail(s)[j - 1] = Stop(c)
        BY <2>1, <2>3
    <2> QED
        BY <2>3, <2>4
<1>3. \A i, j \in 1 .. Len(Tail(s)) : ~(Tail(s)[i] = Start("sink") /\ Tail(s)[j] = Start("decoder"))
    BY <1>1 DEF Orderly
<1>4. ASSUME NEW i \in 1 .. Len(Tail(s)), Tail(s)[i] = Start("sink"), "decoder" \in q
      PROVE  \E j \in 1 .. i - 1 : Tail(s)[j] = Stop("decoder")
    <2>1. s[1] # Start("decoder")
        BY <1>1, <1>4 DEF Orderly
    <2> QED
        BY <1>1, <1>2, <1>4, <2>1 DEF Orderly
<1>5. ASSUME NEW i \in 1 .. Len(Tail(s)), Tail(s)[i] = Start("decoder"), "sink" \in q
      PROVE  \E j \in 1 .. i - 1 : Tail(s)[j] = Stop("sink")
    <2>1. s[1] # Start("sink")
        BY <1>1, <1>5 DEF Orderly
    <2> QED
        BY <1>1, <1>2, <1>5, <2>1 DEF Orderly
<1> QED
    BY <1>3, <1>4, <1>5 DEF Orderly

-----------------------------------------------------------------------------
(* The two readers of the bits. *)

ReaderInv ==
    /\ todo \in Seq(Steps)
    /\ mode \in {0, 1} /\ config \in [mode : {0, 1}, sending : BOOLEAN]
    /\ OneReader
    /\ Orderly(todo, running)

LEMMA EmptyIsNone == StartsNone(<<>>)
BY DEF StartsNone

LEMMA StartAllEmpty == ASSUME NEW m \in {0, 1} PROVE StartAll(m) \o <<>> = StartAll(m)
BY Lists, ConcatEmptySeq

LEMMA ReaderInit == Init => ReaderInv
<1> SUFFICES ASSUME Init PROVE ReaderInv
    OBVIOUS
<1>1. todo = StartAll(0) \o <<>> /\ running = {} /\ mode = 0 /\ config = [mode |-> 0, sending |-> FALSE]
    BY StartAllEmpty DEF Init
<1>2. Orderly(todo, running)
    <2>1. Orderly(StartAll(0) \o <<>>, {})
        BY StartAllIsOrderly, EmptyIsNone, <<>> \in Seq(Steps)
    <2> QED
        BY <1>1, <2>1
<1>3. todo \in Seq(Steps)
    BY <1>1, StartAllEmpty, Lists
<1>4. OneReader
    BY <1>1 DEF OneReader
<1> QED
    BY <1>1, <1>2, <1>3, <1>4 DEF ReaderInv

\* Lists without the start of a reader.
LEMMA NoneLists ==
    /\ StartsNone(StopAll \o <<Do("disable")>>) /\ StopAll \o <<Do("disable")>> \in Seq(Steps)
    /\ StartsNone(StopAll \o <<Do("create")>>) /\ StopAll \o <<Do("create")>> \in Seq(Steps)
    /\ StartsNone(<<>> \o <<Do("create")>>) /\ <<>> \o <<Do("create")>> \in Seq(Steps)
    /\ StartsNone(<<Do("enable")>>) /\ <<Do("enable")>> \in Seq(Steps)
    /\ StartsNone(StartNetwork) /\ StartsNone(NetStop)
    /\ StartsNone(StartNetwork \o <<Save("sending")>>) /\ StartNetwork \o <<Save("sending")>> \in Seq(Steps)
    /\ StartsNone(<<Stop("resamp"), Start("resamp")>>)
<1>1. /\ \A o \in Others : \A b : Do(o) # Start(b)
      /\ \A c, b : Stop(c) # Start(b) /\ Save(c) # Start(b)
      /\ Start("resamp") # Start("sink") /\ Start("resamp") # Start("decoder")
    BY StepNames
<1>2. ASSUME NEW o \in Others
      PROVE  StartsNone(StopAll \o <<Do(o)>>) /\ StopAll \o <<Do(o)>> \in Seq(Steps)
    <2>1. /\ Len(StopAll \o <<Do(o)>>) = 6
          /\ (StopAll \o <<Do(o)>>)[1] = Stop("front") /\ (StopAll \o <<Do(o)>>)[2] = Stop("decoder")
          /\ (StopAll \o <<Do(o)>>)[3] = Stop("sink") /\ (StopAll \o <<Do(o)>>)[4] = Stop("resamp")
          /\ (StopAll \o <<Do(o)>>)[5] = Stop("back") /\ (StopAll \o <<Do(o)>>)[6] = Do(o)
        BY DEF StopAll
    <2>2. StopAll \o <<Do(o)>> \in Seq(Steps)
        BY Lists, ConcatProperties
    <2>3. StartsNone(StopAll \o <<Do(o)>>)
        <3> DEFINE s == StopAll \o <<Do(o)>>
        <3>1. Len(s) = 6 /\ s[1] = Stop("front") /\ s[2] = Stop("decoder") /\ s[3] = Stop("sink")
              /\ s[4] = Stop("resamp") /\ s[5] = Stop("back") /\ s[6] = Do(o)
            BY <2>1
        <3> HIDE DEF s
        <3>2. \A i \in 1 .. Len(s) : s[i] = Do(o) \/ \E c : s[i] = Stop(c)
            BY <3>1
        <3>3. StartsNone(s)
            BY <3>2, <1>1 DEF StartsNone
        <3> QED
            BY <3>3 DEF s
    <2> QED
        BY <2>2, <2>3
<1>3. ASSUME NEW o \in Others
      PROVE  StartsNone(<<Do(o)>>) /\ <<Do(o)>> \in Seq(Steps) /\ <<>> \o <<Do(o)>> = <<Do(o)>>
    <2>1. StartsNone(<<Do(o)>>)
        BY <1>1 DEF StartsNone
    <2>2. <<Do(o)>> \in Seq(Steps)
        BY Lists
    <2> QED
        BY <2>1, <2>2, ConcatEmptySeq
<1>4. StartsNone(StartNetwork) /\ StartsNone(NetStop) /\ StartsNone(<<Stop("resamp"), Start("resamp")>>)
    BY <1>1 DEF StartsNone, StartNetwork, NetStop, Others
<1>5. StartsNone(StartNetwork \o <<Save("sending")>>) /\ StartNetwork \o <<Save("sending")>> \in Seq(Steps)
    <2> DEFINE s == StartNetwork \o <<Save("sending")>>
    <2>1. /\ Len(s) = 4 /\ s[1] = Do("close") /\ s[2] = Do("open") /\ s[3] = Do("destroy")
          /\ s[4] = Save("sending")
        BY DEF StartNetwork
    <2>2. s \in Seq(Steps)
        BY Lists, ConcatProperties DEF Fields
    <2> HIDE DEF s
    <2>3. StartsNone(s)
        BY <1>1, <2>1 DEF StartsNone, Others
    <2> QED
        BY <2>2, <2>3 DEF s
<1> QED
    BY <1>2, <1>3, <1>4, <1>5 DEF Others

\* What the next start of the program has to do after a crash.
LEMMA CreateIsNone == <<Do("create")>> \in Seq(Steps) /\ StartsNone(<<Do("create")>>)
<1>1. Do("create") # Start("sink") /\ Do("create") # Start("decoder")
    BY StepNames DEF Others
<1> QED
    BY <1>1, Lists DEF StartsNone, Others

\* What the thread of demodSink leaves alone.
LEMMA HandlerLeaves ==
    ASSUME Handler, ~Crash
    PROVE  /\ UNCHANGED <<chain, todo, config, conn, opened>>
           /\ handler' # "wait" => handler # "wait" \/ "sink" \in running
BY DEF Handler, HandlerTests, HandlerAsks, HandlerLoads, HandlerSends, HandlerSearches, net

\* The steps that are not of a list that was made before.
LEMMA ReaderUser ==
    ASSUME ReaderInv, User
    PROVE  ReaderInv'
<1>1. UNCHANGED <<running, config>> /\ mode' \in {0, 1}
    BY DEF ReaderInv, User, Enable, Disable, ClickNetStop, ClickNetStart, SampleRateChange, Delete, ClickMode, chain
<1>2. todo' \in Seq(Steps) /\ Orderly(todo', running)
    <2>1. CASE Enable
        <3>1. todo' = StartAll(mode) \o <<Do("enable")>> /\ mode \in {0, 1}
            BY <2>1 DEF Enable, ReaderInv
        <3>2. StartAll(mode) \o <<Do("enable")>> \in Seq(Steps)
            BY <3>1, Lists, ConcatProperties DEF Others
        <3>3. Orderly(StartAll(mode) \o <<Do("enable")>>, running)
            BY <3>1, NoneLists, StartAllIsOrderly
        <3> QED
            BY <3>1, <3>2, <3>3
    <2>2. CASE Disable
        BY <2>2, NoneLists, NoneIsOrderly DEF Disable
    <2>3. CASE ClickNetStop
        BY <2>3, NoneLists, NoneIsOrderly, Lists DEF ClickNetStop
    <2>4. CASE ClickNetStart
        BY <2>4, NoneLists, NoneIsOrderly DEF ClickNetStart
    <2>5. CASE SampleRateChange
        BY <2>5, NoneLists, NoneIsOrderly, Lists DEF SampleRateChange
    <2>6. CASE Delete
        <3>1. todo' = StopAll \o <<Do("create")>> \/ todo' = <<>> \o <<Do("create")>>
            BY <2>6 DEF Delete
        <3> QED
            BY <3>1, NoneLists, NoneIsOrderly
    <2>7. ASSUME NEW m \in {0, 1}, ClickMode(m)
          PROVE  todo' \in Seq(Steps) /\ Orderly(todo', running)
        BY <2>7, SetModeIsOrderly, Lists DEF ClickMode
    <2> QED
        BY <2>1, <2>2, <2>3, <2>4, <2>5, <2>6, <2>7 DEF User
<1> QED
    BY <1>1, <1>2 DEF ReaderInv, OneReader

LEMMA ReaderStep == ReaderInv /\ [Next]_vars => ReaderInv'
<1> SUFFICES ASSUME ReaderInv, [Next]_vars PROVE ReaderInv'
    OBVIOUS
<1>1. ASSUME todo # <<>>, todo' = Tail(todo)
      PROVE  /\ todo' \in Seq(Steps) /\ Head(todo) = todo[1] /\ todo[1] \in Steps /\ 1 \in 1 .. Len(todo)
    BY <1>1, TailAt DEF ReaderInv
<1>2. CASE StartBlock
    <2>1. /\ todo # <<>> /\ todo' = Tail(todo) /\ todo[1] = Start(Arg) /\ running' = running \cup {Arg}
          /\ UNCHANGED <<mode, config>> /\ todo' \in Seq(Steps) /\ 1 \in 1 .. Len(todo)
        BY <1>1, <1>2, StepKinds DEF StartBlock, Op, Arg
    <2>2. Orderly(todo', running')
        BY <2>1, TailIsOrderly, StepNames DEF ReaderInv
    <2>3. OneReader'
        BY <2>1 DEF ReaderInv, OneReader, Orderly
    <2> QED
        BY <2>1, <2>2, <2>3 DEF ReaderInv
<1>3. CASE StopBlock
    <2>1. /\ todo # <<>> /\ todo' = Tail(todo) /\ todo[1] = Stop(Arg) /\ running' = running \ {Arg}
          /\ UNCHANGED <<mode, config>> /\ todo' \in Seq(Steps)
        BY <1>1, <1>3, StepKinds DEF StopBlock, Op, Arg
    <2>2. Orderly(todo', running')
        BY <2>1, TailIsOrderly, StepNames DEF ReaderInv
    <2>3. OneReader'
        BY <2>1 DEF ReaderInv, OneReader
    <2> QED
        BY <2>1, <2>2, <2>3 DEF ReaderInv
<1>4. CASE SaveConfig \/ SetEnabled \/ CloseSocket \/ OpenSocket \/ DestroySocket
    <2>1. /\ todo # <<>> /\ todo' = Tail(todo) /\ UNCHANGED <<running, mode>>
          /\ Head(todo).op \in Others \cup {"save"}
        BY <1>4 DEF SaveConfig, SetEnabled, CloseSocket, OpenSocket, DestroySocket, Op, chain, Others
    <2>2. \A b : todo[1] # Stop(b)
        BY <1>1, <2>1, StepKinds, StepNames
    <2>3. Orderly(todo', running')
        BY <2>1, <2>2, TailIsOrderly DEF ReaderInv
    <2>4. config' \in [mode : {0, 1}, sending : BOOLEAN]
        BY <1>4 DEF SaveConfig, SetEnabled, CloseSocket, OpenSocket, DestroySocket, ReaderInv
    <2> QED
        BY <1>1, <2>1, <2>3, <2>4 DEF ReaderInv, OneReader
<1>5. CASE Create
    <2>1. /\ running' = {} /\ mode' = config.mode /\ config' = config /\ config.mode \in {0, 1}
          /\ \/ todo' = StartAll(config.mode) \o StartNetwork
             \/ todo' = StartAll(config.mode) \o <<>>
        BY <1>5 DEF Create, ReaderInv
    <2>2. /\ StartAll(config.mode) \o StartNetwork \in Seq(Steps)
          /\ StartAll(config.mode) \o <<>> \in Seq(Steps)
        BY <2>1, Lists, ConcatProperties, StartAllEmpty
    <2>3. /\ Orderly(StartAll(config.mode) \o StartNetwork, {})
          /\ Orderly(StartAll(config.mode) \o <<>>, {})
        BY <2>1, Lists, NoneLists, EmptyIsNone, StartAllIsOrderly, <<>> \in Seq(Steps)
    <2>4. OneReader'
        BY <2>1 DEF OneReader
    <2> QED
        BY <2>1, <2>2, <2>3, <2>4 DEF ReaderInv
<1>6. CASE User
    BY <1>6, ReaderUser
<1>7. CASE (Handler /\ ~Crash) \/ UNCHANGED vars
    <2>1. UNCHANGED <<running, mode, config, todo>>
        BY <1>7, HandlerLeaves DEF vars, chain
    <2> QED
        BY <2>1 DEF ReaderInv, OneReader, Orderly
<1>8. CASE Crash
    <2>1. /\ running' = {} /\ mode' = mode /\ todo' = <<Do("create")>>
          /\ config' \in [mode : {0, 1}, sending : BOOLEAN]
        BY <1>8 DEF Crash
    <2>2. todo' \in Seq(Steps) /\ Orderly(todo', running')
        BY <2>1, CreateIsNone, NoneIsOrderly
    <2> QED
        BY <2>1, <2>2 DEF ReaderInv, OneReader
<1> QED
    BY <1>2, <1>3, <1>4, <1>5, <1>6, <1>7, <1>8 DEF Next, UserInterface, Handler

\* The decoder and the sink never both read the unpacked bits, whatever the user does in
\* which order (setMode, enable, disable).
THEOREM ReaderIsOne == Spec => []OneReader
<1>1. ReaderInv => OneReader
    BY DEF ReaderInv
<1> QED
    BY ReaderInit, ReaderStep, <1>1, PTL DEF Spec

-----------------------------------------------------------------------------
(* The chain. A list of steps is read as what it is going to make of the blocks. *)

\* The step x is in the list s.
In(x, s) == \E i \in 1 .. Len(s) : s[i] = x

\* What the steps s leave of a chain in which r runs.
Started(s) == {b \in Blocks : In(Start(b), s)}
Stopped(s) == {b \in Blocks : In(Stop(b), s)}
After(s, r) == Started(s) \cup (r \ Stopped(s))

\* A block is started after it was stopped, so that it runs in the end.
StopsFirst(s) ==
    \A i, j \in 1 .. Len(s) : \A b \in Blocks : s[i] = Stop(b) /\ s[j] = Start(b) => i < j

EnabledAfter(s) == In(Do("enable"), s) \/ (enabled /\ ~In(Do("disable"), s))

Reader(m) == IF m = 0 THEN "decoder" ELSE "sink"
Other(m) == IF m = 0 THEN "sink" ELSE "decoder"

LEMMA ConcatIn ==
    ASSUME NEW s \in Seq(Steps), NEW t \in Seq(Steps), NEW x
    PROVE  In(x, s \o t) <=> In(x, s) \/ In(x, t)
<1>1. PICK m \in Nat, n \in Nat : m = Len(s) /\ n = Len(t)
    BY LenProperties
<1>2. /\ Len(s \o t) = m + n
      /\ \A i \in 1 .. m + n : (s \o t)[i] = IF i <= m THEN s[i] ELSE t[i - m]
    <2>1. /\ Len(s \o t) = Len(s) + Len(t)
          /\ \A i \in 1 .. Len(s) + Len(t) : (s \o t)[i] = IF i <= Len(s) THEN s[i] ELSE t[i - Len(s)]
        BY ConcatProperties
    <2> QED
        BY <1>1, <2>1
<1>3. ASSUME NEW i \in 1 .. m + n, (s \o t)[i] = x
      PROVE  In(x, s) \/ In(x, t)
    <2>1. CASE i <= m
        BY <1>1, <1>2, <1>3, <2>1 DEF In
    <2>2. CASE i > m
        <3>1. i - m \in 1 .. n /\ t[i - m] = x
            BY <1>2, <1>3, <2>2
        <3> QED
            BY <1>1, <3>1 DEF In
    <2> QED
        BY <2>1, <2>2
<1>4. ASSUME NEW i \in 1 .. m, s[i] = x
      PROVE  In(x, s \o t)
    <2>1. i \in 1 .. m + n /\ (s \o t)[i] = x
        BY <1>2, <1>4
    <2> QED
        BY <1>2, <2>1 DEF In
<1>5. ASSUME NEW i \in 1 .. n, t[i] = x
      PROVE  In(x, s \o t)
    <2>1. PICK j \in 1 .. m + n : j = m + i
        OBVIOUS
    <2>2. (s \o t)[j] = x
        BY <1>2, <1>5, <2>1
    <2> QED
        BY <1>2, <2>2 DEF In
<1> QED
    BY <1>1, <1>2, <1>3, <1>4, <1>5 DEF In

LEMMA TailIn ==
    ASSUME NEW s \in Seq(Steps), s # <<>>
    PROVE  \A x : In(x, s) <=> x = s[1] \/ In(x, Tail(s))
<1>1. PICK n \in Nat \ {0} : n = Len(s) /\ Len(Tail(s)) = n - 1 /\ \A i \in 1 .. n - 1 : Tail(s)[i] = s[i + 1]
    BY TailAt
<1>2. ASSUME NEW x, NEW i \in 1 .. n, s[i] = x, i # 1
      PROVE  In(x, Tail(s))
    <2>1. PICK j \in 1 .. n - 1 : j = i - 1 /\ j + 1 = i
        BY <1>2
    <2> QED
        BY <1>1, <1>2, <2>1 DEF In
<1>3. ASSUME NEW x, NEW i \in 1 .. n - 1, Tail(s)[i] = x
      PROVE  In(x, s)
    <2>1. PICK j \in 1 .. n : j = i + 1
        OBVIOUS
    <2> QED
        BY <1>1, <1>3, <2>1 DEF In
<1>4. In(s[1], s)
    BY <1>1 DEF In
<1> QED
    BY <1>1, <1>2, <1>3, <1>4 DEF In

\* What is in each list.
LEMMA ListIn ==
    /\ \A x : ~In(x, <<>>)
    /\ \A x, y : In(x, <<y>>) <=> x = y
    /\ \A m \in {0, 1} : \A x : In(x, SetMode(m)) <=> x \in {Stop(Other(m)), Start(Reader(m)), Save("mode")}
    /\ \A m \in {0, 1} : \A x : In(x, StartAll(m)) <=>
          x \in {Start("front"), Stop(Other(m)), Start(Reader(m)), Save("mode"), Start("resamp"), Start("back")}
    /\ \A x : In(x, StopAll) <=> \E b \in Blocks : x = Stop(b)
    /\ \A x : In(x, StartNetwork) <=> x \in {Do("close"), Do("open"), Do("destroy")}
    /\ \A x : In(x, NetStop) <=> x \in {Do("close"), Save("idle")}
    /\ \A x : In(x, <<Stop("resamp"), Start("resamp")>>) <=> x \in {Stop("resamp"), Start("resamp")}
<1>1. \A x : ~In(x, <<>>)
    BY DEF In
<1>2. \A x, y : In(x, <<y>>) <=> x = y
    BY DEF In
<1>3. \A x, y, z : In(x, <<y, z>>) <=> x \in {y, z}
    BY DEF In
<1>4. ASSUME NEW a, NEW b, NEW c, NEW x  PROVE In(x, <<a, b, c>>) <=> x \in {a, b, c}
    BY DEF In
<1>5. ASSUME NEW m \in {0, 1}, NEW x
      PROVE  In(x, SetMode(m)) <=> x \in {Stop(Other(m)), Start(Reader(m)), Save("mode")}
    BY <1>4 DEF SetMode, Other, Reader
<1>6. ASSUME NEW m \in {0, 1}, NEW x
      PROVE  In(x, StartAll(m)) <=>
          x \in {Start("front"), Stop(Other(m)), Start(Reader(m)), Save("mode"), Start("resamp"), Start("back")}
    <2>1. /\ <<Start("front")>> \in Seq(Steps) /\ SetMode(m) \in Seq(Steps)
          /\ <<Start("resamp"), Start("back")>> \in Seq(Steps)
        <3>1. Start("front") \in Steps /\ Start("resamp") \in Steps /\ Start("back") \in Steps
            BY DEF Steps, Blocks
        <3> QED
            BY <3>1, Lists
    <2>2. <<Start("front")>> \o SetMode(m) \in Seq(Steps)
        BY <2>1, ConcatProperties
    <2>3. In(x, StartAll(m)) <=>
            In(x, <<Start("front")>>) \/ In(x, SetMode(m)) \/ In(x, <<Start("resamp"), Start("back")>>)
        BY <2>1, <2>2, ConcatIn, Zenon DEF StartAll
    <2> QED
        BY <2>3, <1>2, <1>3, <1>5
<1>7. \A x : In(x, StopAll) <=> \E b \in Blocks : x = Stop(b)
    <2>1. ASSUME NEW a, NEW b, NEW c, NEW d, NEW e, NEW x
          PROVE  In(x, <<a, b, c, d, e>>) <=> x = a \/ x = b \/ x = c \/ x = d \/ x = e
        BY DEF In
    <2> QED
        BY <2>1 DEF StopAll, Blocks
<1>8. \A x : In(x, StartNetwork) <=> x \in {Do("close"), Do("open"), Do("destroy")}
    BY <1>4 DEF StartNetwork
<1>9. \A x : In(x, NetStop) <=> x \in {Do("close"), Save("idle")}
    BY <1>3 DEF NetStop
<1> QED
    BY <1>1, <1>2, <1>3, <1>5, <1>6, <1>7, <1>8, <1>9
ChainInv ==
    /\ todo \in Seq(Steps) /\ enabled \in BOOLEAN /\ running \subseteq Blocks
    /\ mode \in {0, 1} /\ config \in [mode : {0, 1}, sending : BOOLEAN]
    /\ StopsFirst(todo)
    /\ ~(In(Do("enable"), todo) /\ In(Do("disable"), todo))
    /\ \/ In(Do("create"), todo)
       \/ IF EnabledAfter(todo) THEN After(todo, running) = Blocks \ {Other(mode)}
          ELSE After(todo, running) \subseteq {"resamp"}
    /\ handler # "wait" => "sink" \in running

LEMMA NoConflict ==
    ASSUME NEW s \in Seq(Steps), \A b \in Blocks : ~(In(Start(b), s) /\ In(Stop(b), s))
    PROVE  StopsFirst(s)
BY DEF StopsFirst, In

\* The lists of the calls: what each starts and stops, and that it has an end.
LEMMA StartAllPlan ==
    ASSUME NEW m \in {0, 1}, NEW t \in Seq(Steps),
           \A b \in Blocks : ~In(Start(b), t) /\ ~In(Stop(b), t)
    PROVE  /\ StartAll(m) \o t \in Seq(Steps)
           /\ StopsFirst(StartAll(m) \o t)
           /\ \A r \in SUBSET Blocks : After(StartAll(m) \o t, r) = Blocks \ {Other(m)}
           /\ \A x : In(x, t) => In(x, StartAll(m) \o t)
           /\ In(Save("mode"), StartAll(m) \o t)
           /\ \A f \in Others : In(Do(f), StartAll(m) \o t) => In(Do(f), t)
           /\ \A f \in {"sending", "idle"} : In(Save(f), StartAll(m) \o t) => In(Save(f), t)
<1>1. StartAll(m) \in Seq(Steps)
    BY Lists
<1>2. \A x : In(x, StartAll(m) \o t) <=> In(x, StartAll(m)) \/ In(x, t)
    BY <1>1, ConcatIn, Zenon
<1>3. \A x : In(x, StartAll(m)) <=>
          x \in {Start("front"), Stop(Other(m)), Start(Reader(m)), Save("mode"), Start("resamp"), Start("back")}
    BY ListIn, Zenon
<1>4. \A b \in Blocks : /\ In(Start(b), StartAll(m) \o t) <=> b \in {"front", Reader(m), "resamp", "back"}
                        /\ In(Stop(b), StartAll(m) \o t) <=> b = Other(m)
    <2> SUFFICES ASSUME NEW b \in Blocks
                 PROVE  /\ In(Start(b), StartAll(m)) <=> b \in {"front", Reader(m), "resamp", "back"}
                        /\ In(Stop(b), StartAll(m)) <=> b = Other(m)
        BY <1>2
    <2> QED
        BY <1>3, StepNames
<1>5. StartAll(m) \o t \in Seq(Steps)
    BY <1>1, ConcatProperties
<1>6. Other(m) \in Blocks /\ Reader(m) \in Blocks /\ Blocks \ {Other(m)} = {"front", Reader(m), "resamp", "back"}
    BY DEF Other, Reader, Blocks
<1>7. StopsFirst(StartAll(m) \o t)
    BY <1>4, <1>5, <1>6, NoConflict
<1>8. \A r \in SUBSET Blocks : After(StartAll(m) \o t, r) = Blocks \ {Other(m)}
    BY <1>4, <1>6 DEF After, Started, Stopped
<1>9. In(Save("mode"), StartAll(m) \o t)
    BY <1>2, <1>3
<1>10. \A f \in Others : ~In(Do(f), StartAll(m))
    <2>1. \A f \in Others : Do(f) # Save("mode") /\ \A b : Do(f) # Start(b) /\ Do(f) # Stop(b)
        BY StepNames
    <2> QED
        BY <1>3, <2>1
<1>11. \A f \in {"sending", "idle"} : ~In(Save(f), StartAll(m))
    <2>1. \A f \in {"sending", "idle"} : Save(f) # Save("mode") /\ \A b : Save(f) # Start(b) /\ Save(f) # Stop(b)
        BY StepNames
    <2> QED
        BY <1>3, <2>1
<1> QED
    BY <1>2, <1>5, <1>7, <1>8, <1>9, <1>10, <1>11

LEMMA StopAllPlan ==
    ASSUME NEW o \in Others
    PROVE  /\ StopAll \o <<Do(o)>> \in Seq(Steps)
           /\ StopsFirst(StopAll \o <<Do(o)>>)
           /\ \A r \in SUBSET Blocks : After(StopAll \o <<Do(o)>>, r) = {}
           /\ \A x : In(x, StopAll \o <<Do(o)>>) <=> x = Do(o) \/ \E b \in Blocks : x = Stop(b)
<1>1. StopAll \in Seq(Steps) /\ <<Do(o)>> \in Seq(Steps)
    BY Lists
<1>2. StopAll \o <<Do(o)>> \in Seq(Steps)
    BY <1>1, ConcatProperties
<1>3. \A x : In(x, StopAll \o <<Do(o)>>) <=> x = Do(o) \/ \E b \in Blocks : x = Stop(b)
    <2>1. \A x : In(x, StopAll \o <<Do(o)>>) <=> In(x, StopAll) \/ In(x, <<Do(o)>>)
        BY <1>1, ConcatIn, Zenon
    <2> QED
        BY <2>1, ListIn
<1>4. \A b \in Blocks : ~In(Start(b), StopAll \o <<Do(o)>>) /\ In(Stop(b), StopAll \o <<Do(o)>>)
    BY <1>3, StepNames
<1> QED
    BY <1>2, <1>3, <1>4, NoConflict DEF After, Started, Stopped

LEMMA SetModePlan ==
    ASSUME NEW m \in {0, 1}
    PROVE  /\ StopsFirst(SetMode(m))
           /\ \A r \in SUBSET Blocks : After(SetMode(m), r) = {Reader(m)} \cup (r \ {Other(m)})
<1>1. \A x : In(x, SetMode(m)) <=> x \in {Stop(Other(m)), Start(Reader(m)), Save("mode")}
    BY ListIn, Zenon
<1>2. \A b \in Blocks : /\ In(Start(b), SetMode(m)) <=> b = Reader(m)
                        /\ In(Stop(b), SetMode(m)) <=> b = Other(m)
    BY <1>1, StepNames
<1>3. Reader(m) # Other(m) /\ Reader(m) \in Blocks /\ Other(m) \in Blocks
    BY DEF Reader, Other, Blocks
<1> QED
    BY <1>2, <1>3, NoConflict, Lists DEF After, Started, Stopped

LEMMA ResamplerPlan ==
    LET s == <<Stop("resamp"), Start("resamp")>>
    IN  /\ StopsFirst(s)
        /\ \A r \in SUBSET Blocks : After(s, r) = r \cup {"resamp"}
<1> DEFINE s == <<Stop("resamp"), Start("resamp")>>
<1>1. Len(s) = 2 /\ s[1] = Stop("resamp") /\ s[2] = Start("resamp")
    OBVIOUS
<1>2. \A x : In(x, s) <=> x \in {Stop("resamp"), Start("resamp")}
    BY ListIn
<1> HIDE DEF s
<1>3. StopsFirst(s)
    BY <1>1, StepNames DEF StopsFirst
<1>4. \A b \in Blocks : (In(Start(b), s) <=> b = "resamp") /\ (In(Stop(b), s) <=> b = "resamp")
    BY <1>2, StepNames
<1>5. \A r \in SUBSET Blocks : After(s, r) = r \cup {"resamp"}
    BY <1>4 DEF After, Started, Stopped, Blocks
<1> QED
    BY <1>3, <1>5 DEF s

\* A list that neither starts nor stops a block.
LEMMA QuietPlan ==
    ASSUME NEW s \in Seq(Steps), \A b \in Blocks : ~In(Start(b), s) /\ ~In(Stop(b), s)
    PROVE  StopsFirst(s) /\ \A r \in SUBSET Blocks : After(s, r) = r
BY NoConflict DEF After, Started, Stopped

\* The first step does its part of what the list does.
LEMMA TailPlan ==
    ASSUME NEW s \in Seq(Steps), s # <<>>, StopsFirst(s), NEW r \in SUBSET Blocks
    PROVE  /\ Tail(s) \in Seq(Steps)
           /\ StopsFirst(Tail(s))
           /\ \A b \in Blocks : s[1] = Start(b) => After(Tail(s), r \cup {b}) = After(s, r)
           /\ \A b \in Blocks : s[1] = Stop(b) => After(Tail(s), r \ {b}) = After(s, r)
           /\ (\A b \in Blocks : s[1] # Start(b) /\ s[1] # Stop(b)) => After(Tail(s), r) = After(s, r)
<1>1. /\ Tail(s) \in Seq(Steps) /\ Len(s) \in Nat \ {0} /\ Len(Tail(s)) = Len(s) - 1
      /\ \A i \in 1 .. Len(Tail(s)) : i + 1 \in 1 .. Len(s) /\ Tail(s)[i] = s[i + 1]
    BY TailAt
<1>2. \A x : In(x, s) <=> x = s[1] \/ In(x, Tail(s))
    BY TailIn
<1>3. StopsFirst(Tail(s))
    <2> SUFFICES ASSUME NEW i \in 1 .. Len(Tail(s)), NEW j \in 1 .. Len(Tail(s)), NEW b \in Blocks,
                        Tail(s)[i] = Stop(b), Tail(s)[j] = Start(b)
                 PROVE  i < j
        BY DEF StopsFirst
    <2>1. i + 1 < j + 1
        BY <1>1 DEF StopsFirst
    <2> QED
        BY <1>1, <2>1
<1>4. \A b \in Blocks : s[1] = Start(b) => ~In(Stop(b), Tail(s))
    <2> SUFFICES ASSUME NEW b \in Blocks, s[1] = Start(b), NEW i \in 1 .. Len(Tail(s)), Tail(s)[i] = Stop(b)
                 PROVE  FALSE
        BY DEF In
    <2>1. s[i + 1] = Stop(b) /\ i + 1 \in 1 .. Len(s) /\ 1 \in 1 .. Len(s)
        BY <1>1
    <2>2. i + 1 < 1
        BY <2>1 DEF StopsFirst
    <2> QED
        BY <1>1, <2>2
<1>5. ASSUME NEW b \in Blocks, s[1] = Start(b)
      PROVE  After(Tail(s), r \cup {b}) = After(s, r)
    <2>1. Started(s) = Started(Tail(s)) \cup {b}
        BY <1>2, <1>5, StepNames DEF Started
    <2>2. Stopped(s) = Stopped(Tail(s)) /\ b \notin Stopped(s)
        BY <1>2, <1>4, <1>5, StepNames DEF Stopped
    <2> QED
        BY <2>1, <2>2 DEF After
<1>6. ASSUME NEW b \in Blocks, s[1] = Stop(b)
      PROVE  After(Tail(s), r \ {b}) = After(s, r)
    <2>1. Started(s) = Started(Tail(s))
        BY <1>2, <1>6, StepNames DEF Started
    <2>2. Stopped(s) = Stopped(Tail(s)) \cup {b}
        BY <1>2, <1>6, StepNames DEF Stopped
    <2> QED
        BY <2>1, <2>2 DEF After
<1>7. ASSUME \A b \in Blocks : s[1] # Start(b) /\ s[1] # Stop(b)
      PROVE  After(Tail(s), r) = After(s, r)
    <2>1. Started(s) = Started(Tail(s)) /\ Stopped(s) = Stopped(Tail(s))
        BY <1>2, <1>7 DEF Started, Stopped
    <2> QED
        BY <2>1 DEF After
<1> QED
    BY <1>1, <1>3, <1>5, <1>6, <1>7

\* The other steps that a list of one or three holds.
LEMMA NetworkIn ==
    LET s == StartNetwork \o <<Save("sending")>>
    IN  s \in Seq(Steps) /\ \A x : In(x, s) <=> x \in {Do("close"), Do("open"), Do("destroy"), Save("sending")}
<1>1. StartNetwork \in Seq(Steps) /\ <<Save("sending")>> \in Seq(Steps)
    BY Lists DEF Fields
<1>2. \A x : In(x, StartNetwork \o <<Save("sending")>>) <=> In(x, StartNetwork) \/ In(x, <<Save("sending")>>)
    BY <1>1, ConcatIn, Zenon
<1>3. \A x : In(x, StartNetwork \o <<Save("sending")>>) <=> x \in {Do("close"), Do("open"), Do("destroy"), Save("sending")}
    BY <1>2, ListIn
<1> QED
    BY <1>3, NoneLists

LEMMA CreatePlan ==
    LET s == <<>> \o <<Do("create")>>
    IN  s \in Seq(Steps) /\ \A x : In(x, s) <=> x = Do("create")
<1>1. <<>> \o <<Do("create")>> = <<Do("create")>>
    BY Lists, ConcatEmptySeq DEF Others
<1> QED
    BY <1>1, ListIn, NoneLists

\* Which steps start or stop no block.
LEMMA QuietSteps ==
    /\ \A o \in Others : \A b : Do(o) # Start(b) /\ Do(o) # Stop(b)
    /\ \A f : \A b : Save(f) # Start(b) /\ Save(f) # Stop(b)
    /\ \A o \in Others : \A f : Do(o) # Save(f)
    /\ \A o, p : o # p => Do(o) # Do(p) /\ Save(o) # Save(p)
BY StepNames

\* What the constructor does after it has started the blocks.
LEMMA Restored ==
    ASSUME NEW t, t = StartNetwork \/ t = <<>>
    PROVE  /\ t \in Seq(Steps) /\ \A b \in Blocks : ~In(Start(b), t) /\ ~In(Stop(b), t)
           /\ ~In(Do("disable"), t) /\ ~In(Save("idle"), t) /\ ~In(Save("sending"), t)
           /\ In(Do("open"), t) => t = StartNetwork
<1>1. (\A x : ~In(x, <<>>)) /\ <<>> \in Seq(Steps)
    BY ListIn
<1>2. (\A x : In(x, StartNetwork) <=> x \in {Do("close"), Do("open"), Do("destroy")}) /\ StartNetwork \in Seq(Steps)
    BY ListIn, Lists
<1>3. CASE t = <<>>
    BY <1>1, <1>3
<1>4. CASE t = StartNetwork
    BY <1>2, <1>4, QuietSteps DEF Others
<1> QED
    BY <1>3, <1>4

LEMMA ChainInit == Init => ChainInv
<1> SUFFICES ASSUME Init PROVE ChainInv
    OBVIOUS
<1>1. todo = StartAll(0) \o <<>> /\ running = {} /\ mode = 0 /\ enabled = TRUE /\ handler = "wait"
      /\ config = [mode |-> 0, sending |-> FALSE]
    BY StartAllEmpty DEF Init
<1>2. /\ todo \in Seq(Steps) /\ StopsFirst(todo) /\ After(todo, {}) = Blocks \ {Other(0)}
      /\ ~In(Do("disable"), todo)
    <2>1. <<>> \in Seq(Steps) /\ \A x : ~In(x, <<>>)
        BY ListIn
    <2> QED
        BY <1>1, <2>1, StartAllPlan DEF Others
<1> QED
    BY <1>1, <1>2 DEF ChainInv, EnabledAfter

LEMMA ChainUser == ASSUME ChainInv, User PROVE ChainInv'
<1>1. /\ todo = <<>> /\ UNCHANGED <<running, enabled, config, handler>> /\ mode' \in {0, 1}
    BY DEF User, Enable, Disable, ClickNetStop, ClickNetStart, SampleRateChange, Delete, ClickMode,
           Clickable, Idle, chain, thread, ChainInv
<1>2. IF enabled THEN running = Blocks \ {Other(mode)} ELSE running \subseteq {"resamp"}
    <2>1. \A x : ~In(x, todo)
        BY <1>1, ListIn
    <2>2. After(todo, running) = running
        BY <2>1 DEF After, Started, Stopped, ChainInv
    <2> QED
        BY <2>1, <2>2 DEF ChainInv, EnabledAfter
\* A call is sound if its list is, and leaves the chain as the mode has it.
<1>3. ASSUME todo' \in Seq(Steps), StopsFirst(todo'), ~(In(Do("enable"), todo') /\ In(Do("disable"), todo')),
             \/ In(Do("create"), todo')
             \/ /\ In(Do("enable"), todo') \/ (enabled /\ ~In(Do("disable"), todo'))
                /\ After(todo', running) = Blocks \ {Other(mode')}
             \/ /\ ~(In(Do("enable"), todo') \/ (enabled /\ ~In(Do("disable"), todo')))
                /\ After(todo', running) \subseteq {"resamp"}
      PROVE  ChainInv'
    BY <1>1, <1>3 DEF ChainInv, EnabledAfter, In, StopsFirst, After, Started, Stopped
<1>4. CASE Enable
    <2>1. /\ todo' = StartAll(mode) \o <<Do("enable")>> /\ mode' = mode /\ mode \in {0, 1} /\ running \in SUBSET Blocks
        BY <1>4 DEF Enable, chain, ChainInv
    <2>2. /\ <<Do("enable")>> \in Seq(Steps) /\ "enable" \in Others
          /\ \A x : In(x, <<Do("enable")>>) <=> x = Do("enable")
        BY ListIn, NoneLists DEF Others
    <2> DEFINE t == <<Do("enable")>>
    <2>3. /\ t \in Seq(Steps) /\ In(Do("enable"), t) /\ "disable" \in Others /\ ~In(Do("disable"), t)
          /\ \A b \in Blocks : ~In(Start(b), t) /\ ~In(Stop(b), t)
        BY <2>2, QuietSteps DEF Others
    <2>4. todo' = StartAll(mode) \o t
        BY <2>1
    <2> HIDE DEF t
    <2>5. /\ todo' \in Seq(Steps) /\ StopsFirst(todo') /\ After(todo', running) = Blocks \ {Other(mode)}
          /\ In(Do("enable"), todo') /\ ~In(Do("disable"), todo')
        <3> DEFINE s == StartAll(mode) \o t
        <3>1. /\ s \in Seq(Steps) /\ StopsFirst(s)
              /\ \A r \in SUBSET Blocks : After(s, r) = Blocks \ {Other(mode)}
              /\ \A x : In(x, t) => In(x, s)
              /\ \A f \in Others : In(Do(f), s) => In(Do(f), t)
            BY <2>1, <2>3, StartAllPlan, Zenon
        <3>2. todo' = s
            BY <2>4
        <3> HIDE DEF s
        <3> QED
            BY <2>1, <2>3, <3>1, <3>2
    <2> QED
        BY <1>3, <2>1, <2>5
<1>5. CASE Disable
    <2>1. todo' = StopAll \o <<Do("disable")>> /\ running \in SUBSET Blocks
        BY <1>5 DEF Disable, ChainInv
    <2>2. /\ todo' \in Seq(Steps) /\ StopsFirst(todo') /\ After(todo', running) = {}
          /\ \A x : In(x, todo') <=> x = Do("disable") \/ \E b \in Blocks : x = Stop(b)
        BY <2>1, StopAllPlan DEF Others
    <2>3. In(Do("disable"), todo') /\ ~In(Do("enable"), todo')
        BY <2>2, QuietSteps DEF Others
    <2> QED
        BY <1>3, <2>2, <2>3
<1>6. ASSUME todo' \in Seq(Steps), \A b \in Blocks : ~In(Start(b), todo') /\ ~In(Stop(b), todo'),
             ~In(Do("enable"), todo'), ~In(Do("disable"), todo'), mode' = mode
      PROVE  ChainInv'
    <2>1. StopsFirst(todo') /\ After(todo', running) = running
        BY <1>6, QuietPlan DEF ChainInv
    <2> QED
        BY <1>2, <1>3, <1>6, <2>1
<1>7. CASE ClickNetStop
    <2>1. todo' = NetStop /\ mode' = mode /\ NetStop \in Seq(Steps)
        BY <1>7, Lists DEF ClickNetStop, chain
    <2>2. \A x : In(x, todo') => x \in {Do("close"), Save("idle")}
        BY <2>1, ListIn
    <2>3. /\ \A b : Start(b) \notin {Do("close"), Save("idle")} /\ Stop(b) \notin {Do("close"), Save("idle")}
          /\ Do("enable") \notin {Do("close"), Save("idle")} /\ Do("disable") \notin {Do("close"), Save("idle")}
        BY QuietSteps DEF Others
    <2> QED
        BY <1>6, <2>1, <2>2, <2>3
<1>8. CASE ClickNetStart
    <2>1. todo' = StartNetwork \o <<Save("sending")>> /\ mode' = mode
        BY <1>8 DEF ClickNetStart, chain
    <2>2. todo' \in Seq(Steps) /\ \A x : In(x, todo') => x \in {Do("close"), Do("open"), Do("destroy"), Save("sending")}
        BY <2>1, NetworkIn
    <2>3. /\ \A b : /\ Start(b) \notin {Do("close"), Do("open"), Do("destroy"), Save("sending")}
                    /\ Stop(b) \notin {Do("close"), Do("open"), Do("destroy"), Save("sending")}
          /\ Do("enable") \notin {Do("close"), Do("open"), Do("destroy"), Save("sending")}
          /\ Do("disable") \notin {Do("close"), Do("open"), Do("destroy"), Save("sending")}
        BY QuietSteps DEF Others
    <2> QED
        BY <1>6, <2>1, <2>2, <2>3
<1>9. CASE SampleRateChange
    <2> DEFINE s == <<Stop("resamp"), Start("resamp")>>
    <2>1. todo' = s /\ mode' = mode /\ running \in SUBSET Blocks
        BY <1>9 DEF SampleRateChange, chain, ChainInv
    <2>2. StopsFirst(s) /\ After(s, running) = running \cup {"resamp"} /\ s \in Seq(Steps)
        BY <2>1, ResamplerPlan, Lists
    <2>3. \A x : In(x, s) => x \in {Stop("resamp"), Start("resamp")}
        BY ListIn
    <2> HIDE DEF s
    <2>4. ~In(Do("enable"), s) /\ ~In(Do("disable"), s)
        BY <2>3, QuietSteps DEF Others
    <2>5. "resamp" \in Blocks \ {Other(mode)}
        BY DEF Blocks, Other
    <2> QED
        BY <1>2, <1>3, <2>1, <2>2, <2>4, <2>5
<1>10. CASE Delete
    <2>1. todo' = StopAll \o <<Do("create")>> \/ todo' = <<>> \o <<Do("create")>>
        BY <1>10 DEF Delete
    <2>2. CASE todo' = StopAll \o <<Do("create")>>
        <3>1. /\ todo' \in Seq(Steps) /\ StopsFirst(todo')
              /\ \A x : In(x, todo') <=> x = Do("create") \/ \E b \in Blocks : x = Stop(b)
            BY <2>2, StopAllPlan DEF Others
        <3>2. In(Do("create"), todo') /\ ~In(Do("enable"), todo')
            BY <3>1, QuietSteps DEF Others
        <3> QED
            BY <1>3, <3>1, <3>2
    <2>3. CASE todo' = <<>> \o <<Do("create")>>
        <3>1. todo' \in Seq(Steps) /\ \A x : In(x, todo') <=> x = Do("create")
            BY <2>3, CreatePlan
        <3>2. StopsFirst(todo') /\ In(Do("create"), todo') /\ ~In(Do("enable"), todo')
            BY <3>1, QuietSteps, QuietPlan DEF Others
        <3> QED
            BY <1>3, <3>1, <3>2
    <2> QED
        BY <2>1, <2>2, <2>3
<1>11. ASSUME NEW m \in {0, 1}, ClickMode(m)
       PROVE  ChainInv'
    <2>1. todo' = SetMode(m) /\ mode' = m /\ mode # m /\ enabled /\ mode \in {0, 1} /\ running \in SUBSET Blocks
        BY <1>11 DEF ClickMode, Clickable, ChainInv
    <2>2. StopsFirst(SetMode(m)) /\ After(SetMode(m), running) = {Reader(m)} \cup (running \ {Other(m)})
        BY <2>1, SetModePlan
    <2>3. {Reader(m)} \cup ((Blocks \ {Other(mode)}) \ {Other(m)}) = Blocks \ {Other(m)}
        BY <2>1 DEF Reader, Other, Blocks
    <2>4. SetMode(m) \in Seq(Steps) /\ \A x : In(x, SetMode(m)) => x \in {Stop(Other(m)), Start(Reader(m)), Save("mode")}
        BY Lists, ListIn
    <2>5. ~In(Do("enable"), SetMode(m)) /\ ~In(Do("disable"), SetMode(m))
        BY <2>4, QuietSteps DEF Others
    <2> QED
        BY <1>2, <1>3, <2>1, <2>2, <2>3, <2>4, <2>5
<1> QED
    BY <1>4, <1>5, <1>7, <1>8, <1>9, <1>10, <1>11 DEF User

LEMMA ChainStep == ChainInv /\ [Next]_vars => ChainInv'
<1> SUFFICES ASSUME ChainInv, [Next]_vars PROVE ChainInv'
    OBVIOUS
<1>1. ASSUME todo # <<>>, todo' = Tail(todo)
      PROVE  /\ todo' \in Seq(Steps) /\ StopsFirst(todo') /\ Head(todo) = todo[1] /\ todo[1] \in Steps
             /\ \A x : In(x, todo) <=> x = todo[1] \/ In(x, todo')
    BY <1>1, TailAt, TailIn, TailPlan DEF ChainInv
\* What a step keeps that does its part of the list.
<1>2. ASSUME todo # <<>>, todo' = Tail(todo), running' \in SUBSET Blocks, enabled' \in BOOLEAN,
             UNCHANGED mode, config' \in [mode : {0, 1}, sending : BOOLEAN],
             todo[1] # Do("create"),
             After(todo', running') = After(todo, running),
             In(Do("enable"), todo') \/ (enabled' /\ ~In(Do("disable"), todo')) <=> EnabledAfter(todo),
             handler' # "wait" => "sink" \in running'
      PROVE  ChainInv'
    <2>1. EnabledAfter(todo)' <=> EnabledAfter(todo)
        BY <1>2 DEF EnabledAfter, In
    <2>2. After(todo, running)' = After(todo, running)
        BY <1>2 DEF After, Started, Stopped, In
    <2>3. In(Do("create"), todo)' <=> In(Do("create"), todo)
        BY <1>1, <1>2 DEF In
    <2>4. StopsFirst(todo)'
        BY <1>1, <1>2 DEF StopsFirst
    <2>5. ~(In(Do("enable"), todo) /\ In(Do("disable"), todo))'
        <3>1. ~(In(Do("enable"), todo') /\ In(Do("disable"), todo'))
            BY <1>1, <1>2 DEF ChainInv
        <3> QED
            BY <3>1 DEF In
    <2> QED
        BY <1>1, <1>2, <2>1, <2>2, <2>3, <2>4, <2>5 DEF ChainInv
\* And of those of the last list, one that neither enables nor disables the module.
<1>3. ASSUME todo # <<>>, todo' = Tail(todo), todo[1] # Do("enable"), todo[1] # Do("disable"), enabled' = enabled
      PROVE  In(Do("enable"), todo') \/ (enabled' /\ ~In(Do("disable"), todo')) <=> EnabledAfter(todo)
    BY <1>1, <1>3 DEF EnabledAfter
<1>4. CASE StartBlock
    <2>1. /\ todo # <<>> /\ todo' = Tail(todo) /\ todo[1] = Start(Arg) /\ running' = running \cup {Arg}
          /\ Arg \in Blocks /\ UNCHANGED <<enabled, mode, config, handler>>
        BY <1>1, <1>4, StepKinds DEF StartBlock, Op, Arg, thread
    <2>2. After(todo', running') = After(todo, running) /\ running' \in SUBSET Blocks
        BY <2>1, TailPlan DEF ChainInv
    <2>3. todo[1] # Do("create") /\ todo[1] # Do("enable") /\ todo[1] # Do("disable")
        BY <2>1, QuietSteps DEF Others
    <2> QED
        BY <1>2, <1>3, <2>1, <2>2, <2>3 DEF ChainInv
<1>5. CASE StopBlock
    <2>1. /\ todo # <<>> /\ todo' = Tail(todo) /\ todo[1] = Stop(Arg) /\ running' = running \ {Arg}
          /\ Arg \in Blocks /\ UNCHANGED <<enabled, mode, config, handler>>
          /\ Arg = "sink" => handler = "wait"
        BY <1>1, <1>5, StepKinds DEF StopBlock, Op, Arg, thread
    <2>2. After(todo', running') = After(todo, running) /\ running' \in SUBSET Blocks
        BY <2>1, TailPlan DEF ChainInv
    <2>3. todo[1] # Do("create") /\ todo[1] # Do("enable") /\ todo[1] # Do("disable")
        BY <2>1, QuietSteps DEF Others
    <2> QED
        BY <1>2, <1>3, <2>1, <2>2, <2>3 DEF ChainInv
<1>6. CASE SaveConfig \/ CloseSocket \/ OpenSocket \/ DestroySocket
    <2>1. /\ todo # <<>> /\ todo' = Tail(todo) /\ UNCHANGED <<enabled, mode, running, handler>>
          /\ Head(todo).op \in {"save", "close", "open", "destroy"}
          /\ config' \in [mode : {0, 1}, sending : BOOLEAN]
        BY <1>6 DEF SaveConfig, CloseSocket, OpenSocket, DestroySocket, Op, chain, thread, ChainInv
    <2>2. \/ \E f \in Fields : todo[1] = Save(f)
          \/ todo[1] = Do("close") \/ todo[1] = Do("open") \/ todo[1] = Do("destroy")
        BY <1>1, <2>1, StepKinds DEF Others
    <2>3. /\ \A b : todo[1] # Start(b) /\ todo[1] # Stop(b)
          /\ todo[1] # Do("create") /\ todo[1] # Do("enable") /\ todo[1] # Do("disable")
        BY <2>2, QuietSteps DEF Others
    <2>4. After(todo', running') = After(todo, running) /\ running' \in SUBSET Blocks
        BY <2>1, <2>3, TailPlan DEF ChainInv
    <2> QED
        BY <1>2, <1>3, <2>1, <2>3, <2>4 DEF ChainInv
<1>7. CASE SetEnabled
    <2>1. /\ todo # <<>> /\ todo' = Tail(todo) /\ UNCHANGED <<mode, running, config, handler>>
          /\ \/ Head(todo).op = "enable" /\ enabled' = TRUE
             \/ Head(todo).op = "disable" /\ enabled' = FALSE
        BY <1>7 DEF SetEnabled, Op, thread
    <2>2. \/ todo[1] = Do("enable") /\ enabled' = TRUE
          \/ todo[1] = Do("disable") /\ enabled' = FALSE
        BY <1>1, <2>1, StepKinds DEF Others
    <2>3. (\A b : todo[1] # Start(b) /\ todo[1] # Stop(b)) /\ todo[1] # Do("create")
        BY <2>2, QuietSteps DEF Others
    <2>4. After(todo', running') = After(todo, running) /\ running' \in SUBSET Blocks
        BY <2>1, <2>3, TailPlan DEF ChainInv
    <2>5. In(Do("enable"), todo') \/ (enabled' /\ ~In(Do("disable"), todo')) <=> EnabledAfter(todo)
        <3>1. CASE todo[1] = Do("enable") /\ enabled' = TRUE
            <4>1. In(Do("enable"), todo) /\ ~In(Do("disable"), todo')
                BY <1>1, <2>1, <3>1 DEF ChainInv
            <4> QED
                BY <3>1, <4>1 DEF EnabledAfter
        <3>2. CASE todo[1] = Do("disable") /\ enabled' = FALSE
            <4>1. In(Do("disable"), todo) /\ ~In(Do("enable"), todo)
                BY <1>1, <2>1, <3>2 DEF ChainInv
            <4>2. ~In(Do("enable"), todo')
                BY <1>1, <2>1, <4>1
            <4> QED
                BY <3>2, <4>1, <4>2 DEF EnabledAfter
        <3> QED
            BY <2>2, <3>1, <3>2
    <2> QED
        BY <1>2, <2>1, <2>2, <2>3, <2>4, <2>5 DEF ChainInv
<1>8. CASE Create
    <2>1. /\ running' = {} /\ enabled' = TRUE /\ handler' = "wait" /\ mode' = config.mode /\ config' = config
          /\ config.mode \in {0, 1}
        BY <1>8 DEF Create, ChainInv
    <2> DEFINE t == IF config.sending THEN StartNetwork ELSE <<>>
    <2>2. t = StartNetwork \/ t = <<>>
        OBVIOUS
    <2>3. todo' = StartAll(config.mode) \o t
        BY <1>8 DEF Create
    <2> HIDE DEF t
    <2>4. /\ todo' \in Seq(Steps) /\ StopsFirst(todo') /\ After(todo', {}) = Blocks \ {Other(config.mode)}
          /\ ~In(Do("disable"), todo')
        BY <2>1, <2>2, <2>3, Restored, StartAllPlan DEF Others
    <2>5. EnabledAfter(todo)' /\ StopsFirst(todo)' /\ After(todo, running)' = Blocks \ {Other(config.mode)}
        BY <2>1, <2>4 DEF EnabledAfter, StopsFirst, After, Started, Stopped, In
    <2> QED
        BY <2>1, <2>4, <2>5 DEF ChainInv
<1>9. CASE User
    BY <1>9, ChainUser
<1>10. CASE (Handler /\ ~Crash) \/ UNCHANGED vars
    <2>1. UNCHANGED <<running, enabled, mode, config, todo>> /\ (handler' # "wait" => "sink" \in running)
        BY <1>10, HandlerLeaves DEF vars, chain, thread, ChainInv
    <2> QED
        BY <2>1 DEF ChainInv, EnabledAfter, StopsFirst, After, Started, Stopped, In
<1>11. CASE Crash
    <2>1. /\ running' = {} /\ todo' = <<Do("create")>> /\ handler' = "wait" /\ UNCHANGED <<enabled, mode>>
          /\ config' \in [mode : {0, 1}, sending : BOOLEAN]
        BY <1>11 DEF Crash
    <2>2. todo' \in Seq(Steps) /\ \A x : In(x, todo') <=> x = Do("create")
        BY <2>1, ListIn, CreateIsNone
    <2>3. StopsFirst(todo') /\ In(Do("create"), todo') /\ ~In(Do("enable"), todo')
        BY <2>2, QuietSteps, QuietPlan DEF Others
    <2> QED
        BY <2>1, <2>2, <2>3 DEF ChainInv, StopsFirst, In
<1> QED
    BY <1>4, <1>5, <1>6, <1>7, <1>8, <1>9, <1>10, <1>11 DEF Next, UserInterface, Handler

\* Whenever the user interface has finished a call the chain is the one of the mode, all of
\* it running or, while the module is disabled, none but the resampler; and the handler is
\* never in a chunk while its block is stopped (setMode, enable, disable, ~TetraDemodulatorModule).
THEOREM ChainIsOfMode == Spec => []ChainMatchesMode
<1>1. ASSUME ChainInv PROVE ChainMatchesMode
    <2>1. ASSUME Idle
          PROVE  IF enabled THEN running = Blocks \ {Other(mode)} ELSE running \subseteq {"resamp"}
        <3>1. \A x : ~In(x, todo)
            BY <2>1, ListIn DEF Idle
        <3>2. After(todo, running) = running
            BY <1>1, <3>1 DEF After, Started, Stopped, ChainInv
        <3> QED
            BY <1>1, <3>1, <3>2 DEF ChainInv, EnabledAfter
    <2> QED
        BY <1>1, <2>1 DEF ChainInv, ChainMatchesMode, Other
<1>2. ChainInv => ChainMatchesMode
    BY <1>1
<1> QED
    BY ChainInit, ChainStep, <1>2, PTL DEF Spec

-----------------------------------------------------------------------------
(* The configuration. *)

\* What a restart will find.
SavedInv ==
    /\ config.mode = mode \/ In(Save("mode"), todo)
    /\ \/ config.sending /\ ~In(Save("idle"), todo)
       \/ In(Save("sending"), todo) /\ ~In(Save("idle"), todo)
       \/ ~In(Do("open"), todo) /\ ~In(Save("sending"), todo) /\ (NetActive => In(Do("close"), todo))

\* Until the module is created again it need not be what it was, as after a crash.
ConfigInv ==
    /\ todo \in Seq(Steps)
    /\ mode \in {0, 1} /\ config \in [mode : {0, 1}, sending : BOOLEAN]
    /\ In(Do("create"), todo) \/ SavedInv

LEMMA ConfigInit == Init => ConfigInv
<1> SUFFICES ASSUME Init PROVE ConfigInv
    OBVIOUS
<1>1. /\ todo = StartAll(0) \o <<>> /\ mode = 0 /\ config = [mode |-> 0, sending |-> FALSE]
      /\ conn = 0 /\ opened = {}
    BY StartAllEmpty DEF Init
<1>2. /\ todo \in Seq(Steps) /\ ~In(Do("open"), todo) /\ ~In(Save("sending"), todo)
    <2>1. <<>> \in Seq(Steps) /\ \A x : ~In(x, <<>>)
        BY ListIn
    <2> QED
        BY <1>1, <2>1, StartAllPlan DEF Others
<1> QED
    BY <1>1, <1>2 DEF ConfigInv, SavedInv, NetActive

LEMMA ConfigUser == ASSUME ConfigInv, User PROVE ConfigInv'
<1>1. /\ todo = <<>> /\ UNCHANGED <<config, conn, opened>> /\ mode' \in {0, 1}
    BY DEF User, Enable, Disable, ClickNetStop, ClickNetStart, SampleRateChange, Delete, ClickMode,
           Clickable, Idle, chain, net, ConfigInv
<1>2. config.mode = mode /\ (NetActive => config.sending)
    <2>1. \A x : ~In(x, todo)
        BY <1>1, ListIn
    <2> QED
        BY <2>1 DEF ConfigInv, SavedInv
\* Calls that leave the socket alone.
<1>3. ASSUME todo' \in Seq(Steps), mode' = mode \/ In(Save("mode"), todo'),
             ~In(Save("idle"), todo'), ~In(Do("open"), todo'), ~In(Save("sending"), todo')
      PROVE  ConfigInv'
    BY <1>1, <1>2, <1>3 DEF ConfigInv, SavedInv, NetActive, In
<1>4. CASE Enable
    <2> DEFINE t == <<Do("enable")>>
    <2>1. /\ t \in Seq(Steps) /\ \A x : In(x, t) <=> x = Do("enable")
        BY ListIn, NoneLists
    <2>2. todo' = StartAll(mode) \o t /\ mode \in {0, 1}
        BY <1>4 DEF Enable, ConfigInv
    <2> HIDE DEF t
    <2>3. /\ \A b \in Blocks : ~In(Start(b), t) /\ ~In(Stop(b), t)
          /\ ~In(Save("idle"), t) /\ ~In(Do("open"), t) /\ ~In(Save("sending"), t)
        BY <2>1, QuietSteps DEF Others
    <2>4. /\ todo' \in Seq(Steps) /\ In(Save("mode"), todo')
          /\ ~In(Save("idle"), todo') /\ ~In(Do("open"), todo') /\ ~In(Save("sending"), todo')
        BY <2>1, <2>2, <2>3, StartAllPlan DEF Others
    <2> QED
        BY <1>3, <2>4
<1>5. CASE Disable \/ Delete
    <2>1. /\ \/ todo' = StopAll \o <<Do("disable")>>
             \/ todo' = StopAll \o <<Do("create")>>
             \/ todo' = <<>> \o <<Do("create")>>
          /\ mode' = mode
        BY <1>5 DEF Disable, Delete, chain
    <2>2. /\ todo' \in Seq(Steps)
          /\ \A x : In(x, todo') => x = Do("disable") \/ x = Do("create") \/ \E b \in Blocks : x = Stop(b)
        BY <2>1, StopAllPlan, CreatePlan DEF Others
    <2>3. \A f : ~In(Save(f), todo')
        BY <2>2, QuietSteps DEF Others
    <2>4. ~In(Do("open"), todo')
        <3>1. Do("open") # Do("disable") /\ Do("open") # Do("create") /\ \A b : Do("open") # Stop(b)
            BY QuietSteps DEF Others
        <3> QED
            BY <2>2, <3>1
    <2> QED
        BY <1>3, <2>1, <2>2, <2>3, <2>4
<1>6. CASE SampleRateChange
    <2>1. todo' = <<Stop("resamp"), Start("resamp")>> /\ mode' = mode
        BY <1>6 DEF SampleRateChange, chain
    <2>2. todo' \in Seq(Steps) /\ \A x : In(x, todo') => x = Stop("resamp") \/ x = Start("resamp")
        BY <2>1, Lists, ListIn
    <2>3. (\A f \in {"idle", "sending"} : ~In(Save(f), todo')) /\ ~In(Do("open"), todo')
        <3>1. /\ \A b : Do("open") # Stop(b) /\ Do("open") # Start(b) /\ Do("open") # Save(b)
              /\ \A f \in {"idle", "sending"} : Save(f) # Save("mode")
            BY QuietSteps DEF Others
        <3> QED
            BY <2>2, <3>1, QuietSteps
    <2> QED
        BY <1>3, <2>1, <2>2, <2>3
<1>7. ASSUME NEW m \in {0, 1}, ClickMode(m)
      PROVE  ConfigInv'
    <2>1. todo' = SetMode(m)
        BY <1>7 DEF ClickMode
    <2>2. /\ todo' \in Seq(Steps)
          /\ \A x : In(x, todo') <=> x \in {Stop(Other(m)), Start(Reader(m)), Save("mode")}
        BY <2>1, Lists, ListIn
    <2>3. (\A f \in {"idle", "sending"} : ~In(Save(f), todo')) /\ ~In(Do("open"), todo')
        <3>1. /\ \A b : Do("open") # Stop(b) /\ Do("open") # Start(b) /\ Do("open") # Save(b)
              /\ \A f \in {"idle", "sending"} : Save(f) # Save("mode")
            BY QuietSteps DEF Others
        <3> QED
            BY <2>2, <3>1, QuietSteps
    <2> QED
        BY <1>3, <2>2, <2>3
<1>8. CASE ClickNetStop
    <2>1. todo' = NetStop /\ mode' = mode
        BY <1>8 DEF ClickNetStop, chain
    <2>2. todo' \in Seq(Steps) /\ \A x : In(x, todo') <=> x \in {Do("close"), Save("idle")}
        BY <2>1, Lists, ListIn
    <2>3. In(Do("close"), todo') /\ ~In(Do("open"), todo') /\ ~In(Save("sending"), todo')
        BY <2>2, QuietSteps DEF Others
    <2> QED
        BY <1>1, <1>2, <2>1, <2>2, <2>3 DEF ConfigInv, SavedInv, NetActive, In
<1>9. CASE ClickNetStart
    <2>1. todo' = StartNetwork \o <<Save("sending")>> /\ mode' = mode
        BY <1>9 DEF ClickNetStart, chain
    <2>2. todo' \in Seq(Steps) /\ \A x : In(x, todo') <=> x \in {Do("close"), Do("open"), Do("destroy"), Save("sending")}
        BY <2>1, NetworkIn
    <2>3. In(Save("sending"), todo') /\ ~In(Save("idle"), todo')
        <3>1. Save("idle") \notin {Do("close"), Do("open"), Do("destroy"), Save("sending")}
            BY QuietSteps DEF Others
        <3> QED
            BY <2>2, <3>1
    <2> QED
        BY <1>1, <1>2, <2>1, <2>2, <2>3 DEF ConfigInv, SavedInv, In
<1> QED
    BY <1>4, <1>5, <1>6, <1>7, <1>8, <1>9 DEF User

LEMMA ConfigStep == ConfigInv /\ [Next]_vars => ConfigInv'
<1> SUFFICES ASSUME ConfigInv, [Next]_vars PROVE ConfigInv'
    OBVIOUS
<1>1. ASSUME todo # <<>>, todo' = Tail(todo)
      PROVE  /\ todo' \in Seq(Steps) /\ Head(todo) = todo[1] /\ todo[1] \in Steps
             /\ \A x : In(x, todo) <=> x = todo[1] \/ In(x, todo')
    BY <1>1, TailAt, TailIn DEF ConfigInv
\* As long as the module has to be created, so it has after a step that does not.
<1>10. ASSUME todo # <<>>, todo' = Tail(todo), In(Do("create"), todo), todo[1] # Do("create"),
              mode' \in {0, 1}, config' \in [mode : {0, 1}, sending : BOOLEAN]
       PROVE  ConfigInv'
    <2>1. In(Do("create"), todo') /\ todo' \in Seq(Steps)
        BY <1>1, <1>10
    <2> QED
        BY <1>10, <2>1 DEF ConfigInv, In
<1>2. ASSUME todo # <<>>, todo' = Tail(todo), UNCHANGED <<mode, config, conn, opened>>,
             ~In(Do("create"), todo),
             \/ \E b : todo[1] = Start(b) \/ todo[1] = Stop(b)
             \/ todo[1] = Do("enable") \/ todo[1] = Do("disable")
      PROVE  ConfigInv'
    <2>1. /\ todo[1] # Save("mode") /\ todo[1] # Save("idle") /\ todo[1] # Save("sending")
          /\ todo[1] # Do("open") /\ todo[1] # Do("close")
        BY <1>2, QuietSteps DEF Others
    <2>2. \A x \in {Save("mode"), Save("idle"), Save("sending"), Do("open"), Do("close")} :
             In(x, todo') <=> In(x, todo)
        BY <1>1, <1>2, <2>1
    <2>3. NetActive' <=> NetActive
        BY <1>2 DEF NetActive
    <2> QED
        BY <1>1, <1>2, <2>2, <2>3 DEF ConfigInv, SavedInv, In
<1>11. \/ ~In(Do("create"), todo) /\ SavedInv
       \/ In(Do("create"), todo)
    BY DEF ConfigInv
<1>3. CASE StartBlock \/ StopBlock \/ SetEnabled
    <2>1. /\ todo # <<>> /\ todo' = Tail(todo) /\ UNCHANGED <<mode, config, conn, opened>>
          /\ Head(todo).op \in {"start", "stop", "enable", "disable"}
        BY <1>3 DEF StartBlock, StopBlock, SetEnabled, Op, net
    <2>2. \/ \E b : todo[1] = Start(b) \/ todo[1] = Stop(b)
          \/ todo[1] = Do("enable") \/ todo[1] = Do("disable")
        BY <1>1, <2>1, StepKinds DEF Others
    <2>3. todo[1] # Do("create")
        BY <2>2, QuietSteps DEF Others
    <2> QED
        BY <1>2, <1>10, <2>1, <2>2, <2>3 DEF ConfigInv
<1>4. CASE SaveConfig
    <2>1. /\ todo # <<>> /\ todo' = Tail(todo) /\ UNCHANGED <<mode, conn, opened>> /\ todo[1] = Save(Arg)
          /\ Arg \in Fields
          /\ config' = IF Arg = "mode" THEN [config EXCEPT !.mode = mode]
                       ELSE [config EXCEPT !.sending = (Arg = "sending")]
        BY <1>1, <1>4, StepKinds DEF SaveConfig, Op, Arg, chain, net
    <2>2. \A f : todo[1] = Save(f) <=> f = Arg
        BY <2>1, QuietSteps
    <2>3. todo[1] # Do("open") /\ todo[1] # Do("close")
        BY <2>1, QuietSteps DEF Others
    <2>4. /\ \A f : In(Save(f), todo) <=> f = Arg \/ In(Save(f), todo')
          /\ In(Do("open"), todo') <=> In(Do("open"), todo)
          /\ In(Do("close"), todo') <=> In(Do("close"), todo)
        BY <1>1, <2>1, <2>2, <2>3
    <2>5. /\ config' \in [mode : {0, 1}, sending : BOOLEAN]
          /\ Arg = "mode" => config'.mode = mode /\ config'.sending = config.sending
          /\ Arg # "mode" => config'.mode = config.mode /\ (config'.sending <=> Arg = "sending")
        BY <2>1 DEF ConfigInv
    <2>8. todo[1] # Do("create")
        BY <2>1, QuietSteps DEF Others
    <2>9. CASE In(Do("create"), todo)
        BY <1>10, <2>1, <2>5, <2>8, <2>9 DEF ConfigInv
    <2>6. SavedInv => config'.mode = mode \/ In(Save("mode"), todo')
        BY <2>4, <2>5 DEF SavedInv
    <2>7. SavedInv =>
          \/ config'.sending /\ ~In(Save("idle"), todo')
          \/ In(Save("sending"), todo') /\ ~In(Save("idle"), todo')
          \/ ~In(Do("open"), todo') /\ ~In(Save("sending"), todo') /\ (NetActive => In(Do("close"), todo'))
        BY <2>1, <2>4, <2>5 DEF SavedInv, Fields
    <2> QED
        BY <1>1, <1>11, <2>1, <2>5, <2>6, <2>7, <2>9 DEF ConfigInv, SavedInv, NetActive, In
<1>5. CASE CloseSocket
    <2>1. /\ todo # <<>> /\ todo' = Tail(todo) /\ UNCHANGED <<mode, config>> /\ todo[1] = Do("close")
          /\ opened' = opened \ {conn} /\ conn' = conn
        BY <1>1, <1>5, StepKinds DEF CloseSocket, Op, Others, chain
    <2>2. \A x \in {Save("mode"), Save("idle"), Save("sending"), Do("open")} :
             In(x, todo') <=> In(x, todo)
        BY <1>1, <2>1, QuietSteps DEF Others
    <2>3. ~NetActive'
        BY <2>1 DEF NetActive
    <2>4. CASE In(Do("create"), todo)
        BY <1>10, <2>1, <2>4, QuietSteps DEF ConfigInv, Others
    <2> QED
        BY <1>1, <1>11, <2>1, <2>2, <2>3, <2>4 DEF ConfigInv, SavedInv, In
<1>6. CASE OpenSocket
    <2>1. /\ todo # <<>> /\ todo' = Tail(todo) /\ UNCHANGED <<mode, config>> /\ todo[1] = Do("open")
        BY <1>1, <1>6, StepKinds DEF OpenSocket, Op, Others, chain
    <2>2. \A x \in {Save("mode"), Save("idle"), Save("sending")} : In(x, todo') <=> In(x, todo)
        BY <1>1, <2>1, QuietSteps DEF Others
    <2>3. In(Do("open"), todo)
        BY <1>1, <2>1
    <2>4. CASE In(Do("create"), todo)
        BY <1>10, <2>1, <2>4, QuietSteps DEF ConfigInv, Others
    <2> QED
        BY <1>1, <1>11, <2>1, <2>2, <2>3, <2>4 DEF ConfigInv, SavedInv, In
<1>12. CASE DestroySocket
    <2>1. /\ todo # <<>> /\ todo' = Tail(todo) /\ UNCHANGED <<mode, config, conn, opened>>
          /\ todo[1] = Do("destroy")
        BY <1>1, <1>12, StepKinds DEF DestroySocket, Op, Others, chain
    <2>2. \A x \in {Save("mode"), Save("idle"), Save("sending"), Do("open"), Do("close")} :
             In(x, todo') <=> In(x, todo)
        BY <1>1, <2>1, QuietSteps DEF Others
    <2>3. CASE In(Do("create"), todo)
        BY <1>10, <2>1, <2>3, QuietSteps DEF ConfigInv, Others
    <2> QED
        BY <1>1, <1>11, <2>1, <2>2, <2>3 DEF ConfigInv, SavedInv, NetActive, In
<1>7. CASE Create
    <2>1. /\ mode' = config.mode /\ config' = config /\ config.mode \in {0, 1} /\ conn' = 0 /\ opened' = {}
        BY <1>7 DEF Create, ConfigInv
    <2> DEFINE t == IF config.sending THEN StartNetwork ELSE <<>>
    <2>2. (t = StartNetwork /\ config.sending) \/ t = <<>>
        OBVIOUS
    <2>3. todo' = StartAll(config.mode) \o t
        BY <1>7 DEF Create
    <2>4. t = <<>> => ~In(Do("open"), t)
        BY ListIn
    <2> HIDE DEF t
    <2>5. /\ todo' \in Seq(Steps) /\ ~In(Save("idle"), todo') /\ ~In(Save("sending"), todo')
          /\ In(Do("open"), todo') => In(Do("open"), t)
        BY <2>1, <2>2, <2>3, Restored, StartAllPlan DEF Others
    <2> QED
        BY <2>1, <2>2, <2>4, <2>5 DEF ConfigInv, SavedInv, NetActive, In
<1>8. CASE User
    BY <1>8, ConfigUser
<1>9. CASE (Handler /\ ~Crash) \/ UNCHANGED vars
    <2>1. UNCHANGED <<mode, config, todo, conn, opened>>
        BY <1>9, HandlerLeaves DEF vars, chain, net
    <2> QED
        BY <2>1 DEF ConfigInv, SavedInv, NetActive, In
<1>13. CASE Crash
    <2>1. mode' = mode /\ todo' = <<Do("create")>> /\ config' \in [mode : {0, 1}, sending : BOOLEAN]
        BY <1>13 DEF Crash
    <2>2. todo' \in Seq(Steps) /\ In(Do("create"), todo')
        BY <2>1, ListIn, CreateIsNone
    <2> QED
        BY <2>1, <2>2 DEF ConfigInv, In
<1> QED
    BY <1>3, <1>4, <1>5, <1>6, <1>7, <1>8, <1>9, <1>12, <1>13 DEF Next, UserInterface, Handler

\* When a call has returned the configuration has the mode, and says that the network
\* sends if it does: what was chosen is what the next start restores (setMode, the menu,
\* the constructor).
THEOREM ConfigIsKept == Spec => []ConfigIsState
<1>1. ASSUME ConfigInv PROVE ConfigIsState
    BY <1>1, ListIn DEF ConfigInv, SavedInv, ConfigIsState, Idle
<1>2. ConfigInv => ConfigIsState
    BY <1>1
<1> QED
    BY ConfigInit, ConfigStep, <1>2, PTL DEF Spec
=============================================================================
