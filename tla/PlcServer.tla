----------------------------- MODULE PlcServer -----------------------------
(***************************************************************************)
(* The PLC program of examples/tcp/bur and its TCP peer.  One cycle of the *)
(* PLC takes one step of the socket machine TcpIpServer and then, while an *)
(* experiment is active, queues the frames of one sample (Transport).  The *)
(* peer is the TcpConnection of pywisp/connection.py, which cuts the bytes *)
(* it reads into chunks of one frame.                                      *)
(*                                                                         *)
(* A frame is one unit for its id and FrameLen - 1 for its payload; a unit *)
(* is a pair of the frame and the position in it.  outBuf[b] holds the     *)
(* frames of outBuffer[b], so outBufferLen[b] is FrameLen times its length *)
(* (handleFrame only ever appends whole frames); "rest" is what pData and  *)
(* datalen of TcpSend_0 still point to after an interrupted send, and is   *)
(* not empty exactly if the static variable leftover is set.               *)
(***************************************************************************)
EXTENDS Naturals, Sequences

CONSTANTS
  FrameLen,   \* MAX_PAYLOAD + 1
  BufFrames,  \* the frames that fit into one half of outBuffer
  Window,     \* bound on the units under way in one direction
  Serials,    \* frames are numbered modulo Serials
  CloseWait,  \* the cycles the server waits before it starts again
  Faults      \* the faults that may happen in this instance

FaultKinds == {"leave", "reset", "partial", "segment", "busy", "init", "io", "close"}
Commands == {"stop", "start", "beat", "param"}

ASSUME SizeAssumption ==
  /\ FrameLen \in Nat \ {0}
  /\ BufFrames \in Nat \ {0}
  /\ Window \in Nat
  /\ Serials \in Nat \ {0}
  /\ CloseWait \in Nat
ASSUME FaultAssumption == Faults \subseteq FaultKinds

VARIABLES
  mainState,     \* the state of ProgramCyclic
  tcpStep,       \* tcp_step
  counterClose,  \* cycles waited in state 11
  cur,           \* currentOutBuf
  outBuf,        \* the frames in the two halves of outBuffer
  rest,          \* what an interrupted send has not sent yet
  active,        \* expData.bActivateExperiment
  serial,        \* the number of the frame queued last
  link,          \* none, up, half (the client has left) or lost (the server has)
  toRig, toGui,  \* units on their way
  data,          \* the bytes the Receiver has kept
  got,           \* the chunk the Receiver has handed on last
  asked,         \* the last command of this connection about the activation
  carried,       \* did the connection begin with a remainder of the one before?
  first          \* is this the first connection?

server == <<mainState, tcpStep, counterClose, cur, rest>>
plant == <<outBuf, active, serial>>
wire == <<toRig, toGui>>
client == <<data, got, asked>>
ghost == <<carried, first>>
vars == <<server, plant, link, wire, client, ghost>>

Frames == 0..(Serials - 1)
Garbage == Serials
Nothing == Serials + 1
Positions == 0..(FrameLen - 1)

\* the units of a sequence of frames
Units(fs) ==
  [j \in 1..(FrameLen * Len(fs)) |->
     <<fs[((j - 1) \div FrameLen) + 1], (j - 1) % FrameLen>>]
Upto(s, k) == SubSeq(s, 1, k)
From(s, k) == SubSeq(s, k + 1, Len(s))

-----------------------------------------------------------------------------
(* Transport: what a cycle queues and what a received frame does.          *)

\* handleFrame: into the half that is not being sent
Queue(out, fs) == [out EXCEPT ![1 - cur'] = out[1 - cur'] \o fs]

\* mutant: the buffer is not asked for room
RoomForTwo(out) == 2

\* handleFrame drops what finds no room: how many of the two frames do?
RoomFor(out) ==
  LET free == BufFrames - Len(out[1 - cur']) IN IF free < 2 THEN free ELSE 2

\* sendData at the end of the cycle, with the buffers the server part has left
SendData(out) ==
  LET n == IF active' THEN RoomFor(out) ELSE 0 IN
    /\ outBuf' = Queue(out, [k \in 1..n |-> (serial + k) % Serials])
    /\ serial' = (serial + n) % Serials

\* mutant: any payload but "start" deactivates, the heartbeat too
ObeyStart(c) == IF c = "param" THEN active ELSE c = "start"

\* unpackExp, unpackBenchData, unpackTrajRampData: only id 1 sets the flag
Obey(c) == IF c = "param" THEN active ELSE c # "stop"

\* is the chunk a complete frame?
IsFrame(u) == u = Units(<<u[1][1]>>)

\* Transport::handleFrame for each chunk of what has been received; the chunk
\* that is not one frame has a payload byte for its id or old bytes at its end
Handled(u) ==
  LET n == (Len(u) + FrameLen - 1) \div FrameLen
      Chunk(k) == SubSeq(u, FrameLen * (k - 1) + 1,
                         IF k = n THEN Len(u) ELSE FrameLen * k)
      About == {k \in 1..n : ~IsFrame(Chunk(k)) \/ Chunk(k)[1][1] # "param"}
      last == CHOOSE k \in About : \A j \in About : j <= k
  IN IF About = {} THEN {active}
     ELSE IF IsFrame(Chunk(last)) THEN {Obey(Chunk(last)[1][1])}
     ELSE BOOLEAN

-----------------------------------------------------------------------------
(* One step of TcpIpServer, as ProgramCyclic calls it.                     *)

Goto(m, s) == mainState' = m /\ tcpStep' = s

\* init, step 0: deinit
Deinit ==
  /\ mainState = 0 /\ tcpStep = 0
  /\ Goto(0, 1)
  /\ cur' = 0
  /\ UNCHANGED <<counterClose, rest, active, link, wire, client, ghost>>
  /\ SendData(outBuf)

\* init, steps 1 to 4: open, options, wait for the client, its options
InitStep ==
  /\ mainState = 0 /\ tcpStep \in 1..4
  /\ tcpStep = 3 => link \in {"up", "half"}
  /\ IF tcpStep = 4 THEN Goto(1, 0) ELSE Goto(0, tcpStep + 1)
  /\ UNCHANGED <<counterClose, cur, rest, active, link, wire, client, ghost>>
  /\ SendData(outBuf)

InitError ==
  /\ "init" \in Faults
  /\ mainState = 0 /\ tcpStep \in 1..4
  /\ Goto(255, 0)
  /\ UNCHANGED <<counterClose, cur, rest, active, link, wire, client, ghost>>
  /\ SendData(outBuf)

\* mutant: the server reads only when it has nothing to send
ReceiveIdle ==
  /\ mainState = 1 /\ tcpStep = 0
  /\ IF outBuf[0] # <<>> \/ outBuf[1] # <<>> THEN Goto(1, 1) /\ UNCHANGED <<active, toRig>>
     ELSE /\ active' \in Handled(toRig)
          /\ toRig' = <<>>
          /\ Goto(1, 0)
  /\ UNCHANGED <<counterClose, cur, rest, link, toGui, client, ghost>>
  /\ SendData(outBuf)

\* sync, step 0: frames are taken from the client, and sent if there are any
Receive ==
  /\ mainState = 1 /\ tcpStep = 0
  /\ link = "up" \/ toRig # <<>>
  /\ \E k \in 0..Len(toRig) :
       /\ k = 0 => toRig = <<>>
       /\ k < Len(toRig) => "segment" \in Faults
       /\ active' \in Handled(Upto(toRig, k))
       /\ toRig' = From(toRig, k)
  /\ tcpStep' = IF outBuf[0] = <<>> /\ outBuf[1] = <<>> THEN 0 ELSE 1
  /\ UNCHANGED <<mainState, counterClose, cur, rest, link, toGui, client, ghost>>
  /\ SendData(outBuf)

\* sync, step 0 or 1: the client has left, or the call fails
SyncEnds ==
  /\ mainState = 1 /\ tcpStep \in {0, 1}
  /\ \/ link = "half" /\ (tcpStep = 0 => toRig = <<>>)
     \/ "io" \in Faults
  /\ Goto(10, 0)
  /\ UNCHANGED <<counterClose, cur, rest, active, link, wire, client, ghost>>
  /\ SendData(outBuf)

\* write: what TcpSend is given
Pending == IF rest = <<>> THEN Units(outBuf[cur]) ELSE rest
\* a send to a client that has left may succeed, but nothing arrives
Arrives(u) == IF link = "up" THEN toGui \o u ELSE toGui

\* mutant: the length of the half that has been sent is not reset
WriteKeeps ==
  /\ mainState = 1 /\ tcpStep = 1
  /\ Len(toGui) + Len(Pending) <= Window
  /\ toGui' = Arrives(Pending)
  /\ Goto(1, 0)
  /\ rest' = <<>>
  /\ cur' = 1 - cur
  /\ UNCHANGED <<counterClose, active, link, toRig, client, ghost>>
  /\ SendData(outBuf)

\* sync, step 1: everything is sent and the halves are swapped
WriteAll ==
  /\ mainState = 1 /\ tcpStep = 1
  /\ Len(toGui) + Len(Pending) <= Window
  /\ toGui' = Arrives(Pending)
  /\ Goto(1, 0)
  /\ rest' = <<>>
  /\ cur' = 1 - cur
  /\ UNCHANGED <<counterClose, active, link, toRig, client, ghost>>
  /\ SendData([outBuf EXCEPT ![cur] = <<>>])

\* mutant: pData is not moved past what has been sent
WritePartAgain ==
  /\ mainState = 1 /\ tcpStep = 1
  /\ \E k \in 1..(Len(Pending) - 1) :
       /\ Len(toGui) + k <= Window
       /\ toGui' = Arrives(Upto(Pending, k))
       /\ rest' = Pending
  /\ UNCHANGED <<mainState, tcpStep, counterClose, cur, active, link, toRig, client, ghost>>
  /\ SendData(outBuf)

\* sync, step 1: tcpERR_SENTLEN
WritePart ==
  /\ "partial" \in Faults
  /\ mainState = 1 /\ tcpStep = 1
  /\ \E k \in 1..(Len(Pending) - 1) :
       /\ Len(toGui) + k <= Window
       /\ toGui' = Arrives(Upto(Pending, k))
       /\ rest' = From(Pending, k)
  /\ UNCHANGED <<mainState, tcpStep, counterClose, cur, active, link, toRig, client, ghost>>
  /\ SendData(outBuf)

\* closeSockets: the client's socket, then the server's
CloseStep ==
  /\ mainState = 10 /\ tcpStep \in {0, 1}
  /\ IF tcpStep = 0 THEN Goto(10, 1) ELSE Goto(11, 0)
  /\ link' = IF tcpStep = 1 THEN link ELSE IF link = "up" THEN "lost" ELSE "none"
  /\ toRig' = <<>>
  /\ toGui' = <<>>
  /\ UNCHANGED <<counterClose, cur, rest, active, client, ghost>>
  /\ SendData(outBuf)

CloseError ==
  /\ "close" \in Faults
  /\ mainState = 10 /\ tcpStep \in {0, 1}
  /\ Goto(10, 255)
  /\ UNCHANGED <<counterClose, cur, rest, active, link, wire, client, ghost>>
  /\ SendData(outBuf)

\* mutant: the counter is reset in every cycle
WaitForever ==
  /\ mainState = 11
  /\ counterClose' = 0
  /\ Goto(IF counterClose > CloseWait THEN 0 ELSE 11, tcpStep)
  /\ UNCHANGED <<cur, rest, active, link, wire, client, ghost>>
  /\ SendData(outBuf)

\* state 11: the pause before the server is started again
Wait ==
  /\ mainState = 11
  /\ counterClose' = IF counterClose > CloseWait THEN 0 ELSE counterClose + 1
  /\ Goto(IF counterClose > CloseWait THEN 0 ELSE 11, tcpStep)
  /\ UNCHANGED <<cur, rest, active, link, wire, client, ghost>>
  /\ SendData(outBuf)

\* the end states: an error while a server socket is opened or one is closed
Ended == mainState = 255 \/ (mainState = 10 /\ tcpStep = 255)

\* a cycle in which the called function block is busy or would block, or one in
\* a state that no call leaves: only the sample is queued
CanBlock ==
  \/ mainState = 0 /\ tcpStep = 3 /\ link \notin {"up", "half"}
  \/ mainState = 1 /\ tcpStep = 1 /\ Len(toGui) + Len(Pending) > Window
  \/ Ended
  \/ "busy" \in Faults /\ mainState # 11 /\ ~(mainState = 0 /\ tcpStep = 0)
CycleOnly ==
  /\ CanBlock
  /\ UNCHANGED <<server, active, link, wire, client, ghost>>
  /\ SendData(outBuf)

\* what the server gets done when no call is busy for ever
Progress ==
  \/ Deinit \/ InitStep \/ Receive \/ SyncEnds \/ WriteAll \/ WritePart
  \/ CloseStep \/ Wait
Cycle == Progress \/ InitError \/ CloseError \/ CycleOnly

-----------------------------------------------------------------------------
(* The client: a TcpConnection per connect.                                *)

Connect ==
  /\ link = "none"
  /\ mainState = 0 /\ tcpStep = 3
  /\ link' = "up"
  /\ data' = <<>> /\ got' = Nothing /\ asked' = "param"
  /\ carried' = (rest # <<>>)
  /\ UNCHANGED <<server, plant, wire, first>>

\* Sender: the id and the payload, filled up to one frame, in one sendall
SendCommand(c) ==
  /\ link = "up"
  /\ Len(toRig) + FrameLen <= Window
  /\ toRig' = toRig \o Units(<<c>>)
  /\ asked' = IF c = "param" THEN asked ELSE c
  /\ UNCHANGED <<server, plant, link, toGui, data, got, ghost>>

\* mutant: what exceeds the chunk is thrown away
KeepNone(s) == <<>>

\* Receiver: what stays in its buffer, and the chunk it hands on
Keep(s) == IF Len(s) >= FrameLen THEN From(s, FrameLen) ELSE s
Chunked(s) ==
  LET f == Upto(s, FrameLen) IN
    IF Len(s) < FrameLen THEN got ELSE IF IsFrame(f) THEN f[1][1] ELSE Garbage

\* Receiver, for what one recv returns; a longer piece is received in parts,
\* which gives the same chunks
ClientReceives ==
  /\ link = "up"
  /\ \E k \in 1..Len(toGui) :
       /\ k <= FrameLen
       /\ LET s == data \o Upto(toGui, k) IN
            /\ data' = Keep(s)
            /\ got' = Chunked(s)
       /\ toGui' = From(toGui, k)
  /\ UNCHANGED <<server, plant, link, toRig, asked, ghost>>

\* the connection is closed by the client, or it notices that the server did;
\* with a reset the commands under way are lost
ClientLeaves ==
  /\ link \in {"up", "lost"}
  /\ link = "up" => "leave" \in Faults
  /\ link' = IF link = "up" THEN "half" ELSE "none"
  /\ toGui' = <<>>
  /\ toRig' \in IF "reset" \in Faults THEN {toRig, <<>>} ELSE {toRig}
  /\ data' = <<>> /\ got' = Nothing /\ asked' = "param"
  /\ first' = FALSE
  /\ UNCHANGED <<server, plant, carried>>

Init ==
  /\ mainState = 0 /\ tcpStep = 0 /\ counterClose = 0 /\ cur = 0
  /\ outBuf = [b \in {0, 1} |-> <<>>]
  /\ rest = <<>> /\ active = FALSE /\ serial = 0
  /\ link = "none" /\ toRig = <<>> /\ toGui = <<>>
  /\ data = <<>> /\ got = Nothing /\ asked = "param"
  /\ carried = FALSE /\ first = TRUE

Next ==
  \/ Cycle
  \/ Connect
  \/ \E c \in Commands : SendCommand(c)
  \/ ClientReceives
  \/ ClientLeaves

Spec == Init /\ [][Next]_vars

\* the PLC runs its cycle every 100 ms and its calls are not busy for ever; the
\* reader thread of the client runs, and closes what the server has closed
FairSpec ==
  /\ Spec
  /\ WF_vars(Progress)
  /\ WF_vars(ClientReceives)
  /\ WF_vars(ClientLeaves /\ link = "lost")

-----------------------------------------------------------------------------
UnitsOf(s) == s \X Positions

\* The types of the variables.
TypeOK ==
  /\ mainState \in {0, 1, 10, 11, 255} /\ tcpStep \in (0..4) \cup {255}
  /\ counterClose \in 0..(CloseWait + 1)
  /\ cur \in {0, 1}
  /\ outBuf \in [{0, 1} -> Seq(Frames)]
  /\ \A b \in {0, 1} : Len(outBuf[b]) <= BufFrames
  /\ rest \in Seq(UnitsOf(Frames))
  /\ active \in BOOLEAN /\ serial \in Frames
  /\ link \in {"none", "up", "half", "lost"}
  /\ toRig \in Seq(UnitsOf(Commands)) /\ toGui \in Seq(UnitsOf(Frames))
  /\ data \in Seq(UnitsOf(Frames)) /\ got \in Frames \cup {Garbage, Nothing}
  /\ asked \in Commands
  /\ carried \in BOOLEAN /\ first \in BOOLEAN

\* However sends are interrupted and however the bytes are cut up on their way,
\* the 81 byte chunks of the Receiver are frames of the rig, unless the
\* connection began while an interrupted send of the one before was pending.
ChunksAreFrames == ~carried => got # Garbage

\* Swapping the two halves of outBuffer loses, repeats and reorders nothing: in
\* the first connection the client gets the queued frames one by one.
InOrder ==
  [][first /\ got' # got /\ got' # Nothing
       => got' = (IF got = Nothing THEN 1 ELSE got + 1) % Serials]_vars

\* The server and its first client implement SampleQueue: from the cycle that
\* queues them to the chunk that is handed on, the samples are a queue, whatever
\* part of it is in a half of outBuffer, left by an interrupted send, on the wire
\* or kept by the Receiver.
Undelivered ==
  LET s == data \o (toGui \o (Pending \o Units(outBuf[1 - cur]))) IN
    [i \in 1..(Len(s) \div FrameLen) |-> s[FrameLen * (i - 1) + 1][1]]
Last == IF got = Nothing THEN 0 ELSE got
FirstOpen == first /\ link # "lost"
Samples == INSTANCE SampleQueue WITH
             open <- FirstOpen,
             queue <- IF FirstOpen THEN Undelivered ELSE <<>>,
             serial <- IF FirstOpen THEN serial ELSE 0,
             received <- IF FirstOpen THEN Last ELSE 0
ImplementsQueue == Samples!Spec

\* When the rig has read all commands, its experiment is active exactly if the
\* last one that concerns the activation was a start or a heartbeat.
RigAgrees ==
  link = "up" /\ toRig = <<>> /\ asked # "param" => active = (asked # "stop")

\* The buffers of the server hold what they have room for, whole frames only; the
\* chunks of a client are frames, and the rig does what it was told last.
ServerInv == TypeOK /\ ChunksAreFrames /\ RigAgrees

\* A server whose client has left waits for a client again, unless the sockets
\* could not be closed or opened: what it was sending, receiving or counting
\* does not keep it from that.
Relistens ==
  (mainState = 1 /\ link = "half") ~> (Ended \/ (mainState = 0 /\ tcpStep = 3))

\* A Stop reaches the experiment, also while the rig is busy sending, unless the
\* connection or the server ends first.
StopObeyed ==
  (link = "up" /\ asked = "stop") ~> (~active \/ asked # "stop" \/ Ended)

-----------------------------------------------------------------------------
(* What a comment or a guide says and the code does not keep.              *)

\* The docstring of Receiver without the exception: "receive 81 byte chunks ->
\* (1 id + 80 payload)".  A remainder of the last connection refutes it.
EveryChunkIsFrame == got # Garbage
=============================================================================
