------------------------- MODULE SessionCasesProofs -------------------------
(***************************************************************************)
(* Theorems about the sessions for which more is true: with one            *)
(* connection, or with links that accept every connect and every write, no *)
(* slot raises an exception, and without faults of the links and the rigs  *)
(* every rig follows the experiment.  What the program promises of the     *)
(* other sessions is proved in SessionRunProofs.                           *)
(***************************************************************************)
EXTENDS SessionRunProofs

-----------------------------------------------------------------------------
(* The order of the steps on a call stack.                                 *)

\* no step a comes after one of the steps bs
NoneAfter(s, a, bs) ==
  \A i \in 1..Len(s) : \A j \in 1..(i - 1) : s[j].do \in bs => s[i].do # a

LEMMA NoneAfterNone ==
  ASSUME NEW s \in Seq(Step), NEW a, NEW bs, a \notin Names(s) \/ Names(s) \cap bs = {}
  PROVE  NoneAfter(s, a, bs)
<1>1. Len(s) \in Nat
  BY LenProperties
<1> DEFINE n == Len(s)
<1>2. CASE a \notin Names(s)
  BY <1>2 DEF NoneAfter, Names
<1>3. CASE Names(s) \cap bs = {}
  <2>1. \A j \in 1..n : s[j].do \notin bs
    BY <1>3 DEF Names
  <2>2. n \in Nat
    BY <1>1
  <2> HIDE DEF n
  <2>3. \A i \in 1..n : \A j \in 1..(i - 1) : j \in 1..n
    BY <2>2
  <2> QED
    BY <2>1, <2>3 DEF NoneAfter, n
<1> QED
  BY <1>2, <1>3

LEMMA NoneAfterPop ==
  ASSUME NEW s \in Seq(Step), s # <<>>, NEW a, NEW bs, NoneAfter(s, a, bs)
  PROVE  /\ NoneAfter(Tail(s), a, bs)
         /\ Head(s).do \in bs => a \notin Names(Tail(s))
<1>1. /\ Len(s) \in Nat \ {0}
      /\ Len(Tail(s)) = Len(s) - 1
      /\ \A i \in 1 .. Len(Tail(s)) : Tail(s)[i] = s[i+1]
      /\ Head(s) = s[1]
  BY HeadTailProperties, EmptySeq
<1> DEFINE t == Tail(s)
           n == Len(s)
<1>2. /\ n \in Nat \ {0} /\ Len(t) = n - 1 /\ \A i \in 1..(n - 1) : t[i] = s[i + 1]
  BY <1>1
<1>3. \A i \in 1..n : \A j \in 1..(i - 1) : s[j].do \in bs => s[i].do # a
  BY DEF NoneAfter
<1> HIDE DEF t, n
<1>4. ASSUME NEW i \in 1..(n - 1), NEW j \in 1..(i - 1), t[j].do \in bs PROVE t[i].do # a
  <2>1. /\ i + 1 \in 1..n /\ j + 1 \in 1..((i + 1) - 1) /\ j \in 1..(n - 1)
    BY <1>2
  <2>2. t[i] = s[i + 1] /\ t[j] = s[j + 1]
    BY <1>2, <2>1
  <2> QED
    BY <1>3, <1>4, <2>1, <2>2
<1>5. ASSUME s[1].do \in bs, NEW i \in 1..(n - 1) PROVE t[i].do # a
  <2>1. i + 1 \in 1..n /\ 1 \in 1..((i + 1) - 1)
    BY <1>2
  <2> QED
    BY <1>2, <1>3, <1>5, <2>1
<1>6. NoneAfter(t, a, bs)
  BY <1>2, <1>4 DEF NoneAfter
<1>7. s[1].do \in bs => a \notin Names(t)
  BY <1>2, <1>5 DEF Names
<1> QED
  BY <1>1, <1>6, <1>7 DEF t

LEMMA NoneAfterPush ==
  ASSUME NEW s \in Seq(Step), NEW t \in Seq(Step), NEW a, NEW bs,
         NoneAfter(s, a, bs), NoneAfter(t, a, bs),
         Names(s) \cap bs = {} \/ a \notin Names(t)
  PROVE  NoneAfter(s \o t, a, bs)
<1>1. /\ Len(s) \in Nat /\ Len(t) \in Nat
      /\ Len(s \o t) = Len(s) + Len(t)
      /\ \A i \in 1 .. Len(s) + Len(t) :
           (s \o t)[i] = IF i <= Len(s) THEN s[i] ELSE t[i - Len(s)]
  BY ConcatProperties, LenProperties
<1> DEFINE u == s \o t
           m == Len(s)
           n == Len(t)
<1>2. /\ m \in Nat /\ n \in Nat /\ Len(u) = m + n
      /\ \A i \in 1..(m + n) : u[i] = IF i <= m THEN s[i] ELSE t[i - m]
  BY <1>1
<1>3. /\ \A i \in 1..m : \A j \in 1..(i - 1) : s[j].do \in bs => s[i].do # a
      /\ \A i \in 1..n : \A j \in 1..(i - 1) : t[j].do \in bs => t[i].do # a
  BY DEF NoneAfter
<1>4. (\A j \in 1..m : s[j].do \notin bs) \/ (\A i \in 1..n : t[i].do # a)
  BY DEF Names
<1> HIDE DEF u, m, n
<1>5. ASSUME NEW i \in 1..(m + n), NEW j \in 1..(i - 1), u[j].do \in bs PROVE u[i].do # a
  <2>1. j \in 1..(m + n)
    BY <1>2
  <2>2. CASE i <= m
    <3>1. i \in 1..m /\ j <= m /\ u[i] = s[i] /\ u[j] = s[j]
      BY <1>2, <2>1, <2>2
    <3> QED
      BY <1>3, <1>5, <3>1
  <2>3. CASE ~(i <= m) /\ j <= m
    <3>1. i - m \in 1..n /\ j \in 1..m /\ u[i] = t[i - m] /\ u[j] = s[j]
      BY <1>2, <2>1, <2>3
    <3> QED
      BY <1>4, <1>5, <3>1
  <2>4. CASE ~(i <= m) /\ ~(j <= m)
    <3>1. /\ i - m \in 1..n /\ j - m \in 1..((i - m) - 1)
          /\ u[i] = t[i - m] /\ u[j] = t[j - m]
      BY <1>2, <2>1, <2>4
    <3> QED
      BY <1>3, <1>5, <3>1
  <2> QED
    BY <2>2, <2>3, <2>4
<1>6. NoneAfter(u, a, bs)
  BY <1>2, <1>5 DEF NoneAfter
<1> QED
  BY <1>6 DEF u

-----------------------------------------------------------------------------
(* What is written to whom.                                                *)

\* every write of s goes to a connection, with one of the messages ms
Carries(s, ms) ==
  \A x \in Elems(s) : x.do = "write" => x.to \in Conns /\ x.msg \in ms

\* s writes the message m to the connection c
Sends(s, c, m) == \E x \in Elems(s) : x.do = "write" /\ x.to = c /\ x.msg = m

LEMMA CarriesQuiet ==
  ASSUME NEW s, "write" \notin Names(s)
  PROVE  \A ms : Carries(s, ms)
BY ElemsNames DEF Carries

LEMMA CarriesConcat ==
  ASSUME NEW s \in Seq(Step), NEW t \in Seq(Step)
  PROVE  /\ \A ms : Carries(s, ms) /\ Carries(t, ms) => Carries(s \o t, ms)
         /\ \A c, m : Sends(s \o t, c, m) <=> Sends(s, c, m) \/ Sends(t, c, m)
<1>1. Elems(s \o t) = Elems(s) \cup Elems(t)
  BY ElemsConcat
<1> QED
  BY <1>1 DEF Carries, Sends

LEMMA CarriesPop ==
  ASSUME NEW s \in Seq(Step), s # <<>>
  PROVE  /\ \A ms : Carries(s, ms) => Carries(Tail(s), ms)
         /\ \A c, m : Sends(s, c, m) => \/ Sends(Tail(s), c, m)
                                        \/ /\ Head(s).do = "write"
                                           /\ Head(s).to = c /\ Head(s).msg = m
<1>1. Elems(s) = {Head(s)} \cup Elems(Tail(s))
  BY ElemsPop
<1> QED
  BY <1>1 DEF Carries, Sends

LEMMA ParamsCarry == \A e \in Exps : \A ms : Carries(Params(e, ms), {"param"})
<1> SUFFICES ASSUME NEW e \in Exps, NEW ms, NEW x \in Elems(Params(e, ms)), x.do = "write"
             PROVE  x.to \in Conns /\ x.msg = "param"
  BY DEF Carries
<1>1. /\ Len(ModulesOf[e]) \in Nat
      /\ \A i \in 1..Len(ModulesOf[e]) : ModulesOf[e][i] \in Mods
      /\ DOMAIN Params(e, ms) = 1..Len(ModulesOf[e])
      /\ Params(e, ms) \in Seq(Step)
  BY ModuleIndex, ParamsType DEF Params
<1>2. Len(Params(e, ms)) = Len(ModulesOf[e])
  BY <1>1, LenProperties
<1>3. PICK i \in 1..Len(ModulesOf[e]) : x = Params(e, ms)[i]
  BY <1>2 DEF Elems
<1>4. x = Write(ConnOf[ModulesOf[e][i]], "param")
  <2>1. Do("keep").do = "keep"
    BY DEF Do
  <2>2. Params(e, ms)[i] = IF ModulesOf[e][i] \in ms
                           THEN Write(ConnOf[ModulesOf[e][i]], "param") ELSE Do("keep")
    BY <1>3 DEF Params
  <2> QED
    BY <1>3, <2>1, <2>2
<1>5. ConnOf[ModulesOf[e][i]] \in Conns
  BY <1>1, ModuleAssumption
<1> QED
  BY <1>4, <1>5 DEF Write

LEMMA BroadcastCarries ==
  ASSUME NEW m
  PROVE  /\ Carries(Broadcast(m), {m})
         /\ \A c \in Conns : Sends(Broadcast(m), c, m)
<1>1. /\ Len(ConnSeq) \in Nat
      /\ Broadcast(m) = [i \in 1..Len(ConnSeq) |-> Write(ConnSeq[i], m)]
  BY ConnSeqAssumption DEF Broadcast
<1>2. Len(Broadcast(m)) = Len(ConnSeq)
  BY <1>1
<1>3. ASSUME NEW i \in 1..Len(ConnSeq)
      PROVE  /\ Broadcast(m)[i].do = "write" /\ Broadcast(m)[i].to = ConnSeq[i]
             /\ Broadcast(m)[i].msg = m
  <2>1. Broadcast(m)[i] = Write(ConnSeq[i], m)
    BY <1>1
  <2> QED
    BY <2>1 DEF Write
<1> QED
  BY <1>2, <1>3 DEF Carries, Sends, Elems, Conns

\* a running experiment that is stopped sends its last parameters and a stop
LEMMA StopCarries ==
  ASSUME TypeOK
  PROVE  /\ Carries(StopSteps, {"param", "stop"})
         /\ running => \A c \in Conns : Sends(StopSteps, c, "stop")
         /\ ~running => Names(StopSteps) = {"clockOff"}
<1> DEFINE p == Params(exp, Mods)
           b == Broadcast("stop")
           e == <<Do("save"), Do("clockOff")>>
<1>1. /\ p \in Seq(Step) /\ b \in Seq(Step) /\ e \in Seq(Step)
      /\ Names(e) = {"save", "clockOff"} /\ Names(<<Do("clockOff")>>) = {"clockOff"}
  <2>1. e \in Seq(Step)
    BY FixedType DEF StepNames
  <2> QED
    BY <2>1, NamesFixed, ParamsType, BroadcastType DEF TypeOK, ExperimentType, Messages
<1>2. /\ Carries(p, {"param", "stop"}) /\ Carries(b, {"param", "stop"})
      /\ Carries(e, {"param", "stop"}) /\ Carries(<<Do("clockOff")>>, {"param", "stop"})
      /\ \A c \in Conns : Sends(b, c, "stop")
  <2>1. Carries(p, {"param"}) /\ Carries(b, {"stop"}) /\ \A c \in Conns : Sends(b, c, "stop")
    BY ParamsCarry, BroadcastCarries DEF TypeOK, ExperimentType
  <2>2. Carries(e, {"param", "stop"}) /\ Carries(<<Do("clockOff")>>, {"param", "stop"})
    BY <1>1, CarriesQuiet
  <2> HIDE DEF p, b, e
  <2> QED
    BY <2>1, <2>2 DEF Carries
<1>3. StopSteps = IF running THEN (p \o b) \o e ELSE <<Do("clockOff")>>
  BY DEF StopSteps
<1> HIDE DEF p, b, e
<1>4. /\ p \o b \in Seq(Step) /\ Carries(p \o b, {"param", "stop"})
      /\ \A c \in Conns : Sends(p \o b, c, "stop")
  BY <1>1, <1>2, ConcatType, CarriesConcat
<1>5. /\ Carries((p \o b) \o e, {"param", "stop"})
      /\ \A c \in Conns : Sends((p \o b) \o e, c, "stop")
  BY <1>1, <1>2, <1>4, CarriesConcat
<1>6. CASE running
  <2>1. StopSteps = (p \o b) \o e
    BY <1>3, <1>6
  <2> QED
    BY <2>1, <1>5, <1>6
<1>7. CASE ~running
  <2>1. StopSteps = <<Do("clockOff")>>
    BY <1>3, <1>7
  <2> QED
    BY <2>1, <1>1, <1>2, <1>7
<1> QED
  BY <1>6, <1>7

LEMMA StartParamsCarry == \A e \in Exps : Carries(StartParams(e), {"param"})
<1> SUFFICES ASSUME NEW e \in Exps, NEW x \in Elems(StartParams(e)), x.do = "write"
             PROVE  x.to \in Conns /\ x.msg \in {"param"}
  BY DEF Carries
<1>1. /\ 2 * Len(ModulesOf[e]) \in Nat
      /\ DOMAIN StartParams(e) = 1..(2 * Len(ModulesOf[e]))
      /\ StartParams(e) \in Seq(Step)
  BY ModuleIndex, StartParamsType DEF StartParams
<1>2. Len(StartParams(e)) = 2 * Len(ModulesOf[e])
  BY <1>1, LenProperties
<1>3. PICK i \in 1..(2 * Len(ModulesOf[e])) : x = StartParams(e)[i]
  BY <1>2 DEF Elems
<1>4. ConnOf[ModulesOf[e][(i + 1) \div 2]] \in Conns
  BY StartIndex, ModuleIndex, ModuleAssumption
<1>5. x = Write(ConnOf[ModulesOf[e][(i + 1) \div 2]], "param")
  BY <1>3 DEF StartParams
<1> QED
  BY <1>4, <1>5 DEF Write

\* a start sends the parameters of every module, and then activates every rig
LEMMA StartCarries ==
  ASSUME NEW e \in Exps
  PROVE  LET start == StartParams(e) \o Broadcast("start") \o <<Do("clockOn")>>
         IN  /\ Carries(start, {"param", "start"})
             /\ \A c \in Conns : Sends(start, c, "start")
<1> DEFINE p == StartParams(e)
           b == Broadcast("start")
           z == <<Do("clockOn")>>
           ms == {"param", "start"}
<1>1. p \in Seq(Step) /\ b \in Seq(Step) /\ z \in Seq(Step) /\ Names(z) = {"clockOn"}
  <2>1. z \in Seq(Step)
    BY FixedType DEF StepNames
  <2> QED
    BY <2>1, StartParamsType, BroadcastType, NamesFixed DEF Messages
<1>2. /\ Carries(p, ms) /\ Carries(b, ms) /\ Carries(z, ms)
      /\ \A c \in Conns : Sends(b, c, "start")
  <2>1. Carries(p, {"param"}) /\ Carries(b, {"start"}) /\ \A c \in Conns : Sends(b, c, "start")
    BY StartParamsCarry, BroadcastCarries
  <2>2. Carries(z, ms)
    BY <1>1, CarriesQuiet
  <2> HIDE DEF p, b, z
  <2> QED
    BY <2>1, <2>2 DEF Carries
<1> HIDE DEF p, b, z, ms
<1>3. /\ p \o b \in Seq(Step) /\ Carries(p \o b, ms)
      /\ \A c \in Conns : Sends(p \o b, c, "start")
  BY <1>1, <1>2, ConcatType, CarriesConcat
<1>4. /\ Carries((p \o b) \o z, ms)
      /\ \A c \in Conns : Sends((p \o b) \o z, c, "start")
  BY <1>1, <1>2, <1>3, CarriesConcat
<1> QED
  BY <1>4 DEF p, b, z, ms

-----------------------------------------------------------------------------
(* What the event loop pushes on the empty stack.                          *)

LEMMA EventPushes ==
  ASSUME TypeOK, User \/ HeartbeatTick \/ HandleEvent
  PROVE  /\ todo = <<>> /\ Due = {}
         /\ \/ UserConnect
            \/ UserStop
            \/ HeartbeatTick
            \/ /\ UserStart /\ running' = TRUE
               /\ todo' = StartParams(exp) \o Broadcast("start") \o <<Do("clockOn")>>
            \/ /\ UserSendParameter \/ UserSendChangedParameter
               /\ \E ms : todo' = Params(exp, ms)
            \/ Due' \subseteq {"finished", "exit", "save", "halt", "clockOn"}
<1> USE DEF buttons, flags, experiment, record, threads, io, rigs
<1>1. todo = <<>> /\ Due = {}
  <2>1. todo = <<>>
    BY DEF User, Idle, UserConnect, UserDisconnect, UserStart, UserStop,
           UserSendParameter, UserSendChangedParameter, UserClose,
           UserApplyExperiment, UserLoadLastMeas, HandleEvent, HeartbeatTick,
           HandleError, HandleMissedBeat, HandleData
  <2> QED
    BY <2>1, NamesFixed DEF Due
<1> DEFINE quiet == {"finished", "exit", "save", "halt", "clockOn"}
<1>2. /\ Names(<<Do("finished")>>) = {"finished"}
      /\ Names(<<Do("finished"), Do("finished")>>) = {"finished"}
      /\ Names(<<Do("save"), Do("halt"), Do("clockOn")>>) = {"save", "halt", "clockOn"}
  BY NamesFixed
<1>3. /\ Names(<<Do("finished")>> \o <<Do("exit")>>) = {"finished", "exit"}
      /\ Names(<<>> \o <<Do("exit")>>) = {"exit"}
      /\ Names(<<Do("save")>> \o <<Do("finished")>>) = {"save", "finished"}
      /\ Names(<<>> \o <<Do("finished")>>) = {"finished"}
  BY NamesPairs DEF StepNames
<1>4. CASE UserDisconnect \/ HandleError
  <2>1. \/ todo' = <<Do("finished")>>
        \/ todo' = <<Do("finished"), Do("finished")>>
    BY Zenon, <1>4 DEF UserDisconnect, HandleError
  <2>2. Due' \subseteq quiet
    BY <1>2, <2>1 DEF Due
  <2> QED
    BY <1>1, <2>2
<1>5. CASE UserStart
  <2>1. \/ UNCHANGED todo
        \/ /\ running' = TRUE
           /\ todo' = StartParams(exp) \o Broadcast("start") \o <<Do("clockOn")>>
        \/ todo' = <<Do("save"), Do("halt"), Do("clockOn")>>
    BY <1>5, Zenon DEF UserStart
  <2>2. CASE UNCHANGED todo \/ todo' = <<Do("save"), Do("halt"), Do("clockOn")>>
    <3>1. Due' \subseteq quiet
      BY <1>1, <1>2, <2>2 DEF Due
    <3> QED
      BY <1>1, <3>1
  <2> QED
    BY <1>1, <1>5, <2>1, <2>2
<1>6. CASE UserSendParameter \/ UserSendChangedParameter
  <2>1. \/ UNCHANGED todo
        \/ \E ms : todo' = Params(exp, ms)
    BY <1>6 DEF UserSendParameter, UserSendChangedParameter, Crash
  <2>2. UNCHANGED todo => Due' \subseteq quiet
    BY <1>1 DEF Due
  <2> QED
    BY <1>1, <1>6, <2>1, <2>2
<1>7. CASE UserClose
  <2>1. \/ todo' = <<Do("finished")>> \o <<Do("exit")>>
        \/ todo' = <<>> \o <<Do("exit")>>
    BY <1>7 DEF UserClose
  <2>2. Due' \subseteq quiet
    BY <1>3, <2>1 DEF Due
  <2> QED
    BY <1>1, <2>2
<1>8. CASE \/ HandleData
           \/ \E e \in Exps : UserApplyExperiment(e) \/ UserLoadLastMeas(e)
  <2>1. UNCHANGED todo
    BY <1>8 DEF UserApplyExperiment, UserLoadLastMeas, HandleData
  <2>2. Due' \subseteq quiet
    BY <1>1, <2>1 DEF Due
  <2> QED
    BY <1>1, <2>2
<1>9. CASE HandleMissedBeat
  <2>1. \/ todo' = <<Do("save")>> \o <<Do("finished")>>
        \/ todo' = <<>> \o <<Do("finished")>>
    BY <1>9 DEF HandleMissedBeat
  <2>2. Due' \subseteq quiet
    BY <1>3, <2>1 DEF Due
  <2> QED
    BY <1>1, <2>2
<1> QED
  BY <1>1, <1>4, <1>5, <1>6, <1>7, <1>8, <1>9 DEF User, HandleEvent

\* the same by the names of the steps: only MainGui.connect pushes "connect", and
\* no handler that writes pushes anything that closes a connection
LEMMA EventNames ==
  ASSUME TypeOK, User \/ HeartbeatTick \/ HandleEvent
  PROVE  \/ UserConnect /\ Due' \subseteq {"connect"}
         \/ Due' \subseteq {"write", "keep", "save", "clockOff", "clockOn"}
         \/ Due' \subseteq {"finished", "exit", "save", "halt", "clockOn"}
<1>1. CASE UserConnect
  BY <1>1, NamesForEach DEF UserConnect, Due
<1>2. CASE UserStop
  <2>1. todo' = StopSteps \o <<>>
    BY <1>2 DEF UserStop, StopExperiment
  <2>2. Names(StopSteps \o <<>>) = Names(StopSteps) \cup Names(<<>>)
    BY StopStepsPush, FixedType, NamesConcat
  <2> QED
    BY <2>1, <2>2, StopStepsPush, NamesFixed DEF Due
<1>3. CASE HeartbeatTick
  BY <1>3, NamesBroadcast DEF HeartbeatTick, Due
<1>4. CASE todo' = StartParams(exp) \o Broadcast("start") \o <<Do("clockOn")>>
  BY <1>4, StartStepsPush DEF TypeOK, ExperimentType, Due
<1>5. CASE \E ms : todo' = Params(exp, ms)
  BY <1>5, NamesParams DEF TypeOK, ExperimentType, Due
<1> QED
  BY <1>1, <1>2, <1>3, <1>4, <1>5, EventPushes

\* a step of a handler pushes none of the steps a handler starts with
LEMMA StepPushes ==
  ASSUME TypeOK, GuiStep
  PROVE  Due' \subseteq Due \cup {"write", "keep", "save", "clockOff", "finished",
                                  "close", "forget", "reset"}
<1> DEFINE tail == Names(Tail(todo))
           new == {"write", "keep", "save", "clockOff", "finished", "close", "forget", "reset"}
<1>1. todo # <<>> /\ todo \in Seq(Step)
  BY DEF GuiStep, Next1, ConnectSucceeds, ConnectFails, KeepParam, Finished, CloseOne,
         Forget, WriteMissing, WriteStale, WriteDelivered, WriteLost, WriteTimeout,
         WriteFails, ResetButtons, Halt, SaveLastMeas, ClockOff, ClockOn, Exit,
         TypeOK, StackType
<1>2. /\ Tail(todo) \in Seq(Step) /\ tail \subseteq Due /\ Head(todo).to \in Optional
  <2>1. Head(todo) \in Step
    BY <1>1, PopType
  <2> QED
    BY <1>1, <2>1, Stack DEF Step
<1>3. CASE \/ UNCHANGED todo \/ todo' = <<>> \/ todo' = Tail(todo)
  BY <1>2, <1>3, NamesFixed DEF Due
<1>4. CASE WriteFails
  <2>1. todo' = <<Do("finished")>> \o Tail(todo)
    BY <1>4 DEF WriteFails
  <2>2. <<Do("finished")>> \in Seq(Step)
    BY FixedType DEF StepNames
  <2>3. Due' = Names(<<Do("finished")>>) \cup tail
    BY <1>2, <2>1, <2>2, NamesConcat DEF Due
  <2> QED
    BY <1>2, <2>3, NamesFixed
<1>5. ASSUME NEW rest \in Seq(Step), StopExperiment(rest), Names(rest) \subseteq Due \cup new
      PROVE  Due' \subseteq Due \cup new
  <2>1. todo' = StopSteps \o rest
    BY <1>5 DEF StopExperiment
  <2>2. Due' = Names(StopSteps) \cup Names(rest)
    BY <1>5, <2>1, StopStepsPush, NamesConcat DEF Due
  <2> QED
    BY <1>5, <2>2, StopStepsPush
<1>6. CASE Halt
  BY <1>2, <1>5, <1>6 DEF Halt
<1>7. CASE Finished
  <2> DEFINE closing == ForEach("close") \o <<Do("reset")>>
             rest == closing \o Tail(todo)
  <2>1. StopExperiment(rest) \/ todo' = rest
    BY <1>7 DEF Finished
  <2>2. rest \in Seq(Step) /\ Names(rest) \subseteq {"close", "reset"} \cup tail
    BY <1>2, ClosingPush
  <2> HIDE DEF rest
  <2>3. Names(rest) \subseteq Due \cup new
    BY <1>2, <2>2
  <2>4. todo' = rest => Due' = Names(rest)
    BY DEF Due
  <2> QED
    BY <1>5, <2>1, <2>2, <2>3, <2>4
<1>8. CASE CloseOne
  <2>1. \/ todo' = Tail(todo)
        \/ todo' = <<Do("finished"), At("forget", Head(todo).to)>> \o Tail(todo)
    BY <1>8 DEF CloseOne
  <2>2. <<Do("finished"), At("forget", Head(todo).to)>> \in Seq(Step)
    BY <1>2 DEF Do, At, Step, StepNames, Optional, Messages
  <2>3. Names(<<Do("finished"), At("forget", Head(todo).to)>> \o Tail(todo))
          = Names(<<Do("finished"), At("forget", Head(todo).to)>>) \cup tail
    BY <1>2, <2>2, NamesConcat
  <2>4. Names(<<Do("finished"), At("forget", Head(todo).to)>>) = {"finished", "forget"}
    BY NamesFixed
  <2>5. todo' = Tail(todo) => Due' \subseteq Due
    BY <1>2 DEF Due
  <2>6. todo' = <<Do("finished"), At("forget", Head(todo).to)>> \o Tail(todo)
          => Due' = {"finished", "forget"} \cup tail
    BY <2>3, <2>4 DEF Due
  <2> QED
    BY <1>2, <2>1, <2>5, <2>6
<1>9. \/ WriteFails \/ Halt \/ Finished \/ CloseOne
      \/ UNCHANGED todo \/ todo' = <<>> \/ todo' = Tail(todo)
  BY DEF GuiStep, ConnectSucceeds, ConnectFails, KeepParam, Forget, WriteMissing, WriteStale,
         WriteDelivered, WriteLost, WriteTimeout, ResetButtons, SaveLastMeas,
         ClockOff, ClockOn, Exit, Crash
<1> QED
  BY <1>3, <1>4, <1>6, <1>7, <1>8, <1>9

-----------------------------------------------------------------------------
(* Connect and isConnected.                                                *)

\* Parameters can be sent only while Stop is enabled, and Connect is the opposite
\* of isConnected.  The second needs that MainGui.connect never stops half way: a
\* refused connection behind an accepted one leaves both off.
ToggleInv ==
  /\ sendOn => stopOn
  /\ connOn <=> ~isConnected
  /\ Len(ConnSeq) = 1 /\ "connect" \in Due => connOn /\ Tail(todo) = <<>>

ToggleState == <<connOn, isConnected, stopOn, sendOn>>

LEMMA ToggleEvent ==
  ASSUME TypeOK, ToggleInv, User \/ HeartbeatTick \/ HandleEvent
  PROVE  ToggleInv'
<1> USE DEF buttons, flags, experiment, record, threads, io, rigs
<1>1. CASE UserConnect
  <2>1. todo' = ForEach("connect") /\ connOn /\ UNCHANGED ToggleState
    BY <1>1 DEF UserConnect, ToggleState
  <2>2. Len(ConnSeq) = 1 => Tail(todo') = <<>>
    <3>1. ForEach("connect") = [i \in 1..Len(ConnSeq) |-> At("connect", ConnSeq[i])]
      BY DEF ForEach
    <3>2. Len(ConnSeq) = 1 => /\ ForEach("connect") \in Seq(Step)
                              /\ Len(ForEach("connect")) = 1
      BY <3>1, ForEachType DEF StepNames
    <3>3. Len(ConnSeq) = 1 => /\ Tail(ForEach("connect")) \in Seq(Step)
                              /\ Len(Tail(ForEach("connect"))) = 0
      BY <3>2, HeadTailProperties, EmptySeq
    <3>4. Len(ConnSeq) = 1 => Tail(ForEach("connect")) = <<>>
      BY <3>3, EmptySeq
    <3> QED
      BY <2>1, <3>4
  <2> QED
    BY <2>1, <2>2 DEF ToggleInv, ToggleState
<1>2. CASE ~UserConnect
  <2>1. "connect" \notin Due'
    BY <1>2, EventNames
  <2>2. \/ UNCHANGED ToggleState
        \/ UNCHANGED <<connOn, isConnected>> /\ stopOn' = TRUE
        \/ UNCHANGED <<connOn, isConnected>> /\ sendOn' = FALSE
    BY <1>2 DEF User, UserDisconnect, UserStart, UserStop, UserSendParameter,
           UserSendChangedParameter, UserClose, UserApplyExperiment, UserLoadLastMeas,
           HandleEvent, HeartbeatTick, HandleError, HandleMissedBeat, HandleData,
           StopExperiment, Crash, ToggleState
  <2> QED
    BY <2>1, <2>2 DEF ToggleInv, ToggleState
<1> QED
  BY <1>1, <1>2

LEMMA ToggleGuiStep ==
  ASSUME Len(ConnSeq) = 1 \/ "refuse" \notin Faults,
         TypeOK, TimerInv, LinksInv, ToggleInv, GuiStep
  PROVE  ToggleInv'
<1> USE DEF buttons, flags, experiment, record, threads, io, rigs
<1>1. CASE ConnectSucceeds \/ ConnectFails
  <2>1. /\ todo # <<>> /\ Head(todo).do = "connect" /\ UNCHANGED sendOn
        /\ todo' = Tail(todo) \/ todo' = <<>>
        /\ \/ connOn' = FALSE /\ isConnected' = TRUE /\ stopOn' = FALSE
           \/ /\ UNCHANGED <<connOn, stopOn>> /\ isConnected' = FALSE
              /\ "refuse" \in Faults /\ todo' = <<>>
    BY <1>1 DEF ConnectSucceeds, ConnectFails, Next1
  <2>2. "connect" \in Due /\ ~stopOn /\ ~sendOn
    BY <2>1, Stack DEF TimerInv, ToggleInv
  <2>3. Len(ConnSeq) = 1 => todo' = <<>> /\ Due' = {}
    BY <2>1, <2>2, NamesFixed DEF ToggleInv, Due
  <2>4. "refuse" \in Faults => Len(ConnSeq) = 1 /\ connOn
    BY <2>2 DEF ToggleInv
  <2> QED
    BY <2>1, <2>2, <2>3, <2>4 DEF ToggleInv
<1>2. CASE ~(ConnectSucceeds \/ ConnectFails)
  <2>1. "connect" \notin Due
    <3>1. todo # <<>> /\ Head(todo).do # "connect"
      BY <1>2 DEF GuiStep, Next1, KeepParam, Finished, CloseOne, Forget, WriteMissing,
           WriteStale, WriteDelivered, WriteLost, WriteTimeout, WriteFails,
           ResetButtons, Halt, SaveLastMeas, ClockOff, ClockOn, Exit
    <3>2. Head(todo).do \in Due
      BY <3>1, Stack
    <3> QED
      BY <3>1, <3>2 DEF LinksInv
  <2>2. "connect" \notin Due'
    BY <2>1, StepPushes
  <2>3. CASE ResetButtons
    <3>1. "reset" \in Due
      BY <2>3, Stack DEF ResetButtons, Next1
    <3> QED
      BY <2>2, <2>3, <3>1 DEF ResetButtons, TimerInv, ToggleInv
  <2>4. CASE ~ResetButtons
    <3>1. \/ UNCHANGED ToggleState
          \/ UNCHANGED <<connOn, isConnected>> /\ sendOn' = FALSE
      BY <1>2, <2>4 DEF GuiStep, KeepParam, Finished, CloseOne, Forget, WriteMissing,
           WriteStale, WriteDelivered, WriteLost, WriteTimeout, WriteFails, Halt,
           SaveLastMeas, ClockOff, ClockOn, Exit, StopExperiment, Crash, ToggleState
    <3> QED
      BY <2>2, <3>1 DEF ToggleInv, ToggleState
  <2> QED
    BY <2>3, <2>4
<1> QED
  BY <1>1, <1>2

\* what the reader threads, the links and the rigs leave alone
LEMMA ThreadsKeep ==
  ASSUME GhostEmits \/ \E c \in Conns : Reader(c) \/ Outside(c)
  PROVE  UNCHANGED <<app, todo, buttons, flags, experiment, record, bound, inst, sender>>
BY DEF GhostEmits, Reader, ReaderReceives, ReaderStops, ReaderFails, ReaderEmits,
       Outside, LinkResets, LinkEnds, RigSends, RigMissesBeat, io

THEOREM ToggleInvariant ==
  ASSUME Len(ConnSeq) = 1 \/ "refuse" \notin Faults
  PROVE  Spec => []ToggleInv
<1>1. Init => ToggleInv
  <2>1. Init => Due = {}
    BY NamesFixed DEF Init, Due
  <2> QED
    BY <2>1 DEF Init, ToggleInv
<1>2. TypeOK /\ TimerInv /\ LinksInv /\ ToggleInv /\ [Next]_vars => ToggleInv'
  <2>1. ToggleInv /\ UNCHANGED <<todo, buttons, flags>> => ToggleInv'
    BY DEF buttons, flags, ToggleInv, Due
  <2>2. UNCHANGED vars => UNCHANGED <<todo, buttons, flags>>
    BY DEF vars
  <2> QED
    BY <2>1, <2>2, ToggleEvent, ToggleGuiStep, ThreadsKeep DEF Next
<1> QED
  BY <1>1, <1>2, TypeCorrect, TimerInvariant, LinksInvariant, PTL DEF Spec

-----------------------------------------------------------------------------
(* The writes a handler pushes.                                            *)

\* the steps that take connections away, or lead to it
Closers == {"finished", "close", "forget", "reset"}

\* the commands that belong to a running experiment, or to one that is over
Allowed == IF running THEN {"param", "start", "beat"} ELSE {"param", "stop"}

LEMMA NoneAfterFewer ==
  ASSUME NEW s, NEW a, NEW bs, NEW cs, cs \subseteq bs, NoneAfter(s, a, bs)
  PROVE  NoneAfter(s, a, cs)
BY DEF NoneAfter

LEMMA EventOrder ==
  ASSUME TypeOK, TypeOK', User \/ HeartbeatTick \/ HandleEvent
  PROVE  NoneAfter(todo', "write", Closers)
<1>1. todo' \in Seq(Step)
  BY DEF TypeOK, StackType
<1>2. Names(todo') \cap Closers = {} \/ "write" \notin Names(todo')
  BY EventNames DEF Closers, Due
<1> QED
  BY <1>1, <1>2, NoneAfterNone

\* while anything can be started or stopped, every connection is open
LEMMA ButtonsOpen ==
  ASSUME TimerInv, LinksInv, ToggleInv, Due = {}, startOn \/ stopOn
  PROVE  AllOpen
BY DEF TimerInv, LinksInv, ToggleInv, Ending

LEMMA EventOpen ==
  ASSUME TypeOK, TimerInv, LinksInv, ToggleInv, User \/ HeartbeatTick \/ HandleEvent
  PROVE  /\ "write" \in Due' \/ running' => AllOpen
         /\ running => AllOpen
         /\ UNCHANGED inst \/ (HandleError /\ "write" \notin Due')
<1> USE DEF buttons, flags, experiment, record, threads, io, rigs
<1>1. Due = {}
  BY EventPushes
<1>2. running => AllOpen
  BY <1>1, ButtonsOpen DEF LinksInv
<1>3. running' => AllOpen
  <2>1. running' => running \/ startOn
    BY DEF User, UserConnect, UserDisconnect, UserStart, UserStop, UserSendParameter,
           UserSendChangedParameter, UserClose, UserApplyExperiment, UserLoadLastMeas,
           HandleEvent, HeartbeatTick, HandleError, HandleMissedBeat, HandleData,
           StopExperiment, Crash
  <2> QED
    BY <1>1, <1>2, <2>1, ButtonsOpen
<1>4. "write" \in Due' => AllOpen
  <2>1. CASE startOn \/ stopOn
    BY <1>1, <2>1, ButtonsOpen
  <2>2. CASE ~startOn /\ ~stopOn
    <3>1. ~UserStart /\ ~UserStop /\ ~UserSendParameter /\ ~UserSendChangedParameter
      BY <2>2 DEF UserStart, UserStop, UserSendParameter, UserSendChangedParameter, ToggleInv
    <3>2. ~HeartbeatTick
      BY <2>2 DEF HeartbeatTick, TimerInv
    <3>3. UserConnect => "write" \notin Due'
      BY NamesForEach DEF UserConnect, Due
    <3> QED
      BY <3>1, <3>2, <3>3, EventPushes
  <2> QED
    BY <2>1, <2>2
<1>5. UNCHANGED inst \/ HandleError
  BY DEF User, UserConnect, UserDisconnect, UserStart, UserStop, UserSendParameter,
         UserSendChangedParameter, UserClose, UserApplyExperiment, UserLoadLastMeas,
         HandleEvent, HeartbeatTick, HandleMissedBeat, HandleData, StopExperiment, Crash
<1>6. HandleError => "write" \notin Due'
  <2>1. HandleError => todo' = <<Do("finished"), Do("finished")>>
    BY DEF HandleError
  <2>2. HandleError => Due' = {"finished"}
    BY <2>1, NamesFixed DEF Due
  <2> QED
    BY <2>2
<1> QED
  BY <1>2, <1>3, <1>4, <1>5, <1>6

LEMMA EventCarries ==
  ASSUME TypeOK, TypeOK', TimerInv, User \/ HeartbeatTick \/ HandleEvent
  PROVE  Carries(todo', Allowed')
<1>1. CASE "write" \notin Due'
  BY <1>1, CarriesQuiet DEF Due
<1>2. CASE "write" \in Due'
  <2>1. CASE UserConnect
    BY <1>2, <2>1, NamesForEach DEF UserConnect, Due
  <2>2. CASE UserStop
    <3>1. todo' = StopSteps \o <<>> /\ running' = FALSE
      BY <2>2 DEF UserStop, StopExperiment
    <3>2. Carries(StopSteps, {"param", "stop"}) /\ Carries(<<>>, {"param", "stop"})
      <4>1. Carries(<<>>, {"param", "stop"})
        BY NamesFixed, CarriesQuiet
      <4> QED
        BY <4>1, StopCarries
    <3>3. Carries(StopSteps \o <<>>, {"param", "stop"})
      BY <3>2, StopStepsPush, FixedType, CarriesConcat
    <3> QED
      BY <3>1, <3>3 DEF Allowed
  <2>3. CASE HeartbeatTick
    <3>1. todo' = Broadcast("beat") /\ running' = running /\ "heart" \in timers /\ Due = {}
      BY <2>3, EventPushes DEF HeartbeatTick, experiment
    <3>2. running
      BY <3>1 DEF TimerInv
    <3>3. Carries(todo', {"beat"})
      BY <3>1, BroadcastCarries
    <3> QED
      BY <3>1, <3>2, <3>3 DEF Allowed, Carries
  <2>4. CASE /\ running' = TRUE
             /\ todo' = StartParams(exp) \o Broadcast("start") \o <<Do("clockOn")>>
    <3>1. Carries(todo', {"param", "start"})
      BY <2>4, StartCarries DEF TypeOK, ExperimentType
    <3> QED
      BY <2>4, <3>1 DEF Allowed, Carries
  <2>5. CASE \E ms : todo' = Params(exp, ms)
    <3>1. Carries(todo', {"param"})
      BY <2>5, ParamsCarry DEF TypeOK, ExperimentType
    <3> QED
      BY <3>1 DEF Allowed, Carries
  <2> QED
    BY <1>2, <2>1, <2>2, <2>3, <2>4, <2>5, EventPushes
<1> QED
  BY <1>1, <1>2

-----------------------------------------------------------------------------
(* Links and rigs that work, with connects and parameters refused or not.   *)

\* the faults that are over before anything has been sent
Refusals == {"refuse", "badparam"}

\* Nothing has failed: an open connection has a link, the pipelines and the
\* readers are alive, and all that is on its way is data.
CalmInv ==
  /\ \A c \in Conns : /\ inst[c] = "open" => link[c] = "up"
                      /\ link[c] \in {"closed", "up"}
                      /\ sender[c] = "alive"
                      /\ reader[c] # "fail"
                      /\ held[c] = "data"
                      /\ \A i \in 1..Len(out[c]) : out[c][i] = "data"
  /\ \A i \in 1..Len(inbox) : inbox[i].kind = "data"
  /\ \A g \in ghosts : g.kind = "data"

LEMMA CalmKept ==
  ASSUME CalmInv, UNCHANGED <<threads, io, out>>
  PROVE  CalmInv'
BY DEF CalmInv, threads, io

\* the signal at the head of the event queue is data
LEMMA CalmHead ==
  ASSUME TypeOK, CalmInv, inbox # <<>>
  PROVE  Head(inbox).kind = "data"
<1>1. Len(inbox) \in Nat \ {0} /\ Head(inbox) = inbox[1]
  BY HeadTailProperties, EmptySeq DEF TypeOK, ThreadsType
<1> QED
  BY <1>1 DEF CalmInv

LEMMA CalmEvent ==
  ASSUME TypeOK, CalmInv, User \/ HeartbeatTick \/ HandleEvent
  PROVE  CalmInv'
<1>1. ~HandleError /\ ~HandleMissedBeat
  BY CalmHead DEF HandleError, HandleMissedBeat
<1>2. CASE HandleData
  <2>1. inbox # <<>> /\ inbox' = Tail(inbox) /\ UNCHANGED <<reader, held, ghosts, io, rigs>>
    BY <1>2 DEF HandleData
  <2>2. /\ Len(inbox) \in Nat \ {0}
        /\ Len(Tail(inbox)) = Len(inbox) - 1
        /\ \A i \in 1 .. Len(Tail(inbox)) : Tail(inbox)[i] = inbox[i+1]
    BY <2>1, HeadTailProperties, EmptySeq DEF TypeOK, ThreadsType
  <2>3. \A i \in 1..Len(inbox') : inbox'[i].kind = "data"
    <3>1. \A i \in 1..Len(Tail(inbox)) : i + 1 \in 1..Len(inbox)
      BY <2>2
    <3> QED
      BY <2>1, <2>2, <3>1 DEF CalmInv
  <2> QED
    BY <2>1, <2>3 DEF CalmInv, io, rigs
<1>3. CASE UserConnect
  <2>1. /\ inbox' = [i \in 1..Len(inbox) |-> Retire(inbox[i])]
        /\ ghosts' = ghosts
             \cup {Retire(Live(held[c], c)) : c \in {d \in Conns : reader[d] = "emit"}}
             \cup {Retire(Live("err", c)) : c \in {d \in Conns : reader[d] = "fail"}}
        /\ reader' = [c \in Conns |-> "off"]
        /\ UNCHANGED <<held, io, rigs>>
    BY <1>3 DEF UserConnect
  <2>2. \A e \in Event : Retire(e).kind = e.kind
    BY DEF Retire, Event
  <2>3. \A i \in 1..Len(inbox') : inbox'[i].kind = "data"
    <3>1. Len(inbox) \in Nat /\ \A i \in 1..Len(inbox) : inbox[i] \in Event
      BY LenProperties, ElementOfSeq DEF TypeOK, ThreadsType
    <3>2. Len(inbox') = Len(inbox)
      BY <2>1, <3>1
    <3> QED
      BY <2>1, <2>2, <3>1, <3>2 DEF CalmInv
  <2>4. \A g \in ghosts' : g.kind = "data"
    <3>1. \A c \in Conns : reader[c] # "fail" /\ held[c] = "data"
      BY DEF CalmInv
    <3>2. \A c \in Conns : Retire(Live("data", c)).kind = "data"
      <4>1. \A c \in Conns : Live("data", c) \in Event /\ Live("data", c).kind = "data"
        BY LiveType DEF Live
      <4> QED
        BY <4>1, <2>2
    <3> QED
      BY <2>1, <3>1, <3>2 DEF CalmInv
  <2>5. \A c \in Conns : reader'[c] # "fail"
    BY <2>1
  <2> QED
    BY <2>1, <2>3, <2>4, <2>5 DEF CalmInv, io, rigs
<1>4. CASE ~HandleData /\ ~UserConnect
  <2>1. UNCHANGED <<threads, io, out>>
    BY <1>1, <1>4 DEF User, UserDisconnect, UserStart, UserStop, UserSendParameter,
           UserSendChangedParameter, UserClose, UserApplyExperiment, UserLoadLastMeas,
           HandleEvent, HeartbeatTick, Crash, rigs
  <2> QED
    BY <2>1, CalmKept
<1> QED
  BY <1>2, <1>3, <1>4

LEMMA CalmGuiStep ==
  ASSUME Faults \subseteq Refusals, TypeOK, CalmInv, GuiStep
  PROVE  CalmInv'
<1>1. CASE ConnectSucceeds
  <2> DEFINE c == Head(todo).to
  <2>1. /\ inst' = [inst EXCEPT ![c] = "open"] /\ link' = [link EXCEPT ![c] = "up"]
        /\ sender' = [sender EXCEPT ![c] = "alive"] /\ reader' = [reader EXCEPT ![c] = "recv"]
        /\ out' = [out EXCEPT ![c] = <<>>] /\ UNCHANGED <<held, inbox, ghosts>>
    BY <1>1 DEF ConnectSucceeds, NewInstance, LinkOpens, Connected
  <2>2. ASSUME NEW d \in Conns
        PROVE  /\ inst'[d] = "open" => link'[d] = "up"
               /\ link'[d] \in {"closed", "up"} /\ sender'[d] = "alive"
               /\ reader'[d] # "fail"
               /\ \A i \in 1..Len(out'[d]) : out'[d][i] = "data"
    <3>1. CASE d = c
      <4>1. out'[d] = <<>> /\ inst'[d] = "open" /\ link'[d] = "up"
            /\ sender'[d] = "alive" /\ reader'[d] = "recv"
        BY <2>1, <3>1 DEF TypeOK, IoType, ThreadsType, RigsType
      <4> QED
        BY <4>1
    <3>2. CASE d # c
      <4>1. /\ out'[d] = out[d] /\ inst'[d] = inst[d] /\ link'[d] = link[d]
            /\ sender'[d] = sender[d] /\ reader'[d] = reader[d]
        BY <2>1, <3>2 DEF TypeOK, IoType, ThreadsType, RigsType
      <4> QED
        BY <4>1 DEF CalmInv
    <3> QED
      BY <3>1, <3>2
  <2> QED
    BY <2>1, <2>2 DEF CalmInv
<1>2. ASSUME NEW c, CloseConnection(c), UNCHANGED <<threads, out>> PROVE CalmInv'
  <2>1. /\ inst' = [inst EXCEPT ![c] = "stale"] /\ link' = [link EXCEPT ![c] = "closed"]
        /\ UNCHANGED sender
    BY <1>2 DEF CloseConnection, LinkCloses
  <2>2. \A d \in Conns : /\ inst'[d] = "open" => link'[d] = "up"
                         /\ link'[d] \in {"closed", "up"}
    BY <2>1 DEF TypeOK, IoType, CalmInv
  <2> QED
    BY <1>2, <2>1, <2>2 DEF CalmInv, threads
<1>3. CASE WriteFails \/ CloseOne
  <2>1. /\ UNCHANGED <<threads, out>>
        /\ UNCHANGED io \/ \E c : CloseConnection(c)
    BY <1>3 DEF WriteFails, CloseOne, rigs
  <2> QED
    BY <1>2, <2>1, CalmKept
<1>4. CASE Forget
  <2>1. /\ inst' = [inst EXCEPT ![Head(todo).to] = "none"]
        /\ UNCHANGED <<threads, sender, link, out>>
    BY <1>4 DEF Forget, rigs
  <2>2. \A d \in Conns : inst'[d] = "open" => link'[d] = "up"
    BY <2>1 DEF TypeOK, IoType, CalmInv
  <2> QED
    BY <2>1, <2>2 DEF CalmInv, threads
<1>5. CASE WriteLost
  <2>1. /\ UNCHANGED <<threads, inst, sender, out>>
        /\ \/ UNCHANGED link
           \/ /\ link[Head(todo).to] = "eof"
              /\ link' = [link EXCEPT ![Head(todo).to] = "reset"]
    BY <1>5 DEF WriteLost, rigs
  <2>2. \A d \in Conns : link'[d] = link[d]
    BY <2>1 DEF TypeOK, IoType, CalmInv
  <2> QED
    BY <2>1, <2>2 DEF CalmInv, threads
<1>6. CASE \/ KeepParam \/ Finished \/ WriteMissing \/ WriteStale \/ WriteDelivered
           \/ ResetButtons \/ Halt \/ SaveLastMeas \/ ClockOff \/ ClockOn \/ Exit
  <2>1. UNCHANGED <<threads, io, out>>
    BY <1>6 DEF KeepParam, Finished, WriteMissing, WriteStale, WriteDelivered,
                ResetButtons, Halt, SaveLastMeas, ClockOff, ClockOn, Exit, Crash, rigs
  <2> QED
    BY <2>1, CalmKept
<1>7. ~WriteTimeout
  BY DEF WriteTimeout, Refusals
<1>8. CASE ConnectFails
  <2>1. UNCHANGED <<threads, inst, sender, link, out>>
    BY <1>8 DEF ConnectFails, rigs
  <2> QED
    BY <2>1 DEF CalmInv, threads
<1> QED
  BY <1>1, <1>3, <1>4, <1>5, <1>6, <1>7, <1>8 DEF GuiStep

LEMMA CalmThreads ==
  ASSUME Faults \subseteq Refusals, TypeOK, CalmInv,
         GhostEmits \/ \E c \in Conns : Reader(c) \/ Outside(c)
  PROVE  CalmInv'
<1>1. UNCHANGED <<inst, sender>>
  BY ThreadsKeep
<1>2. ASSUME NEW e, e.kind = "data", inbox' = Append(inbox, e)
      PROVE  \A i \in 1..Len(inbox') : inbox'[i].kind = "data"
  <2>1. Len(inbox) \in Nat
    BY LenProperties DEF TypeOK, ThreadsType
  <2>2. Len(inbox') = Len(inbox) + 1
        /\ \A i \in 1..Len(inbox') : inbox'[i] = IF i <= Len(inbox) THEN inbox[i] ELSE e
    BY <1>2, <2>1 DEF TypeOK, ThreadsType
  <2> QED
    BY <1>2, <2>1, <2>2 DEF CalmInv
<1>3. CASE GhostEmits
  <2>1. PICK g \in ghosts : inbox' = Append(inbox, g) /\ ghosts' = ghosts \ {g}
    BY <1>3 DEF GhostEmits
  <2>2. g.kind = "data" /\ UNCHANGED <<reader, held, link, out>>
    BY <1>3 DEF GhostEmits, CalmInv, io, rigs
  <2>3. \A i \in 1..Len(inbox') : inbox'[i].kind = "data"
    BY <1>2, <2>1, <2>2
  <2> QED
    BY <1>1, <2>1, <2>2, <2>3 DEF CalmInv
<1>4. ASSUME NEW c \in Conns, ReaderReceives(c) PROVE CalmInv'
  <2>1. /\ out[c] # <<>> /\ held' = [held EXCEPT ![c] = Head(out[c])]
        /\ out' = [out EXCEPT ![c] = Tail(out[c])] /\ reader' = [reader EXCEPT ![c] = "emit"]
        /\ UNCHANGED <<link, inbox, ghosts>>
    BY <1>4 DEF ReaderReceives, Receives, io
  <2>2. /\ out[c] \in Seq(RigFrames) /\ Len(out[c]) \in Nat \ {0}
        /\ Len(Tail(out[c])) = Len(out[c]) - 1
        /\ \A i \in 1 .. Len(Tail(out[c])) : Tail(out[c])[i] = out[c][i+1]
        /\ Head(out[c]) = out[c][1]
    BY <2>1, HeadTailProperties, EmptySeq DEF TypeOK, RigsType
  <2>3. \A i \in 1..Len(out[c]) : out[c][i] = "data"
    BY DEF CalmInv
  <2>4. /\ Head(out[c]) = "data"
        /\ \A i \in 1..Len(Tail(out[c])) : Tail(out[c])[i] = "data"
    BY <2>2, <2>3
  <2>5. ASSUME NEW d \in Conns
        PROVE  /\ reader'[d] # "fail" /\ held'[d] = "data"
               /\ \A i \in 1..Len(out'[d]) : out'[d][i] = "data"
    <3>1. CASE d = c
      <4>1. reader'[d] = "emit" /\ held'[d] = "data" /\ out'[d] = Tail(out[c])
        BY <2>1, <2>4, <3>1 DEF TypeOK, ThreadsType, RigsType
      <4> QED
        BY <4>1, <2>4
    <3>2. CASE d # c
      <4>1. reader'[d] = reader[d] /\ held'[d] = held[d] /\ out'[d] = out[d]
        BY <2>1, <3>2 DEF TypeOK, ThreadsType, RigsType
      <4> QED
        BY <4>1 DEF CalmInv
    <3> QED
      BY <3>1, <3>2
  <2>6. ASSUME NEW d \in Conns
        PROVE  /\ inst'[d] = "open" => link'[d] = "up"
               /\ link'[d] \in {"closed", "up"} /\ sender'[d] = "alive"
    <3>1. inst'[d] = inst[d] /\ link'[d] = link[d] /\ sender'[d] = sender[d]
      BY <1>1, <2>1
    <3> QED
      BY <3>1 DEF CalmInv
  <2>7. /\ \A i \in 1..Len(inbox') : inbox'[i].kind = "data"
        /\ \A g \in ghosts' : g.kind = "data"
    BY <2>1 DEF CalmInv
  <2> QED
    BY <2>5, <2>6, <2>7 DEF CalmInv
<1>5. ASSUME NEW c \in Conns, ReaderStops(c) PROVE CalmInv'
  <2>1. reader' = [reader EXCEPT ![c] = "off"] /\ UNCHANGED <<held, inbox, ghosts, link, out>>
    BY <1>5 DEF ReaderStops, io, rigs
  <2>2. \A d \in Conns : reader'[d] # "fail"
    BY <2>1 DEF TypeOK, ThreadsType, CalmInv
  <2> QED
    BY <1>1, <2>1, <2>2 DEF CalmInv
<1>6. ASSUME NEW c \in Conns PROVE ~ReaderFails(c)
  BY DEF ReaderFails, CalmInv
<1>7. ASSUME NEW c \in Conns, ReaderEmits(c) PROVE CalmInv'
  <2>1. held[c] = "data" /\ reader[c] # "fail" /\ UNCHANGED <<held, ghosts, link, out>>
    BY <1>7 DEF ReaderEmits, CalmInv, io, rigs
  <2>2. inbox' = Append(inbox, Live("data", c)) /\ reader' = [reader EXCEPT ![c] = "recv"]
    BY <1>7, <2>1 DEF ReaderEmits
  <2>3. Live("data", c).kind = "data"
    BY DEF Live
  <2>4. \A i \in 1..Len(inbox') : inbox'[i].kind = "data"
    BY <1>2, <2>2, <2>3
  <2>5. \A d \in Conns : reader'[d] # "fail"
    BY <2>2 DEF TypeOK, ThreadsType, CalmInv
  <2> QED
    BY <1>1, <2>1, <2>4, <2>5 DEF CalmInv
<1>8. ASSUME NEW c \in Conns PROVE ~LinkResets(c) /\ ~LinkEnds(c) /\ ~RigMissesBeat(c)
  BY DEF LinkResets, LinkEnds, RigMissesBeat, Refusals
<1>9. ASSUME NEW c \in Conns, RigSends(c) PROVE CalmInv'
  <2>1. out' = [out EXCEPT ![c] = Append(out[c], "data")] /\ UNCHANGED <<threads, link>>
    BY <1>9 DEF RigSends, io
  <2>2. out[c] \in Seq(RigFrames) /\ Len(out[c]) \in Nat
    BY LenProperties DEF TypeOK, RigsType
  <2>3. Len(Append(out[c], "data")) = Len(out[c]) + 1
        /\ \A i \in 1..(Len(out[c]) + 1) :
             Append(out[c], "data")[i] = IF i <= Len(out[c]) THEN out[c][i] ELSE "data"
    BY <2>2
  <2>4. \A i \in 1..Len(out[c]) : out[c][i] = "data"
    BY DEF CalmInv
  <2>5. \A i \in 1..Len(Append(out[c], "data")) : Append(out[c], "data")[i] = "data"
    BY <2>2, <2>3, <2>4
  <2>6. ASSUME NEW d \in Conns PROVE \A i \in 1..Len(out'[d]) : out'[d][i] = "data"
    <3>1. CASE d = c
      <4>1. out'[d] = Append(out[c], "data")
        BY <2>1, <3>1 DEF TypeOK, RigsType
      <4> QED
        BY <4>1, <2>5
    <3>2. CASE d # c
      <4>1. out'[d] = out[d]
        BY <2>1, <3>2 DEF TypeOK, RigsType
      <4> QED
        BY <4>1 DEF CalmInv
    <3> QED
      BY <3>1, <3>2
  <2> QED
    BY <1>1, <2>1, <2>6 DEF CalmInv, threads
<1> QED
  BY <1>3, <1>4, <1>5, <1>6, <1>7, <1>8, <1>9 DEF Reader, Outside

THEOREM CalmInvariant ==
  ASSUME Faults \subseteq Refusals
  PROVE  Spec => []CalmInv
<1>1. Init => CalmInv
  BY DEF Init, CalmInv
<1>2. TypeOK /\ CalmInv /\ [Next]_vars => CalmInv'
  <2>1. CalmInv /\ UNCHANGED vars => CalmInv'
    BY CalmKept DEF vars, rigs
  <2> QED
    BY <2>1, CalmEvent, CalmGuiStep, CalmThreads DEF Next
<1> QED
  BY <1>1, <1>2, TypeCorrect, PTL DEF Spec

\* a connection is open or it does not exist
NoneStale == \A c \in Conns : inst[c] # "stale"

\* MainGui.disconnect deletes what it has closed
StaleInv == \A c \in Conns :
  inst[c] = "stale" => \E x \in Elems(todo) : x.do = "forget" /\ x.to = c

\* The inductive invariant behind RigsFollow.  As long as commands wait on the
\* stack no connection swallows them, none is closed before they are written, and
\* a rig that does not do what the experiment does yet has its command waiting.
FollowInv ==
  /\ NoneAfter(todo, "write", Closers)
  /\ "write" \in Due \/ running => NoneStale
  /\ Carries(todo, Allowed)
  /\ running => "close" \notin Due
  /\ running => \A c \in Conns : rig[c] = "run" \/ Sends(todo, c, "start")
  /\ ~running => \A c \in Conns : rig[c] = "idle" \/ Sends(todo, c, "stop")

\* a step that is over or pushes others, and has changed no instance
LEMMA StaleKept ==
  ASSUME TypeOK, StaleInv, todo # <<>>, Head(todo).do # "forget", UNCHANGED inst,
         Elems(Tail(todo)) \subseteq Elems(todo')
  PROVE  StaleInv'
<1>1. Elems(todo) = {Head(todo)} \cup Elems(Tail(todo))
  BY ElemsPop DEF TypeOK, StackType
<1> QED
  BY <1>1 DEF StaleInv

LEMMA StaleGuiStep ==
  ASSUME TypeOK, LinksInv, StaleInv, GuiStep, ~WriteFails
  PROVE  StaleInv'
<1> USE DEF buttons, flags, experiment, record, threads, io, rigs
<1> DEFINE head == Head(todo)
<1>1. todo # <<>> /\ todo \in Seq(Step)
  BY DEF GuiStep, Next1, ConnectSucceeds, ConnectFails, KeepParam, Finished, CloseOne,
         Forget, WriteMissing, WriteStale, WriteDelivered, WriteLost, WriteTimeout,
         WriteFails, ResetButtons, Halt, SaveLastMeas, ClockOff, ClockOn, Exit,
         TypeOK, StackType
<1>2. /\ Tail(todo) \in Seq(Step) /\ Elems(todo) = {head} \cup Elems(Tail(todo))
      /\ head.do \in Due
  BY <1>1, Stack, ElemsPop
<1>3. CASE ConnectSucceeds \/ ConnectFails
  <2>1. /\ head.do = "connect"
        /\ UNCHANGED inst \/ inst' = [inst EXCEPT ![head.to] = "open"]
    BY <1>3 DEF ConnectSucceeds, ConnectFails, Connected, Next1
  <2>2. "forget" \notin Due
    BY <1>2, <2>1 DEF LinksInv
  <2>3. \A c \in Conns : inst[c] # "stale"
    BY <2>2, ElemsNames DEF StaleInv, Due
  <2>4. \A c \in Conns : inst'[c] # "stale"
    BY <2>1, <2>3 DEF TypeOK, IoType
  <2> QED
    BY <2>4 DEF StaleInv
<1>4. CASE \/ KeepParam \/ WriteStale \/ WriteDelivered \/ WriteLost \/ WriteTimeout
           \/ ResetButtons \/ ClockOff \/ ClockOn \/ Exit
  <2>1. todo' = Tail(todo) /\ UNCHANGED inst /\ head.do # "forget"
    BY <1>4 DEF KeepParam, WriteStale, WriteDelivered, WriteLost, WriteTimeout,
                ResetButtons, ClockOff, ClockOn, Exit, Next1
  <2> QED
    BY <1>1, <2>1, StaleKept
<1>5. CASE WriteMissing \/ SaveLastMeas
  <2>1. UNCHANGED inst /\ (UNCHANGED todo \/ (todo' = Tail(todo) /\ head.do # "forget"))
    BY <1>5 DEF WriteMissing, SaveLastMeas, Crash, Next1
  <2>2. UNCHANGED todo => StaleInv'
    BY <2>1 DEF StaleInv
  <2> QED
    BY <1>1, <2>1, <2>2, StaleKept
<1>6. CASE Halt
  <2>1. todo' = StopSteps \o Tail(todo) /\ UNCHANGED inst /\ head.do # "forget"
    BY <1>6 DEF Halt, StopExperiment, Next1
  <2>2. Elems(todo') = Elems(StopSteps) \cup Elems(Tail(todo))
    BY <1>2, <2>1, StopStepsPush, ElemsConcat
  <2> QED
    BY <1>1, <2>1, <2>2, StaleKept
<1>7. CASE Finished
  <2> DEFINE rest == ForEach("close") \o <<Do("reset")>> \o Tail(todo)
  <2>1. rest \in Seq(Step) /\ Elems(Tail(todo)) \subseteq Elems(rest)
    BY <1>2, ClosingPush
  <2>2. /\ todo' = StopSteps \o rest \/ todo' = rest
        /\ UNCHANGED inst /\ head.do # "forget"
    BY <1>7 DEF Finished, StopExperiment, Next1
  <2> HIDE DEF rest
  <2>3. Elems(StopSteps \o rest) = Elems(StopSteps) \cup Elems(rest)
    BY <2>1, StopStepsPush, ElemsConcat
  <2> QED
    BY <1>1, <2>1, <2>2, <2>3, StaleKept
<1>8. CASE CloseOne
  <2>1. head.do = "close" /\ head.to \in Conns
    <3>1. head.do = "close"
      BY <1>8 DEF CloseOne, Next1
    <3> QED
      BY <1>2, <3>1 DEF LinksInv
  <2>2. CASE inst[head.to] # "open"
    <3>1. todo' = Tail(todo) /\ UNCHANGED inst
      BY <1>8, <2>2 DEF CloseOne
    <3> QED
      BY <1>1, <2>1, <3>1, StaleKept
  <2>3. CASE inst[head.to] = "open"
    <3> DEFINE pushed == <<Do("finished"), At("forget", head.to)>>
    <3>1. todo' = pushed \o Tail(todo) /\ inst' = [inst EXCEPT ![head.to] = "stale"]
      BY <1>8, <2>3 DEF CloseOne, CloseConnection
    <3>2. pushed \in Seq(Step) /\ Elems(pushed) = {Do("finished"), At("forget", head.to)}
      BY <2>1, FixedType, ElemsFixed DEF StepNames
    <3> HIDE DEF pushed
    <3>3. Elems(todo') = Elems(pushed) \cup Elems(Tail(todo))
      BY <1>2, <3>1, <3>2, ElemsConcat
    <3>4. At("forget", head.to).do = "forget" /\ At("forget", head.to).to = head.to
      BY DEF At
    <3>5. \A c \in Conns : c # head.to => inst'[c] = inst[c]
      BY <3>1 DEF TypeOK, IoType
    <3> QED
      BY <1>2, <2>1, <3>2, <3>3, <3>4, <3>5 DEF StaleInv
  <2> QED
    BY <2>2, <2>3
<1>9. CASE Forget
  <2>1. todo' = Tail(todo) /\ inst' = [inst EXCEPT ![head.to] = "none"]
    BY <1>9 DEF Forget
  <2>2. \A c \in Conns : inst'[c] = IF c = head.to THEN "none" ELSE inst[c]
    BY <2>1 DEF TypeOK, IoType
  <2> QED
    BY <1>2, <2>1, <2>2 DEF StaleInv
<1> QED
  BY <1>3, <1>4, <1>5, <1>6, <1>7, <1>8, <1>9 DEF GuiStep

LEMMA StaleEvent ==
  ASSUME TypeOK, CalmInv, StaleInv, User \/ HeartbeatTick \/ HandleEvent
  PROVE  NoneStale /\ NoneStale' /\ StaleInv'
<1> USE DEF buttons, flags, experiment, record, threads, io, rigs
<1>1. Due = {}
  BY EventPushes
<1>2. NoneStale
  BY <1>1, ElemsNames DEF StaleInv, NoneStale, Due
<1>3. ~HandleError
  BY CalmHead DEF HandleError
<1>4. UNCHANGED inst
  BY <1>3 DEF User, UserConnect, UserDisconnect, UserStart, UserStop, UserSendParameter,
         UserSendChangedParameter, UserClose, UserApplyExperiment, UserLoadLastMeas,
         HandleEvent, HeartbeatTick, HandleMissedBeat, HandleData, StopExperiment, Crash
<1> QED
  BY <1>2, <1>4 DEF NoneStale, StaleInv

LEMMA NoSends ==
  ASSUME NEW s, "write" \notin Names(s)
  PROVE  \A c, m : ~Sends(s, c, m)
BY ElemsNames DEF Sends

\* steps that write nothing, while no experiment runs
LEMMA SilentFollow ==
  ASSUME TypeOK', FollowInv, ~running, running' = running, UNCHANGED rig,
         "write" \notin Due, "write" \notin Due'
  PROVE  FollowInv'
<1>1. todo' \in Seq(Step) /\ "write" \notin Names(todo) /\ "write" \notin Names(todo')
  BY DEF TypeOK, StackType, Due
<1>2. NoneAfter(todo', "write", Closers)
  BY <1>1, NoneAfterNone
<1>3. Carries(todo', Allowed')
  BY <1>1, CarriesQuiet
<1>4. \A c \in Conns : rig'[c] = "idle"
  BY <1>1, NoSends DEF FollowInv
<1> QED
  BY <1>2, <1>3, <1>4 DEF FollowInv

\* MainGui.stopExperiment, from a handler that writes nothing else
LEMMA StopFollow ==
  ASSUME TypeOK, TypeOK', FollowInv, NEW rest \in Seq(Step), StopExperiment(rest),
         "write" \notin Due, "write" \notin Names(rest), UNCHANGED <<inst, rig>>
  PROVE  FollowInv'
<1>1. todo' = StopSteps \o rest /\ running' = FALSE
  BY DEF StopExperiment
<1>2. /\ StopSteps \in Seq(Step)
      /\ Names(StopSteps) \subseteq {"write", "keep", "save", "clockOff"}
      /\ Names(StopSteps \o rest) = Names(StopSteps) \cup Names(rest)
  BY StopStepsPush, NamesConcat
<1>3. CASE running
  <2>1. /\ Carries(StopSteps \o rest, {"param", "stop"})
        /\ \A c \in Conns : Sends(StopSteps \o rest, c, "stop")
    BY <1>2, <1>3, StopCarries, CarriesQuiet, CarriesConcat
  <2>2. NoneAfter(StopSteps \o rest, "write", Closers)
    <3>1. NoneAfter(rest, "write", Closers)
      BY NoneAfterNone
    <3>2. Names(StopSteps) \cap Closers = {}
      BY <1>2 DEF Closers
    <3>3. NoneAfter(StopSteps, "write", Closers)
      BY <1>2, <3>2, NoneAfterNone
    <3> QED
      BY <1>2, <3>1, <3>3, NoneAfterPush
  <2>3. NoneStale'
    BY <1>3 DEF FollowInv, NoneStale
  <2> QED
    BY <1>1, <2>1, <2>2, <2>3 DEF FollowInv, Allowed
<1>4. CASE ~running
  <2>1. Names(StopSteps) = {"clockOff"}
    BY <1>4, StopCarries
  <2>2. "write" \notin Due'
    BY <1>1, <1>2, <2>1 DEF Due
  <2>3. running' = running
    BY <1>1, <1>4 DEF TypeOK, ExperimentType
  <2> QED
    BY <1>4, <2>2, <2>3, SilentFollow
<1> QED
  BY <1>3, <1>4

LEMMA FollowEvent ==
  ASSUME TypeOK, TypeOK', TimerInv, LinksInv, CalmInv, StaleInv, FollowInv,
         User \/ HeartbeatTick \/ HandleEvent
  PROVE  FollowInv'
<1> USE DEF buttons, flags, experiment, record, threads, io, rigs
<1>1. Due = {} /\ "write" \notin Names(todo)
  BY EventPushes DEF Due
<1>2. ~HandleError /\ ~HandleMissedBeat
  BY CalmHead DEF HandleError, HandleMissedBeat
<1>3. CASE UserStop
  <2>1. StopExperiment(<<>>) /\ UNCHANGED <<inst, rig>>
    BY <1>3 DEF UserStop
  <2>2. <<>> \in Seq(Step) /\ "write" \notin Names(<<>>)
    BY FixedType, NamesFixed
  <2> QED
    BY <1>1, <2>1, <2>2, StopFollow
<1>4. CASE ~UserStop
  <2>1. NoneAfter(todo', "write", Closers) /\ Carries(todo', Allowed')
    BY EventOrder, EventCarries
  <2>2. NoneStale'
    BY StaleEvent
  <2>3. "close" \notin Due'
    BY EventNames
  <2>4. UNCHANGED rig
    BY DEF User, UserConnect, UserDisconnect, UserStart, UserStop, UserSendParameter,
           UserSendChangedParameter, UserClose, UserApplyExperiment, UserLoadLastMeas,
           HandleEvent, HeartbeatTick, HandleError, HandleMissedBeat, HandleData, Crash
  <2>5. \/ running' = running
        \/ /\ running' = TRUE
           /\ todo' = StartParams(exp) \o Broadcast("start") \o <<Do("clockOn")>>
    <3>1. CASE UserStart
      <4>1. \/ UNCHANGED running
            \/ running' = FALSE
            \/ /\ running' = TRUE
               /\ todo' = StartParams(exp) \o Broadcast("start") \o <<Do("clockOn")>>
        BY <3>1, Zenon DEF UserStart
      <4>2. ~running
        BY <3>1 DEF UserStart, TimerInv, LinksInv
      <4>3. running \in BOOLEAN
        BY DEF TypeOK, ExperimentType
      <4> QED
        BY <4>1, <4>2, <4>3
    <3>2. CASE ~UserStart
      BY <1>2, <1>4, <3>2 DEF User, UserConnect, UserDisconnect, UserSendParameter,
           UserSendChangedParameter, UserClose, UserApplyExperiment, UserLoadLastMeas,
           HandleEvent, HeartbeatTick, HandleData, Crash
    <3> QED
      BY <3>1, <3>2
  <2>6. CASE running' = running
    <3>1. \A c, m : ~Sends(todo, c, m)
      BY <1>1, NoSends
    <3>2. /\ running' => \A c \in Conns : rig'[c] = "run"
          /\ ~running' => \A c \in Conns : rig'[c] = "idle"
      BY <2>4, <2>6, <3>1 DEF FollowInv
    <3> QED
      BY <2>1, <2>2, <2>3, <3>2 DEF FollowInv
  <2>7. CASE /\ running' = TRUE
             /\ todo' = StartParams(exp) \o Broadcast("start") \o <<Do("clockOn")>>
    <3>1. \A c \in Conns : Sends(todo', c, "start")
      BY <2>7, StartCarries DEF TypeOK, ExperimentType
    <3> QED
      BY <2>1, <2>2, <2>3, <2>7, <3>1 DEF FollowInv
  <2> QED
    BY <2>5, <2>6, <2>7
<1> QED
  BY <1>3, <1>4

\* every write finds its link and its pipeline
LEMMA NoFailure ==
  ASSUME TypeOK, CalmInv, FollowInv
  PROVE  ~WriteFails
<1> SUFFICES ASSUME WriteFails PROVE FALSE
  OBVIOUS
<1>1. /\ todo # <<>> /\ Head(todo).do = "write" /\ inst[Head(todo).to] = "open"
      /\ sender[Head(todo).to] = "ended" \/ link[Head(todo).to] = "reset"
  BY DEF WriteFails, Next1
<1>2. Head(todo) \in Elems(todo)
  BY <1>1, ElemsPop DEF TypeOK, StackType
<1>3. Head(todo).to \in Conns
  BY <1>1, <1>2 DEF FollowInv, Carries
<1> QED
  BY <1>1, <1>3 DEF CalmInv

LEMMA FollowGuiStep ==
  ASSUME Faults \subseteq Refusals, TypeOK, TypeOK', TimerInv, LinksInv, CalmInv, FollowInv, GuiStep
  PROVE  FollowInv'
<1> USE DEF buttons, flags, experiment, record, threads, io, rigs
<1> DEFINE head == Head(todo)
           tail == Names(Tail(todo))
<1>1. todo # <<>> /\ todo \in Seq(Step)
  BY DEF GuiStep, Next1, ConnectSucceeds, ConnectFails, KeepParam, Finished, CloseOne,
         Forget, WriteMissing, WriteStale, WriteDelivered, WriteLost, WriteTimeout,
         WriteFails, ResetButtons, Halt, SaveLastMeas, ClockOff, ClockOn, Exit,
         TypeOK, StackType
<1>2. /\ Tail(todo) \in Seq(Step) /\ Due = {head.do} \cup tail /\ head \in Elems(todo)
  BY <1>1, Stack, ElemsPop
<1>3. head.do \in Closers => "write" \notin tail
  BY <1>1, NoneAfterPop DEF FollowInv
<1>4. head.do = "write" =>
        /\ head.to \in Conns /\ head.msg \in Allowed
        /\ inst[head.to] # "stale"
        /\ inst[head.to] = "open" => link[head.to] = "up" /\ sender[head.to] = "alive"
  <2> SUFFICES ASSUME head.do = "write"
               PROVE  /\ head.to \in Conns /\ head.msg \in Allowed
                      /\ inst[head.to] # "stale"
                      /\ inst[head.to] = "open" => /\ link[head.to] = "up"
                                                   /\ sender[head.to] = "alive"
    OBVIOUS
  <2>1. head.to \in Conns /\ head.msg \in Allowed
    BY <1>2 DEF FollowInv, Carries
  <2>2. NoneStale
    BY <1>2 DEF FollowInv
  <2> QED
    BY <2>1, <2>2 DEF NoneStale, CalmInv
\* a step that is over and has written nothing
<1>5. ASSUME todo' = Tail(todo), head.do # "write", UNCHANGED <<running, rig>>,
             "write" \in tail \/ running => NoneStale'
      PROVE  FollowInv'
  <2>1. NoneAfter(todo', "write", Closers) /\ Carries(todo', Allowed')
    BY <1>1, <1>5, NoneAfterPop, CarriesPop DEF FollowInv, Allowed
  <2>2. Due' \subseteq Due /\ Due' = tail
    BY <1>2, <1>5 DEF Due
  <2>3. \A c, m : Sends(todo, c, m) => Sends(todo', c, m)
    BY <1>1, <1>5, CarriesPop
  <2> QED
    BY <1>5, <2>1, <2>2, <2>3 DEF FollowInv
<1>6. CASE ConnectSucceeds
  <2>1. /\ head.do = "connect" /\ todo' = Tail(todo) /\ UNCHANGED <<running, rig>>
    BY <1>6 DEF ConnectSucceeds, Next1
  <2>2. Due = {"connect"} /\ ~running
    BY <1>2, <2>1 DEF LinksInv, TimerInv
  <2>3. "write" \notin Due'
    BY <1>2, <2>1, <2>2 DEF Due
  <2> QED
    BY <2>1, <2>2, <2>3, SilentFollow
<1>7. CASE WriteDelivered
  <2> DEFINE c == head.to
  <2>1. /\ head.do = "write" /\ todo' = Tail(todo) /\ UNCHANGED <<running, inst>>
        /\ rig' = [rig EXCEPT ![c] = RigAfter(head.msg, rig[c])]
    BY <1>7 DEF WriteDelivered, Next1
  <2>2. NoneAfter(todo', "write", Closers) /\ Carries(todo', Allowed')
    BY <1>1, <2>1, NoneAfterPop, CarriesPop DEF FollowInv, Allowed
  <2>3. Due' \subseteq Due /\ NoneStale' = NoneStale
    BY <1>2, <2>1 DEF Due, NoneStale
  <2>4. \A d, m : Sends(todo, d, m) => Sends(todo', d, m) \/ (d = c /\ m = head.msg)
    BY <1>1, <2>1, CarriesPop
  <2>5. \A d \in Conns : rig'[d] = IF d = c THEN RigAfter(head.msg, rig[c]) ELSE rig[d]
    BY <2>1 DEF TypeOK, RigsType
  <2>6. CASE running
    <3>1. head.msg \in {"param", "start", "beat"}
      BY <1>4, <2>1, <2>6 DEF Allowed
    <3>2. \A d \in Conns : rig'[d] = "run" \/ Sends(todo', d, "start")
      BY <2>4, <2>5, <2>6, <3>1 DEF FollowInv, RigAfter
    <3> QED
      BY <2>1, <2>2, <2>3, <2>6, <3>2 DEF FollowInv
  <2>7. CASE ~running
    <3>1. head.msg \in {"param", "stop"}
      BY <1>4, <2>1, <2>7 DEF Allowed
    <3>2. \A d \in Conns : rig'[d] = "idle" \/ Sends(todo', d, "stop")
      BY <2>4, <2>5, <2>7, <3>1 DEF FollowInv, RigAfter
    <3> QED
      BY <2>1, <2>2, <2>3, <2>7, <3>2 DEF FollowInv
  <2> QED
    BY <2>6, <2>7
<1>8. ~WriteStale /\ ~WriteLost /\ ~WriteTimeout /\ ~WriteFails
  BY <1>4 DEF WriteStale, WriteLost, WriteTimeout, WriteFails, Next1, Refusals
<1>9. CASE ConnectFails
  <2>1. /\ head.do = "connect" /\ todo' = <<>> /\ UNCHANGED <<running, rig>>
    BY <1>9 DEF ConnectFails, Next1
  <2>2. Due = {"connect"} /\ ~running
    BY <1>2, <2>1 DEF LinksInv, TimerInv
  <2>3. "write" \notin Due'
    BY <2>1, NamesFixed DEF Due
  <2> QED
    BY <2>1, <2>2, <2>3, SilentFollow
<1>10. CASE KeepParam \/ ResetButtons \/ ClockOff \/ ClockOn \/ Exit
  <2>1. /\ head.do # "write" /\ todo' = Tail(todo) /\ UNCHANGED <<running, rig, inst>>
    BY <1>10 DEF KeepParam, ResetButtons, ClockOff, ClockOn, Exit, Next1
  <2>2. "write" \in tail \/ running => NoneStale'
    BY <1>2, <2>1 DEF FollowInv, NoneStale
  <2> QED
    BY <1>5, <2>1, <2>2
<1>11. CASE WriteMissing \/ SaveLastMeas
  <2>1. /\ UNCHANGED <<running, rig, inst>>
        /\ UNCHANGED todo \/ (head.do # "write" /\ todo' = Tail(todo))
    BY <1>11 DEF WriteMissing, SaveLastMeas, Crash, Next1
  <2>2. "write" \in Due \/ running => NoneStale'
    BY <2>1 DEF FollowInv, NoneStale
  <2>3. CASE UNCHANGED todo
    BY <2>1, <2>2, <2>3 DEF FollowInv, Due, Allowed
  <2>4. CASE todo' = Tail(todo)
    BY <1>2, <1>5, <2>1, <2>2, <2>4
  <2> QED
    BY <2>1, <2>3, <2>4
<1>12. CASE Forget
  <2>1. /\ head.do = "forget" /\ todo' = Tail(todo) /\ UNCHANGED <<running, rig>>
    BY <1>12 DEF Forget, Next1
  <2>2. NoneStale => NoneStale'
    BY <1>12 DEF Forget, NoneStale, TypeOK, IoType
  <2>3. "write" \in tail \/ running => NoneStale'
    BY <1>2, <2>2 DEF FollowInv
  <2> QED
    BY <1>5, <2>1, <2>3
<1>13. CASE CloseOne
  <2>1. head.do = "close" /\ UNCHANGED <<running, rig>>
    BY <1>13 DEF CloseOne, Next1
  <2>2. ~running /\ "write" \notin Due
    BY <1>2, <1>3, <2>1 DEF FollowInv, Closers
  <2>3. "write" \notin Due'
    <3>1. CASE todo' = Tail(todo)
      BY <1>2, <2>2, <3>1 DEF Due
    <3>2. CASE todo' = <<Do("finished"), At("forget", head.to)>> \o Tail(todo)
      <4>1. head.to \in Conns
        BY <1>2, <2>1 DEF LinksInv
      <4>2. <<Do("finished"), At("forget", head.to)>> \in Seq(Step)
        BY <4>1, FixedType DEF StepNames
      <4>3. Due' = Names(<<Do("finished"), At("forget", head.to)>>) \cup tail
        BY <1>2, <3>2, <4>2, NamesConcat DEF Due
      <4>4. Names(<<Do("finished"), At("forget", head.to)>>) = {"finished", "forget"}
        BY NamesFixed
      <4> QED
        BY <1>2, <2>2, <4>3, <4>4
    <3> QED
      BY <1>13, <3>1, <3>2 DEF CloseOne
  <2> QED
    BY <2>1, <2>2, <2>3, SilentFollow
<1>14. CASE Finished
  <2> DEFINE closing == ForEach("close") \o <<Do("reset")>>
             rest == closing \o Tail(todo)
  <2>1. /\ head.do = "finished" /\ UNCHANGED <<inst, rig>>
        /\ \/ StopExperiment(rest)
           \/ todo' = rest /\ ~stopOn /\ UNCHANGED running
    BY <1>14 DEF Finished, Next1
  <2>2. "write" \notin Due /\ "write" \notin tail
    BY <1>2, <1>3, <2>1 DEF Closers
  <2>3. rest \in Seq(Step) /\ Names(rest) \subseteq {"close", "reset"} \cup tail
    BY <1>2, ClosingPush
  <2> HIDE DEF rest
  <2>4. "write" \notin Names(rest)
    BY <2>2, <2>3
  <2>5. CASE StopExperiment(rest)
    BY <2>1, <2>2, <2>3, <2>4, <2>5, StopFollow
  <2>6. CASE todo' = rest /\ ~stopOn /\ UNCHANGED running
    <3>1. ~running /\ "write" \notin Due'
      BY <2>4, <2>6 DEF LinksInv, Due
    <3> QED
      BY <2>1, <2>2, <2>6, <3>1, SilentFollow
  <2> QED
    BY <2>1, <2>5, <2>6
<1>15. CASE Halt
  <2>1. /\ head.do = "halt" /\ StopExperiment(Tail(todo)) /\ UNCHANGED <<inst, rig>>
    BY <1>15 DEF Halt, Next1
  <2>2. Tail(todo) = <<Do("clockOn")>>
    BY <1>2, <2>1, HaltPending
  <2>3. tail = {"clockOn"}
    BY <2>2, NamesFixed
  <2>4. "write" \notin tail
    BY <2>3
  <2>5. "write" \notin Due
    BY <1>2, <2>1, <2>4
  <2> QED
    BY <1>2, <2>1, <2>4, <2>5, StopFollow
<1> QED
  BY <1>6, <1>7, <1>8, <1>9, <1>10, <1>11, <1>12, <1>13, <1>14, <1>15 DEF GuiStep

LEMMA FollowThreads ==
  ASSUME Faults \subseteq Refusals, FollowInv,
         GhostEmits \/ \E c \in Conns : Reader(c) \/ Outside(c)
  PROVE  FollowInv'
<1>1. UNCHANGED <<todo, running, inst>>
  BY ThreadsKeep DEF experiment
<1>2. UNCHANGED rig
  BY DEF GhostEmits, Reader, ReaderReceives, ReaderStops, ReaderFails, ReaderEmits,
         Outside, LinkResets, LinkEnds, RigSends, RigMissesBeat, Refusals, rigs
<1> QED
  BY <1>1, <1>2 DEF FollowInv, Due, NoneStale, Allowed

THEOREM FollowInvariant ==
  ASSUME Faults \subseteq Refusals
  PROVE  Spec => [](StaleInv /\ FollowInv)
<1>1. Init => StaleInv /\ FollowInv
  <2>1. Init => /\ <<>> \in Seq(Step) /\ todo = <<>> /\ Names(<<>>) = {} /\ Due = {}
                /\ ~running /\ \A c \in Conns : rig[c] = "idle" /\ inst[c] = "none"
    BY FixedType, NamesFixed DEF Init, Due
  <2> QED
    BY <2>1, NoneAfterNone, CarriesQuiet DEF StaleInv, FollowInv
<1>2. TypeOK /\ TypeOK' /\ TimerInv /\ LinksInv /\ CalmInv /\ StaleInv /\ FollowInv
        /\ [Next]_vars => StaleInv' /\ FollowInv'
  <2>1. StaleInv /\ FollowInv /\ UNCHANGED vars => StaleInv' /\ FollowInv'
    BY DEF vars, experiment, io, rigs, StaleInv, FollowInv, Due, NoneStale, Allowed
  <2>2. StaleInv /\ (GhostEmits \/ \E c \in Conns : Reader(c) \/ Outside(c)) => StaleInv'
    BY ThreadsKeep DEF StaleInv
  <2>3. TypeOK /\ CalmInv /\ FollowInv => ~WriteFails
    BY NoFailure
  <2> QED
    BY <2>1, <2>2, <2>3, StaleEvent, StaleGuiStep, FollowEvent, FollowGuiStep,
       FollowThreads DEF Next
<1>3. Spec => []CalmInv
  BY CalmInvariant
<1> QED
  BY <1>1, <1>2, <1>3, TypeCorrect, TimerInvariant, LinksInvariant, PTL DEF Spec

\* As long as every link and every rig works, each rig runs exactly as long as the
\* experiment does: whenever the GUI is back in its event loop, its commands have
\* reached every rig.  A connect may be refused, and a module may refuse its
\* parameters: at the start no rig has been started yet, and later the exception
\* ends the program.
THEOREM RigsFollowRun ==
  ASSUME Faults \subseteq Refusals
  PROVE  Spec => []RigsFollow
<1>1. FollowInv => RigsFollow
  <2> SUFFICES ASSUME FollowInv, todo = <<>>, NEW c \in Conns
               PROVE  rig[c] = "run" <=> running
    BY DEF RigsFollow
  <2>1. "write" \notin Names(todo)
    BY NamesFixed
  <2> QED
    BY <2>1, NoSends DEF FollowInv
<1>2. Spec => [](StaleInv /\ FollowInv)
  BY FollowInvariant
<1> QED
  BY <1>1, <1>2, PTL

-----------------------------------------------------------------------------
(* No write without an instance, on the only link or on links that work.   *)

\* the faults that end a connection under the handler that is using it
Breaking == {"reset", "eof", "timeout"}

\* what breaks no connection leaves every open one with a link and a pipeline
SoundInv == \A c \in Conns : inst[c] = "open" => link[c] = "up" /\ sender[c] = "alive"

LEMMA SoundGui ==
  ASSUME Faults \cap Breaking = {}, TypeOK, TypeOK', SoundInv,
         User \/ HeartbeatTick \/ HandleEvent \/ GuiStep
  PROVE  SoundInv'
<1> USE DEF buttons, flags, experiment, record, threads, io, rigs
<1>1. ~WriteTimeout
  BY DEF WriteTimeout, Breaking
<1>2. CASE UNCHANGED <<inst, link, sender>>
  BY <1>2 DEF SoundInv
<1>3. CASE ConnectSucceeds
  <2>1. PICK c : /\ inst' = [inst EXCEPT ![c] = "open"]
                 /\ link' = [link EXCEPT ![c] = "up"]
                 /\ sender' = [sender EXCEPT ![c] = "alive"]
    BY <1>3 DEF ConnectSucceeds, NewInstance, LinkOpens, Connected
  <2> QED
    BY <2>1 DEF SoundInv, TypeOK, IoType
<1>4. CASE HandleError \/ WriteFails \/ CloseOne
  <2>1. \/ UNCHANGED <<inst, link, sender>>
        \/ \E c : /\ inst' = [inst EXCEPT ![c] = "stale"]
                  /\ link' = [link EXCEPT ![c] = "closed"]
                  /\ UNCHANGED sender
    BY <1>4 DEF HandleError, WriteFails, CloseOne, CloseConnection, LinkCloses
  <2> QED
    BY <1>2, <2>1 DEF SoundInv, TypeOK, IoType
<1>5. CASE Forget
  <2>1. PICK c : inst' = [inst EXCEPT ![c] = "none"] /\ UNCHANGED <<link, sender>>
    BY <1>5 DEF Forget
  <2> QED
    BY <2>1 DEF SoundInv, TypeOK, IoType
<1>6. CASE WriteLost
  <2>1. PICK c : /\ inst[c] = "open" /\ UNCHANGED <<inst, sender>>
                 /\ \/ UNCHANGED link
                    \/ link[c] = "eof" /\ link' = [link EXCEPT ![c] = "reset"]
    BY <1>6 DEF WriteLost
  <2> QED
    BY <2>1 DEF SoundInv, TypeOK, IoType
<1>7. CASE ~(ConnectSucceeds \/ HandleError \/ WriteFails \/ CloseOne \/ Forget \/ WriteLost)
  <2>1. UNCHANGED <<inst, link, sender>>
    BY <1>1, <1>7 DEF User, UserConnect, UserDisconnect, UserStart, UserStop,
       UserSendParameter, UserSendChangedParameter, UserClose, UserApplyExperiment,
       UserLoadLastMeas, HeartbeatTick, HandleEvent, HandleMissedBeat, HandleData,
       GuiStep, ConnectFails, KeepParam, Finished, WriteMissing, WriteStale,
       WriteDelivered, ResetButtons, Halt, SaveLastMeas, ClockOff, ClockOn, Exit, Crash
  <2> QED
    BY <1>2, <2>1
<1> QED
  BY <1>3, <1>4, <1>5, <1>6, <1>7

\* No network that neither resets nor ends a link, and no write that times out,
\* takes a connection away under the program.
THEOREM SoundInvariant ==
  ASSUME Faults \cap Breaking = {}
  PROVE  Spec => []SoundInv
<1>1. Init => SoundInv
  BY DEF Init, SoundInv
<1>2. TypeOK /\ TypeOK' /\ SoundInv /\ [Next]_vars => SoundInv'
  <2>1. SoundInv /\ UNCHANGED <<inst, link, sender>> => SoundInv'
    BY DEF SoundInv
  <2>2. UNCHANGED vars => UNCHANGED <<inst, link, sender>>
    BY DEF vars, io
  <2>3. (GhostEmits \/ \E c \in Conns : Reader(c) \/ Outside(c))
          => UNCHANGED <<inst, link, sender>>
    BY DEF GhostEmits, Reader, ReaderReceives, ReaderStops, ReaderFails, ReaderEmits,
           Outside, LinkResets, LinkEnds, RigSends, RigMissesBeat, Breaking, io
  <2> QED
    BY <2>1, <2>2, <2>3, SoundGui DEF Next
<1> QED
  BY <1>1, <1>2, TypeCorrect, PTL DEF Spec

AllThere == \A c \in Conns : inst[c] # "none"

\* The inductive invariant behind the writes.  What waits on the stack to be
\* written finds an instance: MainGui.disconnect deletes one only behind the last
\* command, and a connection it still finds open has no command waiting for it.
\* A write that fails while another connection is open breaks this.
WritesInv ==
  /\ Carries(todo, Messages)
  /\ "write" \in Due \/ running => AllThere
  /\ NoneAfter(todo, "write", {"forget"})
  /\ SomeOpen => NoneAfter(todo, "write", {"finished", "close"})
  /\ running => Due \cap {"close", "forget"} = {}

LEMMA OneConnection ==
  ASSUME Len(ConnSeq) = 1
  PROVE  \A c, d \in Conns : c = d
BY DEF Conns

LEMMA CarriesMore ==
  ASSUME NEW s, NEW ms, NEW ns, ms \subseteq ns, Carries(s, ms)
  PROVE  Carries(s, ns)
BY DEF Carries

\* steps that write nothing, while no experiment runs
LEMMA SilentWrites ==
  ASSUME TypeOK', ~running', "write" \notin Due'
  PROVE  WritesInv'
<1>1. todo' \in Seq(Step) /\ "write" \notin Names(todo')
  BY DEF TypeOK, StackType, Due
<1>2. \A bs : NoneAfter(todo', "write", bs)
  BY <1>1, NoneAfterNone
<1>3. Carries(todo', Messages)
  BY <1>1, CarriesQuiet
<1> QED
  BY <1>2, <1>3 DEF WritesInv

\* MainGui.stopExperiment, from a handler that leaves rest on the stack
LEMMA StopWrites ==
  ASSUME TypeOK, NEW rest \in Seq(Step), StopExperiment(rest), UNCHANGED inst,
         running => AllThere, "write" \in Names(rest) => AllThere,
         Carries(rest, Messages), NoneAfter(rest, "write", {"forget"}),
         SomeOpen => "write" \notin Names(rest)
  PROVE  WritesInv'
<1>1. todo' = StopSteps \o rest /\ running' = FALSE
  BY DEF StopExperiment
<1>2. /\ StopSteps \in Seq(Step)
      /\ Names(StopSteps) \subseteq {"write", "keep", "save", "clockOff"}
      /\ Names(StopSteps \o rest) = Names(StopSteps) \cup Names(rest)
  BY StopStepsPush, NamesConcat
<1>3. Carries(StopSteps \o rest, Messages)
  <2>1. {"param", "stop"} \subseteq Messages
    BY DEF Messages
  <2>2. Carries(StopSteps, Messages)
    BY <2>1, StopCarries, CarriesMore
  <2> QED
    BY <1>2, <2>2, CarriesConcat
<1>4. "write" \in Due' => AllThere'
  <2>1. "write" \in Names(StopSteps) => running
    BY StopCarries
  <2>2. AllThere' = AllThere
    BY DEF AllThere
  <2> QED
    BY <1>1, <1>2, <2>1, <2>2 DEF Due
<1>5. \A bs : Names(StopSteps) \cap bs = {} => NoneAfter(StopSteps, "write", bs)
  BY <1>2, NoneAfterNone
<1>6. NoneAfter(StopSteps \o rest, "write", {"forget"})
  <2>1. Names(StopSteps) \cap {"forget"} = {}
    BY <1>2
  <2> QED
    BY <1>2, <1>5, <2>1, NoneAfterPush
<1>7. SomeOpen => NoneAfter(StopSteps \o rest, "write", {"finished", "close"})
  <2>1. Names(StopSteps) \cap {"finished", "close"} = {}
    BY <1>2
  <2>2. "write" \notin Names(rest) => NoneAfter(rest, "write", {"finished", "close"})
    BY NoneAfterNone
  <2> QED
    BY <1>2, <1>5, <2>1, <2>2, NoneAfterPush
<1>8. SomeOpen' = SomeOpen
  BY DEF SomeOpen
<1> QED
  BY <1>1, <1>3, <1>4, <1>6, <1>7, <1>8 DEF WritesInv

LEMMA WritesEvent ==
  ASSUME TypeOK, TypeOK', TimerInv, LinksInv, ToggleInv, User \/ HeartbeatTick \/ HandleEvent
  PROVE  WritesInv'
<1>1. NoneAfter(todo', "write", {"forget"}) /\ NoneAfter(todo', "write", {"finished", "close"})
  BY EventOrder, NoneAfterFewer DEF Closers
<1>2. Carries(todo', Messages)
  <2>1. Allowed' \subseteq Messages
    BY DEF Allowed, Messages
  <2> QED
    BY <2>1, EventCarries, CarriesMore
<1>3. "write" \in Due' \/ running' => AllThere'
  <2>1. AllOpen /\ UNCHANGED inst => AllThere'
    BY DEF AllOpen, AllThere
  <2>2. AllOpen /\ HandleError => AllThere'
    <3>1. HandleError => \/ UNCHANGED inst
                         \/ \E c : inst' = [inst EXCEPT ![c] = "stale"]
      BY DEF HandleError, CloseConnection, io
    <3> QED
      BY <3>1 DEF AllOpen, AllThere, TypeOK, IoType
  <2> QED
    BY <2>1, <2>2, EventOpen
<1>4. Due' \cap {"close", "forget"} = {}
  BY EventNames
<1> QED
  BY <1>1, <1>2, <1>3, <1>4 DEF WritesInv

LEMMA WritesGuiStep ==
  ASSUME Len(ConnSeq) = 1 \/ SoundInv,
         TypeOK, TypeOK', TimerInv, LinksInv, ToggleInv, WritesInv, GuiStep
  PROVE  WritesInv'
<1> USE DEF buttons, flags, experiment, record, threads, io, rigs
<1> DEFINE head == Head(todo)
           tail == Names(Tail(todo))
<1>1. todo # <<>> /\ todo \in Seq(Step)
  BY DEF GuiStep, Next1, ConnectSucceeds, ConnectFails, KeepParam, Finished, CloseOne,
         Forget, WriteMissing, WriteStale, WriteDelivered, WriteLost, WriteTimeout,
         WriteFails, ResetButtons, Halt, SaveLastMeas, ClockOff, ClockOn, Exit,
         TypeOK, StackType
<1>2. /\ Tail(todo) \in Seq(Step) /\ Due = {head.do} \cup tail /\ head \in Elems(todo)
  BY <1>1, Stack, ElemsPop
<1>3. /\ Carries(Tail(todo), Messages) /\ NoneAfter(Tail(todo), "write", {"forget"})
      /\ head.do = "forget" => "write" \notin tail
      /\ SomeOpen => /\ NoneAfter(Tail(todo), "write", {"finished", "close"})
                     /\ head.do \in {"finished", "close"} => "write" \notin tail
  BY <1>1, NoneAfterPop, CarriesPop DEF WritesInv
\* a step that is over, and has changed no instance
<1>4. ASSUME todo' = Tail(todo), UNCHANGED <<running, inst>> PROVE WritesInv'
  <2>1. Due' \subseteq Due /\ SomeOpen' = SomeOpen /\ AllThere' = AllThere
    BY <1>2, <1>4 DEF Due, SomeOpen, AllThere
  <2> QED
    BY <1>3, <1>4, <2>1 DEF WritesInv
<1>5. CASE \/ KeepParam \/ WriteStale \/ WriteDelivered \/ WriteLost \/ WriteTimeout
           \/ ResetButtons \/ ClockOff \/ ClockOn \/ Exit
  <2>1. todo' = Tail(todo) /\ UNCHANGED <<running, inst>>
    BY <1>5 DEF KeepParam, WriteStale, WriteDelivered, WriteLost, WriteTimeout,
                ResetButtons, ClockOff, ClockOn, Exit
  <2> QED
    BY <1>4, <2>1
<1>6. CASE WriteMissing \/ SaveLastMeas
  <2>1. UNCHANGED <<running, inst>> /\ (UNCHANGED todo \/ todo' = Tail(todo))
    BY <1>6 DEF WriteMissing, SaveLastMeas, Crash
  <2>2. UNCHANGED todo => WritesInv'
    BY <2>1 DEF WritesInv, Due, SomeOpen, AllThere
  <2> QED
    BY <1>4, <2>1, <2>2
<1>7. CASE ConnectSucceeds \/ ConnectFails
  <2>1. head.do = "connect" /\ UNCHANGED running /\ (todo' = Tail(todo) \/ todo' = <<>>)
    BY <1>7 DEF ConnectSucceeds, ConnectFails, Next1
  <2>2. ~running /\ tail \subseteq {"connect"}
    BY <1>2, <2>1 DEF TimerInv, LinksInv
  <2>3. "write" \notin tail /\ "write" \notin Names(<<>>)
    BY <2>2, NamesFixed
  <2>4. "write" \notin Due'
    BY <2>1, <2>3 DEF Due
  <2> QED
    BY <2>1, <2>2, <2>4, SilentWrites
<1>8. CASE Forget
  <2>1. head.do = "forget" /\ todo' = Tail(todo) /\ UNCHANGED running
    BY <1>8 DEF Forget, Next1
  <2>2. ~running /\ "write" \notin Due'
    BY <1>2, <1>3, <2>1 DEF WritesInv, Due
  <2> QED
    BY <2>1, <2>2, SilentWrites
<1>9. CASE WriteFails
  <2>1. /\ head.do = "write" /\ todo' = <<Do("finished")>> \o Tail(todo) /\ UNCHANGED running
        /\ inst' = [inst EXCEPT ![head.to] = "stale"]
        /\ inst[head.to] = "open" /\ (sender[head.to] = "ended" \/ link[head.to] = "reset")
    BY <1>9 DEF WriteFails, CloseConnection, Next1
  <2>2. head.to \in Conns
    BY <1>2, <2>1 DEF WritesInv, Carries
  <2>3. \A c \in Conns : inst'[c] = "stale"
    BY <2>1, <2>2, OneConnection DEF TypeOK, IoType, SoundInv
  <2>4. AllThere' /\ ~SomeOpen'
    BY <2>3 DEF AllThere, SomeOpen
  <2>5. /\ <<Do("finished")>> \in Seq(Step) /\ Names(<<Do("finished")>>) = {"finished"}
    <3>1. <<Do("finished")>> \in Seq(Step)
      BY FixedType DEF StepNames
    <3> QED
      BY <3>1, NamesFixed
  <2>6. Carries(todo', Messages) /\ Due' = {"finished"} \cup tail
    <3>1. Carries(<<Do("finished")>>, Messages)
      BY <2>5, CarriesQuiet
    <3>2. Names(todo') = {"finished"} \cup tail
      BY <1>2, <2>1, <2>5, NamesConcat
    <3> QED
      BY <1>2, <1>3, <2>1, <2>5, <3>1, <3>2, CarriesConcat DEF Due
  <2>7. NoneAfter(todo', "write", {"forget"})
    <3>1. NoneAfter(<<Do("finished")>>, "write", {"forget"})
      BY <2>5, NoneAfterNone
    <3>2. Names(<<Do("finished")>>) \cap {"forget"} = {}
      BY <2>5
    <3> QED
      BY <1>2, <1>3, <2>1, <2>5, <3>1, <3>2, NoneAfterPush
  <2>8. running' => Due' \cap {"close", "forget"} = {}
    BY <1>2, <2>1, <2>6 DEF WritesInv
  <2> QED
    BY <2>4, <2>6, <2>7, <2>8 DEF WritesInv
<1>10. CASE Finished
  <2> DEFINE closing == ForEach("close") \o <<Do("reset")>>
             rest == closing \o Tail(todo)
  <2>1. /\ head.do = "finished" /\ UNCHANGED inst
        /\ \/ StopExperiment(rest)
           \/ todo' = rest /\ ~stopOn /\ UNCHANGED running
    BY <1>10 DEF Finished, Next1
  <2>2. /\ closing \in Seq(Step) /\ rest \in Seq(Step)
        /\ Names(closing) \subseteq {"close", "reset"}
        /\ Names(rest) \subseteq {"close", "reset"} \cup tail
    BY <1>2, ClosingPush
  <2>3. /\ Carries(rest, Messages) /\ NoneAfter(rest, "write", {"forget"})
    <3>1. "write" \notin Names(closing) /\ Names(closing) \cap {"forget"} = {}
      BY <2>2
    <3> HIDE DEF closing
    <3>2. Carries(closing, Messages) /\ NoneAfter(closing, "write", {"forget"})
      BY <2>2, <3>1, CarriesQuiet, NoneAfterNone
    <3> QED
      BY <1>2, <1>3, <2>2, <3>1, <3>2, CarriesConcat, NoneAfterPush
  <2> HIDE DEF rest
  <2>4. "write" \in Names(rest) => "write" \in tail
    BY <2>2
  <2>5. /\ "write" \in Names(rest) => AllThere
        /\ SomeOpen => "write" \notin Names(rest)
    BY <1>2, <1>3, <2>1, <2>4 DEF WritesInv
  <2>6. CASE StopExperiment(rest)
    BY <2>1, <2>2, <2>3, <2>5, <2>6, StopWrites DEF WritesInv
  <2>7. CASE todo' = rest /\ ~stopOn /\ UNCHANGED running
    <3>1. ~running'
      BY <2>7 DEF LinksInv
    <3>2. SomeOpen => NoneAfter(rest, "write", {"finished", "close"})
      BY <2>2, <2>5, NoneAfterNone
    <3>3. SomeOpen' = SomeOpen /\ AllThere' = AllThere /\ Due' = Names(rest)
      BY <2>1, <2>7 DEF SomeOpen, AllThere, Due
    <3> QED
      BY <2>3, <2>5, <2>7, <3>1, <3>2, <3>3 DEF WritesInv
  <2> QED
    BY <2>1, <2>6, <2>7
<1>11. CASE CloseOne
  <2>1. head.do = "close" /\ head.to \in Conns /\ UNCHANGED running
    <3>1. head.do = "close" /\ UNCHANGED running
      BY <1>11 DEF CloseOne, Next1
    <3> QED
      BY <1>2, <3>1 DEF LinksInv
  <2>2. CASE inst[head.to] # "open"
    <3>1. todo' = Tail(todo) /\ UNCHANGED inst
      BY <1>11, <2>2 DEF CloseOne
    <3> QED
      BY <1>4, <2>1, <3>1
  <2>3. CASE inst[head.to] = "open"
    <3>1. todo' = <<Do("finished"), At("forget", head.to)>> \o Tail(todo)
      BY <1>11, <2>3 DEF CloseOne
    <3>2. ~running /\ "write" \notin tail
      BY <1>2, <1>3, <2>1, <2>3 DEF WritesInv, SomeOpen
    <3>3. <<Do("finished"), At("forget", head.to)>> \in Seq(Step)
      BY <2>1, FixedType DEF StepNames
    <3>4. Due' = Names(<<Do("finished"), At("forget", head.to)>>) \cup tail
      BY <1>2, <3>1, <3>3, NamesConcat DEF Due
    <3>5. Names(<<Do("finished"), At("forget", head.to)>>) = {"finished", "forget"}
      BY NamesFixed
    <3>6. "write" \notin Due'
      BY <3>2, <3>4, <3>5
    <3> QED
      BY <2>1, <3>2, <3>6, SilentWrites
  <2> QED
    BY <2>2, <2>3
<1>12. CASE Halt
  <2>1. head.do = "halt" /\ StopExperiment(Tail(todo)) /\ UNCHANGED inst
    BY <1>12 DEF Halt, Next1
  <2>2. Tail(todo) = <<Do("clockOn")>>
    BY <1>2, <2>1, HaltPending
  <2>3. tail = {"clockOn"}
    BY <2>2, NamesFixed
  <2>4. "write" \notin tail
    BY <2>3
  <2> QED
    BY <1>2, <1>3, <2>1, <2>4, StopWrites DEF WritesInv
<1> QED
  BY <1>5, <1>6, <1>7, <1>8, <1>9, <1>10, <1>11, <1>12 DEF GuiStep

THEOREM WritesInvariant ==
  ASSUME Len(ConnSeq) = 1 \/ Faults \cap (Breaking \cup {"refuse"}) = {}
  PROVE  Spec => []WritesInv
<1>1. Init => WritesInv
  <2>1. Init => /\ <<>> \in Seq(Step) /\ todo = <<>> /\ Names(<<>>) = {} /\ Due = {} /\ ~running
    BY FixedType, NamesFixed DEF Init, Due
  <2> QED
    BY <2>1, NoneAfterNone, CarriesQuiet DEF WritesInv
<1>2. /\ TypeOK /\ TypeOK' /\ TimerInv /\ LinksInv /\ ToggleInv /\ WritesInv
      /\ Len(ConnSeq) = 1 \/ SoundInv
      /\ [Next]_vars
      => WritesInv'
  <2>1. WritesInv /\ UNCHANGED <<todo, running, inst>> => WritesInv'
    BY DEF WritesInv, Due, SomeOpen, AllThere
  <2>2. UNCHANGED vars => UNCHANGED <<todo, running, inst>>
    BY DEF vars, experiment, io
  <2>3. (GhostEmits \/ \E c \in Conns : Reader(c) \/ Outside(c))
          => UNCHANGED <<todo, running, inst>>
    BY ThreadsKeep DEF experiment
  <2> QED
    BY <2>1, <2>2, <2>3, WritesEvent, WritesGuiStep DEF Next
<1>3. Spec => []ToggleInv
  BY ToggleInvariant
<1>4. CASE Len(ConnSeq) = 1
  BY <1>1, <1>2, <1>3, <1>4, TypeCorrect, TimerInvariant, LinksInvariant, PTL DEF Spec
<1>5. CASE Faults \cap (Breaking \cup {"refuse"}) = {}
  <2>1. Spec => []SoundInv
    BY <1>5, SoundInvariant
  <2> QED
    BY <1>1, <1>2, <1>3, <2>1, TypeCorrect, TimerInvariant, LinksInvariant, PTL DEF Spec
<1> QED
  BY <1>4, <1>5

-----------------------------------------------------------------------------
(* No parameters without a run, and no data without buffers.               *)

\* What the slots of the buttons look up is there: sendParameter finds a list
\* item, sendChangedParameter the settings of every module of a running
\* experiment, and the plot timer runs from the start to the stop.
LookupInv ==
  /\ sendOn => shown # "none"
  /\ running => ModsOf(exp) \subseteq modSets
  /\ stopOn => "plot" \in timers

LEMMA LookupEvent ==
  ASSUME \A e \in Exps : DataOf(e) # {},
         TypeOK, TimerInv, LinksInv, ToggleInv, LookupInv, User \/ HeartbeatTick \/ HandleEvent
  PROVE  LookupInv'
<1> USE DEF buttons, flags, experiment, record, threads, io, rigs
<1>1. CASE UserStart
  <2>1. DataOf(exp) # {}
    BY DEF TypeOK, ExperimentType
  <2>2. /\ shown' = "current" /\ "plot" \in timers' /\ UNCHANGED exp
    BY <1>1, <2>1 DEF UserStart
  <2>3. running' => modSets' = modSets \cup ModsOf(exp)
    BY <1>1, <2>1, Zenon DEF UserStart
  <2>4. ModsOf(exp)' = ModsOf(exp)
    BY <2>2 DEF ModsOf
  <2> QED
    BY <2>2, <2>3, <2>4 DEF LookupInv
<1>2. CASE UserStop
  <2>1. sendOn' = FALSE /\ stopOn' = FALSE /\ running' = FALSE
    BY <1>2 DEF UserStop, StopExperiment
  <2> QED
    BY <2>1 DEF LookupInv
<1>3. CASE HandleMissedBeat
  <2>1. running' = FALSE /\ UNCHANGED <<sendOn, stopOn, shown, timers>>
    BY <1>3 DEF HandleMissedBeat
  <2> QED
    BY <2>1 DEF LookupInv
<1>4. CASE \E e \in Exps : UserApplyExperiment(e) \/ UserLoadLastMeas(e)
  <2>1. /\ ~(isConnected /\ stopOn) /\ UNCHANGED <<sendOn, stopOn, running, timers>>
        /\ shown' = shown \/ shown' \in {"past", "current"}
    BY <1>4 DEF UserApplyExperiment, UserLoadLastMeas
  <2>2. ~running
    BY <2>1 DEF LinksInv, TimerInv, ToggleInv
  <2> QED
    BY <2>1, <2>2 DEF LookupInv
<1>5. CASE \/ UserConnect \/ UserDisconnect \/ UserSendParameter \/ UserSendChangedParameter
           \/ UserClose \/ HeartbeatTick \/ HandleError \/ HandleData
  <2>1. UNCHANGED <<sendOn, stopOn, running, exp, modSets, timers, shown>>
    BY <1>5 DEF UserConnect, UserDisconnect, UserSendParameter, UserSendChangedParameter,
                UserClose, HeartbeatTick, HandleError, HandleData, Crash
  <2> QED
    BY <2>1 DEF LookupInv, ModsOf
<1> QED
  BY <1>1, <1>2, <1>3, <1>4, <1>5 DEF User, HandleEvent

LEMMA LookupGuiStep ==
  ASSUME TypeOK, LookupInv, GuiStep
  PROVE  LookupInv'
<1> USE DEF buttons, flags, experiment, record, threads, io, rigs
<1>1. UNCHANGED <<exp, modSets>> /\ ModsOf(exp)' = ModsOf(exp)
  <2>1. UNCHANGED <<exp, modSets>>
    BY DEF GuiStep, ConnectSucceeds, ConnectFails, KeepParam, Finished, CloseOne, Forget,
           WriteMissing, WriteStale, WriteDelivered, WriteLost, WriteTimeout, WriteFails,
           ResetButtons, Halt, SaveLastMeas, ClockOff, ClockOn, Exit, StopExperiment, Crash
  <2> QED
    BY <2>1 DEF ModsOf
<1>2. CASE SaveLastMeas
  <2>1. /\ UNCHANGED <<sendOn, stopOn, running, timers>>
        /\ shown' = shown \/ shown' = "past"
    BY <1>2 DEF SaveLastMeas, Crash
  <2> QED
    BY <1>1, <2>1 DEF LookupInv
<1>3. CASE ConnectSucceeds \/ ResetButtons
  <2>1. stopOn' = FALSE /\ UNCHANGED <<sendOn, running, shown>>
    BY <1>3 DEF ConnectSucceeds, ResetButtons
  <2> QED
    BY <1>1, <2>1 DEF LookupInv
<1>4. CASE Finished \/ Halt
  <2>1. /\ UNCHANGED shown
        /\ \/ sendOn' = FALSE /\ stopOn' = FALSE /\ running' = FALSE
           \/ UNCHANGED <<sendOn, stopOn, running, timers>>
    BY <1>4 DEF Finished, Halt, StopExperiment
  <2> QED
    BY <1>1, <2>1 DEF LookupInv
<1>5. CASE ClockOff \/ ClockOn
  <2>1. /\ UNCHANGED <<sendOn, stopOn, running, shown>>
        /\ "plot" \in timers => "plot" \in timers'
    BY <1>5 DEF ClockOff, ClockOn
  <2> QED
    BY <1>1, <2>1 DEF LookupInv
<1>6. CASE \/ ConnectFails \/ KeepParam \/ CloseOne \/ Forget \/ WriteMissing \/ WriteStale
           \/ WriteDelivered \/ WriteLost \/ WriteTimeout \/ WriteFails \/ Exit
  <2>1. UNCHANGED <<sendOn, stopOn, running, timers, shown>>
    BY <1>6 DEF ConnectFails, KeepParam, CloseOne, Forget, WriteMissing, WriteStale,
                WriteDelivered, WriteLost, WriteTimeout, WriteFails, Exit, Crash
  <2> QED
    BY <1>1, <2>1 DEF LookupInv
<1> QED
  BY <1>2, <1>3, <1>4, <1>5, <1>6 DEF GuiStep

THEOREM LookupInvariant ==
  ASSUME Len(ConnSeq) = 1 \/ "refuse" \notin Faults, \A e \in Exps : DataOf(e) # {}
  PROVE  Spec => []LookupInv
<1>1. Init => LookupInv
  BY DEF Init, LookupInv
<1>2. TypeOK /\ TimerInv /\ LinksInv /\ ToggleInv /\ LookupInv /\ [Next]_vars => LookupInv'
  <2>1. LookupInv /\ UNCHANGED <<buttons, flags, experiment, record>> => LookupInv'
    BY DEF LookupInv, ModsOf, buttons, flags, experiment, record
  <2>2. UNCHANGED vars => UNCHANGED <<buttons, flags, experiment, record>>
    BY DEF vars
  <2> QED
    BY <2>1, <2>2, ThreadsKeep, LookupEvent, LookupGuiStep DEF Next
<1>3. Spec => []ToggleInv
  BY ToggleInvariant
<1> QED
  BY <1>1, <1>2, <1>3, TypeCorrect, TimerInvariant, LinksInvariant, PTL DEF Spec

\* no experiment has been started yet, and no rig has sent anything
Fresh ==
  /\ ~running
  /\ \A c \in Conns : rig[c] = "idle" /\ out[c] = <<>> /\ reader[c] # "emit"
  /\ \A i \in 1..Len(inbox) : inbox[i].kind # "data"
  /\ \A g \in ghosts : g.kind # "data"

\* there are buffers for every module that data can be for
BufInv == (\A e \in Exps : DataOf(e) = bufs) \/ Fresh

LEMMA FreshInbox ==
  ASSUME TypeOK, Fresh, inbox # <<>>
  PROVE  /\ Head(inbox).kind # "data"
         /\ \A i \in 1..Len(Tail(inbox)) : Tail(inbox)[i].kind # "data"
<1>1. /\ Len(inbox) \in Nat \ {0}
      /\ Len(Tail(inbox)) = Len(inbox) - 1
      /\ \A i \in 1 .. Len(Tail(inbox)) : Tail(inbox)[i] = inbox[i+1]
      /\ Head(inbox) = inbox[1]
  BY HeadTailProperties, EmptySeq DEF TypeOK, ThreadsType
<1>2. \A i \in 1..Len(Tail(inbox)) : i + 1 \in 1..Len(inbox)
  BY <1>1
<1>3. 1 \in 1..Len(inbox)
  BY <1>1
<1> QED
  BY <1>1, <1>2, <1>3 DEF Fresh

LEMMA FreshGui ==
  ASSUME TypeOK, ActInv, Fresh,
         User \/ HeartbeatTick \/ HandleEvent \/ GuiStep, ~UserStart
  PROVE  Fresh'
<1> USE DEF buttons, flags, experiment, record, threads, io, rigs
<1>1. ~running'
  BY DEF Fresh, User, UserConnect, UserDisconnect, UserStop, UserSendParameter,
         UserSendChangedParameter, UserClose, UserApplyExperiment, UserLoadLastMeas,
         HandleEvent, HeartbeatTick, HandleError, HandleMissedBeat, HandleData,
         GuiStep, ConnectSucceeds, ConnectFails, KeepParam, Finished, CloseOne, Forget,
         WriteMissing, WriteStale, WriteDelivered, WriteLost, WriteTimeout, WriteFails,
         ResetButtons, Halt, SaveLastMeas, ClockOff, ClockOn, Exit, StopExperiment, Crash
<1>2. \A c \in Conns : rig'[c] = "idle"
  <2>1. CASE UNCHANGED rig
    BY <2>1 DEF Fresh
  <2>2. CASE ~UNCHANGED rig
    <3>1. PICK c \in Conns : rig' = [rig EXCEPT ![c] = "idle"]
      BY <2>2, RigChanges DEF Fresh, Next
    <3> QED
      BY <3>1 DEF Fresh, TypeOK, RigsType
  <2> QED
    BY <2>1, <2>2
<1>3. CASE UserConnect
  <2>1. /\ inbox' = [i \in 1..Len(inbox) |-> Retire(inbox[i])]
        /\ ghosts' = ghosts
             \cup {Retire(Live(held[c], c)) : c \in {d \in Conns : reader[d] = "emit"}}
             \cup {Retire(Live("err", c)) : c \in {d \in Conns : reader[d] = "fail"}}
        /\ reader' = [c \in Conns |-> "off"]
        /\ UNCHANGED out
    BY <1>3 DEF UserConnect
  <2>2. \A e \in Event : Retire(e).kind = e.kind
    BY DEF Retire, Event
  <2>3. \A i \in 1..Len(inbox') : inbox'[i].kind # "data"
    <3>1. Len(inbox) \in Nat /\ \A i \in 1..Len(inbox) : inbox[i] \in Event
      BY LenProperties, ElementOfSeq DEF TypeOK, ThreadsType
    <3>2. Len(inbox') = Len(inbox)
      BY <2>1, <3>1
    <3> QED
      BY <2>1, <2>2, <3>1, <3>2 DEF Fresh
  <2>4. \A g \in ghosts' : g.kind # "data"
    <3>1. \A c \in Conns : reader[c] # "emit"
      BY DEF Fresh
    <3>2. \A c \in Conns : Retire(Live("err", c)).kind = "err"
      <4>1. \A c \in Conns : Live("err", c) \in Event /\ Live("err", c).kind = "err"
        BY LiveType DEF Live
      <4> QED
        BY <4>1, <2>2
    <3> QED
      BY <2>1, <3>1, <3>2 DEF Fresh
  <2>5. \A c \in Conns : out'[c] = <<>> /\ reader'[c] # "emit"
    BY <2>1 DEF Fresh
  <2> QED
    BY <1>1, <1>2, <2>3, <2>4, <2>5 DEF Fresh
<1>4. CASE ~UserConnect
  <2>1. \A c \in Conns : out'[c] = <<>> /\ reader'[c] # "emit"
    <3>1. \/ UNCHANGED <<out, reader>>
          \/ \E c : /\ out' = [out EXCEPT ![c] = <<>>]
                    /\ reader' = [reader EXCEPT ![c] = "recv"]
      BY <1>4 DEF User, UserDisconnect, UserStart, UserStop, UserSendParameter,
         UserSendChangedParameter, UserClose, UserApplyExperiment, UserLoadLastMeas,
         HandleEvent, HeartbeatTick, HandleError, HandleMissedBeat, HandleData,
         GuiStep, ConnectSucceeds, ConnectFails, KeepParam, Finished, CloseOne, Forget,
         WriteMissing, WriteStale, WriteDelivered, WriteLost, WriteTimeout, WriteFails,
         ResetButtons, Halt, SaveLastMeas, ClockOff, ClockOn, Exit, LinkOpens, Connected, Crash
    <3>2. CASE UNCHANGED <<out, reader>>
      BY <3>2 DEF Fresh
    <3>3. CASE \E c : /\ out' = [out EXCEPT ![c] = <<>>]
                      /\ reader' = [reader EXCEPT ![c] = "recv"]
      <4>1. PICK c : /\ out' = [out EXCEPT ![c] = <<>>]
                     /\ reader' = [reader EXCEPT ![c] = "recv"]
        BY <3>3
      <4>2. \A d \in Conns : /\ out'[d] = IF d = c THEN <<>> ELSE out[d]
                             /\ reader'[d] = IF d = c THEN "recv" ELSE reader[d]
        BY <4>1 DEF TypeOK, RigsType, ThreadsType
      <4> QED
        BY <4>2 DEF Fresh
    <3> QED
      BY <3>1, <3>2, <3>3
  <2>2. UNCHANGED ghosts /\ (UNCHANGED inbox \/ (inbox # <<>> /\ inbox' = Tail(inbox)))
    BY <1>4 DEF User, UserDisconnect, UserStart, UserStop, UserSendParameter,
         UserSendChangedParameter, UserClose, UserApplyExperiment, UserLoadLastMeas,
         HandleEvent, HeartbeatTick, HandleError, HandleMissedBeat, HandleData,
         GuiStep, ConnectSucceeds, ConnectFails, KeepParam, Finished, CloseOne, Forget,
         WriteMissing, WriteStale, WriteDelivered, WriteLost, WriteTimeout, WriteFails,
         ResetButtons, Halt, SaveLastMeas, ClockOff, ClockOn, Exit, Crash
  <2>3. /\ \A i \in 1..Len(inbox') : inbox'[i].kind # "data"
        /\ \A g \in ghosts' : g.kind # "data"
    BY <2>2, FreshInbox DEF Fresh
  <2> QED
    BY <1>1, <1>2, <2>1, <2>3 DEF Fresh
<1> QED
  BY <1>3, <1>4

LEMMA FreshThreads ==
  ASSUME TypeOK, Fresh, GhostEmits \/ \E c \in Conns : Reader(c) \/ Outside(c)
  PROVE  Fresh'
<1>1. running' = running
  BY ThreadsKeep DEF experiment
<1>2. ASSUME NEW e, e.kind # "data", inbox' = Append(inbox, e)
      PROVE  \A i \in 1..Len(inbox') : inbox'[i].kind # "data"
  <2>1. Len(inbox) \in Nat
    BY LenProperties DEF TypeOK, ThreadsType
  <2>2. Len(inbox') = Len(inbox) + 1
        /\ \A i \in 1..Len(inbox') : inbox'[i] = IF i <= Len(inbox) THEN inbox[i] ELSE e
    BY <1>2, <2>1 DEF TypeOK, ThreadsType
  <2> QED
    BY <1>2, <2>1, <2>2 DEF Fresh
<1>3. CASE GhostEmits
  <2>1. PICK g \in ghosts : inbox' = Append(inbox, g) /\ ghosts' = ghosts \ {g}
    BY <1>3 DEF GhostEmits
  <2>2. g.kind # "data" /\ UNCHANGED <<reader, out, rig>>
    BY <1>3 DEF GhostEmits, Fresh, rigs
  <2>3. \A i \in 1..Len(inbox') : inbox'[i].kind # "data"
    BY <1>2, <2>1, <2>2
  <2> QED
    BY <1>1, <2>1, <2>2, <2>3 DEF Fresh
<1>4. ASSUME NEW c \in Conns
      PROVE  ~ReaderReceives(c) /\ ~RigSends(c) /\ ~RigMissesBeat(c)
  BY DEF ReaderReceives, Receives, RigSends, RigMissesBeat, Fresh
<1>5. ASSUME NEW c \in Conns, ReaderStops(c) \/ ReaderFails(c) PROVE Fresh'
  <2>1. /\ reader' = [reader EXCEPT ![c] = "off"] \/ reader' = [reader EXCEPT ![c] = "fail"]
        /\ UNCHANGED <<inbox, ghosts, out, rig>>
    BY <1>5 DEF ReaderStops, ReaderFails, rigs
  <2>2. \A d \in Conns : reader'[d] # "emit"
    BY <2>1 DEF TypeOK, ThreadsType, Fresh
  <2> QED
    BY <1>1, <2>1, <2>2 DEF Fresh
<1>6. ASSUME NEW c \in Conns, ReaderEmits(c) PROVE Fresh'
  <2>1. reader[c] # "emit" /\ UNCHANGED <<ghosts, out, rig>>
    BY <1>6 DEF ReaderEmits, Fresh, rigs
  <2>2. inbox' = Append(inbox, Live("err", c)) /\ reader' = [reader EXCEPT ![c] = "off"]
    BY <1>6, <2>1 DEF ReaderEmits
  <2>3. Live("err", c).kind # "data"
    BY DEF Live
  <2>4. \A i \in 1..Len(inbox') : inbox'[i].kind # "data"
    BY <1>2, <2>2, <2>3
  <2>5. \A d \in Conns : reader'[d] # "emit"
    BY <2>2 DEF TypeOK, ThreadsType, Fresh
  <2> QED
    BY <1>1, <2>1, <2>4, <2>5 DEF Fresh
<1>7. ASSUME NEW c \in Conns, LinkResets(c) \/ LinkEnds(c) PROVE Fresh'
  <2>1. /\ UNCHANGED out \/ out' = [out EXCEPT ![c] = <<>>]
        /\ UNCHANGED <<inbox, ghosts, reader, rig>>
    BY <1>7 DEF LinkResets, LinkEnds, threads, rigs
  <2>2. \A d \in Conns : out'[d] = <<>>
    BY <2>1 DEF TypeOK, RigsType, Fresh
  <2> QED
    BY <1>1, <2>1, <2>2 DEF Fresh
<1> QED
  BY <1>3, <1>4, <1>5, <1>6, <1>7 DEF Reader, Outside

THEOREM BuffersInvariant ==
  ASSUME \A e \in Exps : DataOf(e) # {}, \A e, f \in Exps : DataOf(e) = DataOf(f)
  PROVE  Spec => []BufInv
<1>1. Init => BufInv
  BY DEF Init, BufInv, Fresh
<1>2. TypeOK /\ ActInv /\ BufInv /\ [Next]_vars => BufInv'
  <2> SUFFICES ASSUME TypeOK, ActInv, BufInv, [Next]_vars PROVE BufInv'
    OBVIOUS
  <2>1. CASE UserStart
    <3>1. exp \in Exps /\ DataOf(exp) # {}
      BY DEF TypeOK, ExperimentType
    <3>2. bufs' = DataOf(exp)
      BY <2>1, <3>1 DEF UserStart
    <3>3. \A e \in Exps : DataOf(e) = bufs'
      BY <3>1, <3>2
    <3> QED
      BY <3>3 DEF BufInv, DataOf, ModsOf
  <2>2. CASE UNCHANGED vars
    BY <2>2 DEF vars, experiment, record, threads, rigs, BufInv, Fresh, DataOf, ModsOf
  <2>3. CASE Next /\ ~UserStart
    <3>1. UNCHANGED bufs
      <4>1. CASE User \/ HeartbeatTick \/ HandleEvent
        BY <2>3, <4>1 DEF User, UserConnect, UserDisconnect, UserStop, UserSendParameter,
           UserSendChangedParameter, UserClose, UserApplyExperiment, UserLoadLastMeas,
           HandleEvent, HeartbeatTick, HandleError, HandleMissedBeat, HandleData,
           Crash, record
      <4>2. CASE GuiStep
        BY <4>2 DEF GuiStep, ConnectSucceeds, ConnectFails, KeepParam, Finished, CloseOne,
           Forget, WriteMissing, WriteStale, WriteDelivered, WriteLost, WriteTimeout,
           WriteFails, ResetButtons, Halt, SaveLastMeas, ClockOff, ClockOn, Exit,
           Crash, record
      <4> QED
        BY <2>3, <4>1, <4>2, ThreadsKeep DEF Next, record
    <3>2. Fresh => Fresh'
      BY <2>3, FreshGui, FreshThreads DEF Next
    <3> QED
      BY <3>1, <3>2 DEF BufInv, DataOf, ModsOf
  <2> QED
    BY <2>1, <2>2, <2>3
<1> QED
  BY <1>1, <1>2, TypeCorrect, ActivationInvariant, PTL DEF Spec

\* With experiments that fill the same buffers, no slot of the GUI raises an
\* exception of its own, whatever the user, the network and the rigs do: with one
\* connection whatever happens to it, with more of them as long as each can be
\* opened and no write to it fails.  Lost frames and missed heartbeats are allowed
\* in both cases, and so are experiment modules that refuse parameters: theirs is
\* the one exception that can leave a slot, as only runExperiment catches it.
\* (MainGui.connect returns half way at a refused connection, and disconnect
\* deletes the instances that writeToConnection, interrupted by a failing write,
\* still has to look up.)
THEOREM SlotsRaiseNothing ==
  ASSUME Len(ConnSeq) = 1 \/ Faults \cap {"refuse", "reset", "eof", "timeout"} = {},
         \A e \in Exps : DataOf(e) # {},
         \A e, f \in Exps : DataOf(e) = DataOf(f)
  PROVE  Spec => []OnlyModulesRaise
<1>1. Init => OnlyModulesRaise
  BY DEF Init, OnlyModulesRaise
<1>2. TypeOK /\ TimerInv /\ RecInv /\ ToggleInv /\ WritesInv /\ LookupInv
        /\ BufInv /\ OnlyModulesRaise /\ [Next]_vars => OnlyModulesRaise'
  <2> SUFFICES ASSUME TypeOK, TimerInv, RecInv, ToggleInv, WritesInv, LookupInv,
                      BufInv, OnlyModulesRaise, [Next]_vars
               PROVE  OnlyModulesRaise'
    OBVIOUS
  <2>1. CASE UserSendParameter \/ UserSendChangedParameter
    <3>1. Idle /\ sendOn
      BY <2>1 DEF UserSendParameter, UserSendChangedParameter
    <3>2. Due = {} /\ "plot" \in timers /\ shown # "none"
      BY <3>1, NamesFixed DEF Idle, Due, ToggleInv, LookupInv
    <3>3. running
      BY <3>1, <3>2 DEF TimerInv, ToggleInv
    <3>4. ModsOf(exp) \subseteq modSets
      BY <3>3 DEF LookupInv
    <3>5. UNCHANGED app \/ app' = "params"
      BY <2>1, <3>2, <3>4 DEF UserSendParameter, UserSendChangedParameter, Crash
    <3> QED
      BY <3>5 DEF OnlyModulesRaise
  <2>2. CASE HandleData
    <3> DEFINE tag == IF Head(inbox).tag = Unbound THEN bound ELSE Head(inbox).tag
    <3>1. /\ inbox # <<>> /\ Head(inbox).kind = "data"
          /\ UNCHANGED app \/ \E m \in Takers(tag) : m \notin bufs
      BY <2>2 DEF HandleData
    <3>2. ~Fresh
      BY <3>1, FreshInbox
    <3>3. DataOf(exp) = bufs
      BY <3>2 DEF BufInv, TypeOK, ExperimentType
    <3>4. \A t : Takers(t) \subseteq bufs
      BY <3>3 DEF Takers
    <3>5. UNCHANGED app
      BY <3>1, <3>4
    <3> QED
      BY <3>5 DEF OnlyModulesRaise
  <2>3. ~WriteMissing
    <3> SUFFICES ASSUME WriteMissing PROVE FALSE
      OBVIOUS
    <3>1. todo # <<>> /\ Head(todo).do = "write" /\ inst[Head(todo).to] = "none"
      BY DEF WriteMissing, Next1
    <3>2. Head(todo) \in Elems(todo) /\ "write" \in Due
      BY <3>1, ElemsPop, Stack DEF TypeOK, StackType
    <3>3. Head(todo).to \in Conns
      BY <3>1, <3>2 DEF WritesInv, Carries
    <3> QED
      BY <3>1, <3>2, <3>3 DEF WritesInv, AllThere
  <2>4. CASE SaveLastMeas
    <3>1. "save" \in Due
      BY <2>4, Stack DEF SaveLastMeas, Next1
    <3>2. current # 0
      BY <3>1 DEF RecInv
    <3>3. UNCHANGED app
      BY <2>4, <3>2 DEF SaveLastMeas
    <3> QED
      BY <3>3 DEF OnlyModulesRaise
  <2>5. CASE Exit
    BY <2>5 DEF Exit, OnlyModulesRaise
  <2>6. CASE /\ User \/ HeartbeatTick \/ HandleEvent \/ GuiStep
             /\ ~(UserSendParameter \/ UserSendChangedParameter \/ HandleData
                    \/ WriteMissing \/ SaveLastMeas \/ Exit)
    \* stopExperiment and handleFrame collect the stop parameters
    <3>1. UNCHANGED app \/ app' = "params"
      <4>1. CASE UserStop \/ HandleMissedBeat \/ Finished \/ Halt
        BY <4>1 DEF UserStop, HandleMissedBeat, Finished, Halt, StopExperiment, StopParamsTaken
      <4>2. CASE ~(UserStop \/ HandleMissedBeat \/ Finished \/ Halt)
        BY <2>6, <4>2 DEF User, UserConnect, UserDisconnect, UserStart,
           UserClose, UserApplyExperiment, UserLoadLastMeas,
           HandleEvent, HeartbeatTick, HandleError,
           GuiStep, ConnectSucceeds, ConnectFails, KeepParam, CloseOne, Forget,
           WriteStale, WriteDelivered, WriteLost, WriteTimeout, WriteFails,
           ResetButtons, ClockOff, ClockOn
      <4> QED
        BY <4>1, <4>2
    <3> QED
      BY <3>1 DEF OnlyModulesRaise
  <2>7. CASE UNCHANGED vars \/ GhostEmits \/ \E c \in Conns : Reader(c) \/ Outside(c)
    <3>1. UNCHANGED app
      BY <2>7, ThreadsKeep DEF vars
    <3> QED
      BY <3>1 DEF OnlyModulesRaise
  <2> QED
    BY <2>1, <2>2, <2>3, <2>4, <2>5, <2>6, <2>7 DEF Next
<1>3. Spec => []ToggleInv
  BY ToggleInvariant
<1>4. Spec => []WritesInv
  BY WritesInvariant DEF Breaking
<1>5. Spec => []LookupInv
  BY LookupInvariant
<1>6. Spec => []BufInv
  BY BuffersInvariant
<1> QED
  BY <1>1, <1>2, <1>3, <1>4, <1>5, <1>6, TypeCorrect, TimerInvariant, RecordInvariant,
     PTL DEF Spec

=============================================================================
