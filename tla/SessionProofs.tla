--------------------------- MODULE SessionProofs ---------------------------
(* Theorems about Session, for every value of its constants.               *)
EXTENDS Session, SequenceTheorems, TLAPS

-----------------------------------------------------------------------------
(* The call stack stays a sequence of steps.                               *)

LEMMA DoType == \A name \in StepNames : Do(name) \in Step
BY DEF Do, Step, Optional, Messages

LEMMA AtType == \A name \in StepNames, c \in Conns : At(name, c) \in Step
BY DEF At, Step, Optional, Messages

LEMMA WriteType == \A c \in Conns, m \in Messages : Write(c, m) \in Step
BY DEF Write, Step, Optional, StepNames

LEMMA ConnIndex == \A i \in 1..Len(ConnSeq) : ConnSeq[i] \in Conns
BY DEF Conns

LEMMA BroadcastType == \A m \in Messages : Broadcast(m) \in Seq(Step)
<1> SUFFICES ASSUME NEW m \in Messages PROVE Broadcast(m) \in Seq(Step)
  OBVIOUS
<1>1. Broadcast(m) \in [1..Len(ConnSeq) -> Step]
  BY ConnIndex, WriteType DEF Broadcast
<1> QED
  BY <1>1, ConnSeqAssumption, SeqDef

LEMMA ForEachType == \A name \in StepNames : ForEach(name) \in Seq(Step)
<1> SUFFICES ASSUME NEW name \in StepNames PROVE ForEach(name) \in Seq(Step)
  OBVIOUS
<1>1. ForEach(name) \in [1..Len(ConnSeq) -> Step]
  BY ConnIndex, AtType DEF ForEach
<1> QED
  BY <1>1, ConnSeqAssumption, SeqDef

LEMMA ModuleIndex ==
  ASSUME NEW e \in Exps
  PROVE  /\ Len(ModulesOf[e]) \in Nat
         /\ \A i \in 1..Len(ModulesOf[e]) : ModulesOf[e][i] \in Mods
BY ModuleAssumption, ElementOfSeq, LenProperties

LEMMA ParamsType == \A e \in Exps : \A ms : Params(e, ms) \in Seq(Step)
<1> SUFFICES ASSUME NEW e \in Exps, NEW ms PROVE Params(e, ms) \in Seq(Step)
  OBVIOUS
<1>1. \A i \in 1..Len(ModulesOf[e]) : ConnOf[ModulesOf[e][i]] \in Conns
  BY ModuleIndex, ModuleAssumption
<1>2. Do("keep") \in Step /\ \A c \in Conns : Write(c, "param") \in Step
  BY DoType, WriteType DEF StepNames, Messages
<1>3. Params(e, ms) \in [1..Len(ModulesOf[e]) -> Step]
  BY <1>1, <1>2 DEF Params
<1> QED
  BY <1>3, ModuleIndex, SeqDef

\* the module of a frame of runExperiment
LEMMA StartIndex ==
  ASSUME NEW e \in Exps, NEW i \in 1..(2 * Len(ModulesOf[e]))
  PROVE  (i + 1) \div 2 \in 1..Len(ModulesOf[e])
<1>1. Len(ModulesOf[e]) \in Nat
  BY ModuleIndex
<1> QED
  BY <1>1

LEMMA StartParamsType == \A e \in Exps : StartParams(e) \in Seq(Step)
<1> SUFFICES ASSUME NEW e \in Exps PROVE StartParams(e) \in Seq(Step)
  OBVIOUS
<1>1. \A i \in 1..(2 * Len(ModulesOf[e])) : ConnOf[ModulesOf[e][(i + 1) \div 2]] \in Conns
  BY StartIndex, ModuleIndex, ModuleAssumption
<1>2. \A c \in Conns : Write(c, "param") \in Step
  BY WriteType DEF Messages
<1>3. StartParams(e) \in [1..(2 * Len(ModulesOf[e])) -> Step]
  BY <1>1, <1>2 DEF StartParams
<1>4. 2 * Len(ModulesOf[e]) \in Nat
  BY ModuleIndex
<1> QED
  BY <1>3, <1>4, SeqDef

LEMMA ConcatType ==
  ASSUME NEW s \in Seq(Step), NEW t \in Seq(Step)
  PROVE  s \o t \in Seq(Step)
BY ConcatProperties

LEMMA PopType ==
  ASSUME NEW s \in Seq(Step), s # <<>>
  PROVE  Head(s) \in Step /\ Tail(s) \in Seq(Step)
BY HeadTailProperties

\* the fixed stacks that handlers push
LEMMA FixedType ==
  /\ \A a \in StepNames : <<Do(a)>> \in Seq(Step)
  /\ \A a, b \in StepNames : <<Do(a), Do(b)>> \in Seq(Step)
  /\ \A a, b, d \in StepNames : <<Do(a), Do(b), Do(d)>> \in Seq(Step)
  /\ \A a, b \in StepNames, c \in Conns : <<Do(a), At(b, c)>> \in Seq(Step)
  /\ <<>> \in Seq(Step)
BY DoType, AtType

-----------------------------------------------------------------------------
(* Type correctness.                                                       *)

LEMMA LiveType ==
  \A k \in {"data", "miss", "err"}, c \in Conns : Live(k, c) \in Event
BY DEF Live, Event, Optional

LEMMA RetireType ==
  ASSUME TypeOK, NEW e \in Event
  PROVE  Retire(e) \in Event
BY DEF TypeOK, IoType, Retire, Event, Optional

\* what a step leaves alone keeps its type
LEMMA Untouched ==
  ASSUME TypeOK
  PROVE  /\ UNCHANGED <<app, todo>> => StackType'
         /\ UNCHANGED buttons => ButtonsType'
         /\ UNCHANGED flags => FlagsType'
         /\ UNCHANGED experiment => ExperimentType'
         /\ UNCHANGED record => RecordType'
         /\ UNCHANGED threads => ThreadsType'
         /\ UNCHANGED io => IoType'
         /\ UNCHANGED rigs => RigsType'
<1>1. UNCHANGED <<app, todo>> => StackType'
  BY DEF TypeOK, StackType
<1>2. UNCHANGED buttons => ButtonsType'
  BY DEF TypeOK, ButtonsType, buttons
<1>3. UNCHANGED flags => FlagsType'
  BY DEF TypeOK, FlagsType, flags
<1>4. UNCHANGED experiment => ExperimentType'
  BY DEF TypeOK, ExperimentType, experiment
<1>5. UNCHANGED record => RecordType'
  BY DEF TypeOK, RecordType, record
<1>6. UNCHANGED threads => ThreadsType'
  BY DEF TypeOK, ThreadsType, threads
<1>7. UNCHANGED io => IoType'
  BY DEF TypeOK, IoType, io
<1>8. UNCHANGED rigs => RigsType'
  BY DEF TypeOK, RigsType, rigs
<1> QED
  BY <1>1, <1>2, <1>3, <1>4, <1>5, <1>6, <1>7, <1>8

\* a step that only pushes steps on the stack, or takes them from it
LEMMA StackStep ==
  ASSUME TypeOK, todo' \in Seq(Step),
         UNCHANGED <<app, buttons, flags, experiment, record, threads, io, rigs>>
  PROVE  TypeOK'
BY Untouched DEF TypeOK, StackType

LEMMA CrashType ==
  ASSUME TypeOK, NEW reason \in {"inst", "item", "modset", "buffer", "save", "params"},
         Crash(reason)
  PROVE  TypeOK'
<1>1. StackType'
  BY DEF TypeOK, StackType, Crash
<1> QED
  BY <1>1, Untouched DEF TypeOK, Crash

LEMMA StopExperimentType ==
  ASSUME TypeOK, NEW rest \in Seq(Step), StopExperiment(rest)
  PROVE  StackType' /\ ButtonsType' /\ FlagsType' /\ ExperimentType'
<1>1. Params(exp, Mods) \in Seq(Step) /\ Broadcast("stop") \in Seq(Step)
  BY ParamsType, BroadcastType DEF TypeOK, ExperimentType, Messages
<1>2. /\ <<Do("save"), Do("clockOff")>> \in Seq(Step)
      /\ <<Do("clockOff")>> \in Seq(Step)
  BY FixedType DEF StepNames
<1>3. Params(exp, Mods) \o Broadcast("stop") \in Seq(Step)
  BY <1>1, ConcatType
<1>4. StopSteps \in Seq(Step)
  BY <1>2, <1>3, ConcatType DEF StopSteps
<1>5. StackType'
  <2>1. todo' \in Seq(Step)
    BY <1>4, ConcatType DEF StopExperiment
  <2> QED
    BY <2>1 DEF StopExperiment, StopParamsTaken, TypeOK, StackType
<1>6. ButtonsType'
  BY DEF StopExperiment, TypeOK, ButtonsType, FlagsType
<1>7. FlagsType'
  BY DEF StopExperiment, StoppedTimers, TypeOK, FlagsType
<1>8. ExperimentType'
  BY DEF StopExperiment, TypeOK, ExperimentType
<1> QED
  BY <1>5, <1>6, <1>7, <1>8

LEMMA CloseConnectionType ==
  ASSUME TypeOK, NEW c, CloseConnection(c)
  PROVE  IoType'
BY DEF CloseConnection, LinkCloses, TypeOK, IoType

LEMMA InitType == Init => TypeOK
<1> SUFFICES ASSUME Init PROVE TypeOK
  OBVIOUS
<1>1. StackType /\ ThreadsType
  BY EmptySeq DEF Init, StackType, ThreadsType, RigFrames
<1>2. ButtonsType /\ FlagsType /\ ExperimentType /\ RecordType
  BY DEF Init, ButtonsType, FlagsType, ExperimentType, RecordType
<1>3. IoType
  BY DEF Init, IoType, Optional
<1>4. RigsType
  BY EmptySeq DEF Init, RigsType
<1> QED
  BY <1>1, <1>2, <1>3, <1>4 DEF TypeOK

LEMMA StartType == TypeOK /\ UserStart => TypeOK'
<1> SUFFICES ASSUME TypeOK, UserStart PROVE TypeOK'
  OBVIOUS
<1>1. ButtonsType'
  BY DEF UserStart, TypeOK, ButtonsType
<1>2. ThreadsType' /\ IoType' /\ RigsType'
  BY Untouched DEF UserStart
<1>3. CASE DataOf(exp) = {}
  <2>1. StackType' /\ RecordType'
    BY <1>3, Untouched DEF UserStart
  <2>2. FlagsType' /\ ExperimentType'
    BY <1>3 DEF UserStart, TypeOK, FlagsType, ExperimentType
  <2> QED
    BY <1>1, <1>2, <2>1, <2>2 DEF TypeOK
<1>4. CASE DataOf(exp) # {}
  <2>1. RecordType'
    <3>1. /\ bufs' = DataOf(exp) /\ current' = current + 1
          /\ measured' = measured \cup {exp} /\ shown' = "current"
      BY <1>4 DEF UserStart
    <3>2. DataOf(exp) \subseteq Mods
      BY ModuleAssumption DEF DataOf
    <3> QED
      BY <3>1, <3>2 DEF TypeOK, RecordType, ExperimentType
  <2>2. FlagsType'
    BY <1>4 DEF UserStart, TypeOK, FlagsType, TimerNames
  <2>3. ExperimentType'
    <3>1. /\ ModsOf(exp) \subseteq Mods
          /\ \A k \in 1..Len(ModulesOf[exp]) :
               {ModulesOf[exp][i] : i \in 1..k} \subseteq Mods
      BY ModuleIndex DEF ModsOf, TypeOK, ExperimentType
    <3>2. running' \in BOOLEAN /\ UNCHANGED exp
      BY <1>4, Zenon DEF UserStart
    <3>3. modSets' \subseteq Mods
      BY <1>4, <3>1 DEF UserStart, TypeOK, ExperimentType
    <3> QED
      BY <3>2, <3>3 DEF TypeOK, ExperimentType
  <2>4. StackType'
    <3>1. /\ StartParams(exp) \in Seq(Step) /\ Broadcast("start") \in Seq(Step)
          /\ <<Do("clockOn")>> \in Seq(Step)
          /\ <<Do("save"), Do("halt"), Do("clockOn")>> \in Seq(Step)
      BY StartParamsType, BroadcastType, FixedType
         DEF TypeOK, ExperimentType, Messages, StepNames
    <3>2. StartParams(exp) \o Broadcast("start") \in Seq(Step)
      BY <3>1, ConcatType
    <3>3. StartParams(exp) \o Broadcast("start") \o <<Do("clockOn")>> \in Seq(Step)
      BY <3>1, <3>2, ConcatType
    <3> QED
      BY <1>4, <3>1, <3>3 DEF UserStart, TypeOK, StackType
  <2> QED
    BY <1>1, <1>2, <2>1, <2>2, <2>3, <2>4 DEF TypeOK
<1> QED
  BY <1>3, <1>4

LEMMA UserType == TypeOK /\ User => TypeOK'
<1> SUFFICES ASSUME TypeOK, User PROVE TypeOK'
  OBVIOUS
<1>1. CASE UserConnect
  <2>1. StackType'
    BY <1>1, ForEachType DEF UserConnect, TypeOK, StackType, StepNames
  <2>2. inbox' \in Seq(Event)
    <3>1. Len(inbox) \in Nat /\ \A i \in 1..Len(inbox) : inbox[i] \in Event
      BY LenProperties, ElementOfSeq DEF TypeOK, ThreadsType
    <3>2. inbox' \in [1..Len(inbox) -> Event]
      BY <1>1, <3>1, RetireType DEF UserConnect
    <3> QED
      BY <3>1, <3>2, SeqDef
  <2>3. ghosts' \subseteq Event
    <3>1. \A c \in Conns : /\ Retire(Live(held[c], c)) \in Event
                           /\ Retire(Live("err", c)) \in Event
      BY LiveType, RetireType DEF TypeOK, ThreadsType, RigFrames
    <3> QED
      BY <1>1, <3>1 DEF UserConnect, TypeOK, ThreadsType
  <2>4. ThreadsType'
    BY <1>1, <2>2, <2>3 DEF UserConnect, TypeOK, ThreadsType
  <2> QED
    BY <1>1, <2>1, <2>4, Untouched DEF UserConnect, TypeOK
<1>2. CASE UserDisconnect
  BY <1>2, FixedType, StackStep DEF UserDisconnect, StepNames
<1>3. CASE UserStop
  <2>1. <<>> \in Seq(Step)
    BY FixedType
  <2>2. StackType'
    BY <1>3, <2>1, StopExperimentType DEF UserStop, TypeOK, StackType
  <2> QED
    BY <1>3, <2>1, <2>2, StopExperimentType, Untouched DEF UserStop, TypeOK
<1>4. CASE UserSendParameter
  <2>1. CASE Crash("item") \/ Crash("params")
    BY <2>1, CrashType
  <2>2. CASE ~(Crash("item") \/ Crash("params"))
    BY <1>4, <2>2, ParamsType, StackStep
       DEF UserSendParameter, TypeOK, ExperimentType
  <2> QED
    BY <2>1, <2>2
<1>5. CASE UserSendChangedParameter
  <2>1. CASE Crash("item") \/ Crash("modset") \/ Crash("params")
    BY <2>1, CrashType
  <2>2. CASE ~(Crash("item") \/ Crash("modset") \/ Crash("params"))
    BY <1>5, <2>2, ParamsType, StackStep
       DEF UserSendChangedParameter, TypeOK, ExperimentType
  <2> QED
    BY <2>1, <2>2
<1>6. CASE UserClose
  <2>1. /\ <<Do("finished")>> \in Seq(Step) /\ <<>> \in Seq(Step)
        /\ <<Do("exit")>> \in Seq(Step)
    BY FixedType DEF StepNames
  <2>2. todo' \in Seq(Step)
    BY <1>6, <2>1, ConcatType DEF UserClose
  <2> QED
    BY <1>6, <2>2, StackStep DEF UserClose
<1>7. ASSUME NEW e \in Exps, UserApplyExperiment(e) PROVE TypeOK'
  <2>1. ButtonsType' /\ FlagsType'
    BY <1>7 DEF UserApplyExperiment, TypeOK, ButtonsType, FlagsType
  <2>2. ExperimentType'
    BY <1>7 DEF UserApplyExperiment, TypeOK, ExperimentType
  <2> QED
    BY <1>7, <2>1, <2>2, Untouched DEF UserApplyExperiment, TypeOK
<1>8. ASSUME NEW e \in Exps, UserLoadLastMeas(e) PROVE TypeOK'
  <2>1. ButtonsType' /\ FlagsType'
    BY <1>8 DEF UserLoadLastMeas, TypeOK, ButtonsType, FlagsType
  <2>2. ExperimentType' /\ RecordType'
    BY <1>8 DEF UserLoadLastMeas, TypeOK, ExperimentType, RecordType
  <2> QED
    BY <1>8, <2>1, <2>2, Untouched DEF UserLoadLastMeas, TypeOK
<1> QED
  BY <1>1, <1>2, <1>3, <1>4, <1>5, <1>6, <1>7, <1>8, StartType DEF User

LEMMA EventLoopType == TypeOK /\ (HeartbeatTick \/ HandleEvent) => TypeOK'
<1> SUFFICES ASSUME TypeOK, HeartbeatTick \/ HandleEvent PROVE TypeOK'
  OBVIOUS
<1>1. CASE HeartbeatTick
  BY <1>1, BroadcastType, StackStep DEF HeartbeatTick, Messages
<1>2. ASSUME inbox # <<>>, inbox' = Tail(inbox), UNCHANGED <<reader, held, ghosts>>
      PROVE  ThreadsType'
  <2>1. Tail(inbox) \in Seq(Event)
    BY <1>2, HeadTailProperties DEF TypeOK, ThreadsType
  <2> QED
    BY <1>2, <2>1 DEF TypeOK, ThreadsType
<1>3. CASE HandleError
  <2>1. StackType'
    BY <1>3, FixedType DEF HandleError, StepNames, TypeOK, StackType
  <2>2. ThreadsType'
    BY <1>2, <1>3 DEF HandleError
  <2>3. IoType'
    BY <1>3, CloseConnectionType, Untouched DEF HandleError
  <2> QED
    BY <1>3, <2>1, <2>2, <2>3, Untouched DEF HandleError, TypeOK
<1>4. CASE HandleMissedBeat
  <2>1. /\ <<Do("finished")>> \in Seq(Step) /\ <<Do("save")>> \in Seq(Step)
        /\ <<>> \in Seq(Step)
    BY FixedType DEF StepNames
  <2>2. StackType'
    BY <1>4, <2>1, ConcatType DEF HandleMissedBeat, StopParamsTaken, TypeOK, StackType
  <2>3. ThreadsType'
    BY <1>2, <1>4 DEF HandleMissedBeat
  <2>4. ExperimentType'
    BY <1>4 DEF HandleMissedBeat, TypeOK, ExperimentType
  <2> QED
    BY <1>4, <2>2, <2>3, <2>4, Untouched DEF HandleMissedBeat, TypeOK
<1>5. CASE HandleData
  <2>1. StackType'
    BY <1>5 DEF HandleData, Takers, TypeOK, StackType
  <2>2. ThreadsType'
    BY <1>2, <1>5 DEF HandleData, Takers
  <2> QED
    BY <1>5, <2>1, <2>2, Untouched DEF HandleData, Takers, TypeOK
<1> QED
  BY <1>1, <1>3, <1>4, <1>5 DEF HandleEvent

LEMMA GuiStepType == TypeOK /\ GuiStep => TypeOK'
<1> SUFFICES ASSUME TypeOK, GuiStep PROVE TypeOK'
  OBVIOUS
<1>1. todo # <<>>
  BY DEF GuiStep, Next1, ConnectSucceeds, NewInstance, LinkOpens, Connected, ConnectFails, KeepParam, Finished,
         CloseOne, Forget, WriteMissing, WriteStale, WriteDelivered, WriteLost,
         WriteTimeout, WriteFails, ResetButtons, Halt, SaveLastMeas, ClockOff,
         ClockOn, Exit
<1>2. Tail(todo) \in Seq(Step) /\ Head(todo) \in Step
  BY <1>1, PopType DEF TypeOK, StackType
<1>3. Head(todo).to \in Optional /\ Head(todo).msg \in Messages
  BY <1>2 DEF Step
<1>4. /\ <<Do("finished")>> \in Seq(Step) /\ <<Do("reset")>> \in Seq(Step)
      /\ <<>> \in Seq(Step)
  BY FixedType DEF StepNames
<1>5. ASSUME todo' \in Seq(Step), UNCHANGED app PROVE StackType'
  BY <1>5 DEF TypeOK, StackType
<1>6. CASE ConnectSucceeds
  <2>1. StackType'
    BY <1>2, <1>5, <1>6 DEF ConnectSucceeds, NewInstance, LinkOpens, Connected
  <2>2. ButtonsType' /\ FlagsType'
    BY <1>6 DEF ConnectSucceeds, NewInstance, LinkOpens, Connected, TypeOK, ButtonsType, FlagsType
  <2>3. IoType'
    BY <1>3, <1>6 DEF ConnectSucceeds, NewInstance, LinkOpens, Connected, TypeOK, IoType
  <2>4. RigsType'
    BY <1>6, EmptySeq DEF ConnectSucceeds, NewInstance, LinkOpens, Connected, TypeOK, RigsType
  <2>5. ThreadsType'
    BY <1>6 DEF ConnectSucceeds, NewInstance, LinkOpens, Connected, TypeOK, ThreadsType
  <2> QED
    BY <1>6, <2>1, <2>2, <2>3, <2>4, <2>5, Untouched DEF ConnectSucceeds, NewInstance, LinkOpens, Connected, TypeOK
<1>7. CASE ConnectFails
  <2>1. StackType'
    BY <1>4, <1>5, <1>7 DEF ConnectFails
  <2>2. FlagsType'
    BY <1>7 DEF ConnectFails, TypeOK, FlagsType
  <2>3. IoType'
    BY <1>3, <1>7 DEF ConnectFails, TypeOK, IoType
  <2> QED
    BY <1>7, <2>1, <2>2, <2>3, Untouched DEF ConnectFails, TypeOK
<1>8. CASE KeepParam
  BY <1>2, <1>8, StackStep DEF KeepParam
<1>9. CASE Finished
  <2>1. ForEach("close") \in Seq(Step)
    BY ForEachType DEF StepNames
  <2>2. ForEach("close") \o <<Do("reset")>> \in Seq(Step)
    BY <2>1, <1>4, ConcatType
  <2>3. ForEach("close") \o <<Do("reset")>> \o Tail(todo) \in Seq(Step)
    BY <2>2, <1>2, ConcatType
  <2>4. CASE stopOn
    <3>1. StopExperiment(ForEach("close") \o <<Do("reset")>> \o Tail(todo))
      BY <1>9, <2>4 DEF Finished
    <3>2. StackType' /\ ButtonsType' /\ FlagsType' /\ ExperimentType'
      BY <1>5, <1>9, <2>3, <3>1, StopExperimentType DEF Finished
    <3> QED
      BY <1>9, <3>2, Untouched DEF Finished, TypeOK
  <2>5. CASE ~stopOn
    BY <1>9, <2>3, <2>5, StackStep DEF Finished
  <2> QED
    BY <2>4, <2>5
<1>10. CASE CloseOne
  <2>1. CASE inst[Head(todo).to] = "open"
    <3>1. /\ todo' = <<Do("finished"), At("forget", Head(todo).to)>> \o Tail(todo)
          /\ CloseConnection(Head(todo).to)
      BY <1>10, <2>1 DEF CloseOne
    <3>2. <<Do("finished"), At("forget", Head(todo).to)>> \in Seq(Step)
      BY <1>3 DEF Do, At, Step, StepNames, Messages, Optional
    <3>3. StackType'
      BY <1>2, <1>5, <1>10, <3>1, <3>2, ConcatType DEF CloseOne
    <3> QED
      BY <1>10, <3>1, <3>3, CloseConnectionType, Untouched DEF CloseOne, TypeOK
  <2>2. CASE inst[Head(todo).to] # "open"
    BY <1>2, <1>10, <2>2, StackStep DEF CloseOne
  <2> QED
    BY <2>1, <2>2
<1>11. CASE Forget
  <2>1. StackType'
    BY <1>2, <1>5, <1>11 DEF Forget
  <2>2. IoType'
    BY <1>11 DEF Forget, TypeOK, IoType
  <2> QED
    BY <1>11, <2>1, <2>2, Untouched DEF Forget, TypeOK
<1>12. CASE WriteMissing
  BY <1>12, CrashType DEF WriteMissing
<1>13. CASE WriteStale
  BY <1>2, <1>13, StackStep DEF WriteStale
<1>14. CASE WriteDelivered
  <2>1. ASSUME NEW c \in Conns
        PROVE  RigAfter(Head(todo).msg, rig[c]) \in {"idle", "run"}
    BY DEF RigAfter, TypeOK, RigsType
  <2>2. RigsType'
    BY <1>14, <2>1 DEF WriteDelivered, TypeOK, RigsType
  <2>3. StackType'
    BY <1>2, <1>5, <1>14 DEF WriteDelivered
  <2> QED
    BY <1>14, <2>2, <2>3, Untouched DEF WriteDelivered, TypeOK
<1>15. CASE WriteLost
  <2>1. IoType'
    BY <1>15 DEF WriteLost, TypeOK, IoType
  <2>2. StackType'
    BY <1>2, <1>5, <1>15 DEF WriteLost
  <2> QED
    BY <1>15, <2>1, <2>2, Untouched DEF WriteLost, TypeOK
<1>16. CASE WriteTimeout
  <2>1. IoType'
    BY <1>16 DEF WriteTimeout, TypeOK, IoType
  <2>2. StackType'
    BY <1>2, <1>5, <1>16 DEF WriteTimeout
  <2> QED
    BY <1>16, <2>1, <2>2, Untouched DEF WriteTimeout, TypeOK
<1>17. CASE WriteFails
  <2>1. StackType'
    BY <1>2, <1>4, <1>5, <1>17, ConcatType DEF WriteFails
  <2>2. IoType'
    BY <1>17, CloseConnectionType DEF WriteFails
  <2> QED
    BY <1>17, <2>1, <2>2, Untouched DEF WriteFails, TypeOK
<1>18. CASE ResetButtons
  <2>1. StackType'
    BY <1>2, <1>5, <1>18 DEF ResetButtons
  <2>2. ButtonsType' /\ FlagsType'
    BY <1>18 DEF ResetButtons, TypeOK, ButtonsType, FlagsType
  <2> QED
    BY <1>18, <2>1, <2>2, Untouched DEF ResetButtons, TypeOK
<1>19. CASE Halt
  <2>1. StackType' /\ ButtonsType' /\ FlagsType' /\ ExperimentType'
    BY <1>2, <1>5, <1>19, StopExperimentType DEF Halt
  <2> QED
    BY <1>19, <2>1, Untouched DEF Halt, TypeOK
<1>20. CASE SaveLastMeas
  <2>1. CASE current = 0
    BY <1>20, <2>1, CrashType DEF SaveLastMeas
  <2>2. CASE current # 0
    <3>1. RecordType'
      BY <1>20, <2>2 DEF SaveLastMeas, TypeOK, RecordType
    <3>2. StackType'
      BY <1>2, <1>5, <1>20, <2>2 DEF SaveLastMeas
    <3> QED
      BY <1>20, <2>2, <3>1, <3>2, Untouched DEF SaveLastMeas, TypeOK
  <2> QED
    BY <2>1, <2>2
<1>21. CASE ClockOff \/ ClockOn
  <2>1. FlagsType'
    BY <1>21 DEF ClockOff, ClockOn, TypeOK, FlagsType, TimerNames
  <2>2. StackType'
    BY <1>2, <1>5, <1>21 DEF ClockOff, ClockOn
  <2> QED
    BY <1>21, <2>1, <2>2, Untouched DEF ClockOff, ClockOn, TypeOK
<1>22. CASE Exit
  <2>1. StackType'
    BY <1>2, <1>22 DEF Exit, StackType
  <2> QED
    BY <1>22, <2>1, Untouched DEF Exit, TypeOK
<1> QED
  BY <1>6, <1>7, <1>8, <1>9, <1>10, <1>11, <1>12, <1>13, <1>14, <1>15, <1>16,
     <1>17, <1>18, <1>19, <1>20, <1>21, <1>22 DEF GuiStep

LEMMA ThreadsAndRigsType ==
  TypeOK /\ (GhostEmits \/ \E c \in Conns : Reader(c) \/ Outside(c)) => TypeOK'
<1>1. ASSUME TypeOK, GhostEmits PROVE TypeOK'
  <2>1. PICK g \in ghosts : inbox' = Append(inbox, g) /\ ghosts' = ghosts \ {g}
    BY <1>1 DEF GhostEmits
  <2>2. ThreadsType'
    BY <1>1, <2>1 DEF GhostEmits, TypeOK, ThreadsType
  <2> QED
    BY <1>1, <2>2, Untouched DEF GhostEmits, TypeOK
<1>2. ASSUME TypeOK, NEW c \in Conns, Reader(c) PROVE TypeOK'
  <2>1. CASE ReaderReceives(c)
    <3>1. out[c] \in Seq(RigFrames) /\ out[c] # <<>>
      BY <1>2, <2>1 DEF ReaderReceives, Receives, TypeOK, RigsType
    <3>2. Head(out[c]) \in RigFrames /\ Tail(out[c]) \in Seq(RigFrames)
      BY <3>1, HeadTailProperties
    <3>3. ThreadsType' /\ RigsType'
      BY <1>2, <2>1, <3>2 DEF ReaderReceives, Receives, TypeOK, ThreadsType, RigsType
    <3> QED
      BY <1>2, <2>1, <3>3, Untouched DEF ReaderReceives, Receives, TypeOK
  <2>2. CASE ReaderStops(c) \/ ReaderFails(c)
    <3>1. ThreadsType'
      BY <1>2, <2>2 DEF ReaderStops, ReaderFails, TypeOK, ThreadsType
    <3> QED
      BY <1>2, <2>2, <3>1, Untouched DEF ReaderStops, ReaderFails, TypeOK
  <2>3. CASE ReaderEmits(c)
    <3>1. Live(held[c], c) \in Event /\ Live("err", c) \in Event
      BY <1>2, LiveType DEF TypeOK, ThreadsType, RigFrames
    <3>2. /\ Append(inbox, Live(held[c], c)) \in Seq(Event)
          /\ Append(inbox, Live("err", c)) \in Seq(Event)
      BY <1>2, <3>1, AppendProperties DEF TypeOK, ThreadsType
    <3>3. inbox' \in Seq(Event)
      BY <2>3, <3>2 DEF ReaderEmits
    <3>4. \/ reader' = [reader EXCEPT ![c] = "recv"]
          \/ reader' = [reader EXCEPT ![c] = "off"]
      BY <2>3 DEF ReaderEmits
    <3>5. ThreadsType'
      BY <1>2, <2>3, <3>3, <3>4 DEF ReaderEmits, TypeOK, ThreadsType
    <3> QED
      BY <1>2, <2>3, <3>5, Untouched DEF ReaderEmits, TypeOK
  <2> QED
    BY <1>2, <2>1, <2>2, <2>3 DEF Reader
<1>3. ASSUME TypeOK, NEW c \in Conns, Outside(c) PROVE TypeOK'
  <2>1. CASE LinkResets(c)
    <3>1. IoType' /\ RigsType'
      BY <1>3, <2>1, EmptySeq DEF LinkResets, TypeOK, IoType, RigsType
    <3> QED
      BY <1>3, <2>1, <3>1, Untouched DEF LinkResets, TypeOK
  <2>2. CASE LinkEnds(c)
    <3>1. IoType'
      BY <1>3, <2>2 DEF LinkEnds, TypeOK, IoType
    <3> QED
      BY <1>3, <2>2, <3>1, Untouched DEF LinkEnds, TypeOK
  <2>3. CASE RigSends(c)
    <3>1. Append(out[c], "data") \in Seq(RigFrames)
      BY <1>3 DEF TypeOK, RigsType, RigFrames
    <3>2. RigsType'
      BY <1>3, <2>3, <3>1 DEF RigSends, TypeOK, RigsType
    <3> QED
      BY <1>3, <2>3, <3>2, Untouched DEF RigSends, TypeOK
  <2>4. CASE RigMissesBeat(c)
    <3>1. Append(out[c], "miss") \in Seq(RigFrames)
      BY <1>3 DEF TypeOK, RigsType, RigFrames
    <3>2. RigsType'
      BY <1>3, <2>4, <3>1 DEF RigMissesBeat, TypeOK, RigsType
    <3> QED
      BY <1>3, <2>4, <3>2, Untouched DEF RigMissesBeat, TypeOK
  <2> QED
    BY <1>3, <2>1, <2>2, <2>3, <2>4 DEF Outside
<1> QED
  BY <1>1, <1>2, <1>3

\* Every variable keeps its type in every behaviour of every instance.
THEOREM TypeCorrect == Spec => []TypeOK
<1>1. TypeOK /\ UNCHANGED vars => TypeOK'
  BY Untouched DEF vars, TypeOK
<1>2. TypeOK /\ [Next]_vars => TypeOK'
  BY <1>1, UserType, EventLoopType, GuiStepType, ThreadsAndRigsType DEF Next
<1> QED
  BY <1>2, InitType, PTL DEF Spec

-----------------------------------------------------------------------------
(* The names of the steps on a call stack.                                 *)

LEMMA NamesConcat ==
  ASSUME NEW s \in Seq(Step), NEW t \in Seq(Step)
  PROVE  Names(s \o t) = Names(s) \cup Names(t)
<1>1. /\ Len(s) \in Nat /\ Len(t) \in Nat
      /\ Len(s \o t) = Len(s) + Len(t)
      /\ \A i \in 1 .. Len(s) + Len(t) :
           (s \o t)[i] = IF i <= Len(s) THEN s[i] ELSE t[i - Len(s)]
  BY ConcatProperties, LenProperties
<1>2. Names(s \o t) \subseteq Names(s) \cup Names(t)
  <2> SUFFICES ASSUME NEW i \in 1..Len(s \o t)
               PROVE  (s \o t)[i].do \in Names(s) \cup Names(t)
    BY DEF Names
  <2>1. CASE i <= Len(s)
    <3>1. i \in 1..Len(s) /\ (s \o t)[i] = s[i]
      BY <1>1, <2>1
    <3> QED
      BY <3>1 DEF Names
  <2>2. CASE ~(i <= Len(s))
    <3>1. i - Len(s) \in 1..Len(t) /\ (s \o t)[i] = t[i - Len(s)]
      BY <1>1, <2>2
    <3> QED
      BY <3>1 DEF Names
  <2> QED
    BY <2>1, <2>2
<1>3. Names(s) \subseteq Names(s \o t)
  <2> SUFFICES ASSUME NEW i \in 1..Len(s) PROVE s[i].do \in Names(s \o t)
    BY DEF Names
  <2>1. i \in 1..Len(s \o t) /\ (s \o t)[i] = s[i]
    BY <1>1
  <2> QED
    BY <2>1 DEF Names
<1>4. Names(t) \subseteq Names(s \o t)
  <2> SUFFICES ASSUME NEW i \in 1..Len(t) PROVE t[i].do \in Names(s \o t)
    BY DEF Names
  <2>1. i + Len(s) \in 1..Len(s \o t) /\ (s \o t)[i + Len(s)] = t[i]
    BY <1>1
  <2> QED
    BY <2>1 DEF Names
<1> QED
  BY <1>2, <1>3, <1>4

LEMMA NamesPop ==
  ASSUME NEW s \in Seq(Step), s # <<>>
  PROVE  Names(s) = {Head(s).do} \cup Names(Tail(s))
<1>1. /\ Len(s) \in Nat \ {0}
      /\ Len(Tail(s)) = Len(s) - 1
      /\ \A i \in 1 .. Len(Tail(s)) : Tail(s)[i] = s[i+1]
      /\ Head(s) = s[1]
  BY HeadTailProperties, EmptySeq
<1>2. ASSUME NEW i \in 1..Len(s) PROVE s[i].do \in {Head(s).do} \cup Names(Tail(s))
  <2>1. CASE i = 1
    BY <1>1, <2>1
  <2>2. CASE i # 1
    <3>1. i - 1 \in 1..Len(Tail(s)) /\ Tail(s)[i - 1] = s[i]
      BY <1>1, <2>2
    <3> QED
      BY <3>1 DEF Names
  <2> QED
    BY <2>1, <2>2
<1>3. Head(s).do \in Names(s)
  BY <1>1 DEF Names
<1>4. ASSUME NEW i \in 1..Len(Tail(s)) PROVE Tail(s)[i].do \in Names(s)
  <2>1. i + 1 \in 1..Len(s) /\ Tail(s)[i] = s[i + 1]
    BY <1>1
  <2> QED
    BY <2>1 DEF Names
<1> QED
  BY <1>2, <1>3, <1>4 DEF Names

LEMMA NamesFixed ==
  /\ Names(<<>>) = {}
  /\ \A a : Names(<<Do(a)>>) = {a}
  /\ \A a, b : Names(<<Do(a), Do(b)>>) = {a, b}
  /\ \A a, b, d : Names(<<Do(a), Do(b), Do(d)>>) = {a, b, d}
  /\ \A a, b, c : Names(<<Do(a), At(b, c)>>) = {a, b}
BY DEF Names, Do, At

LEMMA NamesBroadcast == \A m : Names(Broadcast(m)) \subseteq {"write"}
BY ConnSeqAssumption DEF Names, Broadcast, Write

LEMMA NamesForEach == \A name : Names(ForEach(name)) \subseteq {name}
BY ConnSeqAssumption DEF Names, ForEach, At

LEMMA NamesStart ==
  ASSUME NEW e \in Exps
  PROVE  Names(StartParams(e)) \subseteq {"write"}
<1>1. /\ 2 * Len(ModulesOf[e]) \in Nat
      /\ DOMAIN StartParams(e) = 1..(2 * Len(ModulesOf[e]))
      /\ StartParams(e) \in Seq(Step)
  BY ModuleIndex, StartParamsType DEF StartParams
<1>2. Len(StartParams(e)) = 2 * Len(ModulesOf[e])
  BY <1>1, LenProperties
<1>3. \A i \in 1..(2 * Len(ModulesOf[e])) : StartParams(e)[i].do = "write"
  BY DEF StartParams, Write
<1> QED
  BY <1>2, <1>3 DEF Names

LEMMA NamesParams ==
  ASSUME NEW e \in Exps, NEW ms
  PROVE  Names(Params(e, ms)) \subseteq {"write", "keep"}
<1>1. /\ Len(ModulesOf[e]) \in Nat
      /\ DOMAIN Params(e, ms) = 1..Len(ModulesOf[e])
      /\ Params(e, ms) \in Seq(Step)
  BY ModuleIndex, ParamsType DEF Params
<1>2. Len(Params(e, ms)) = Len(ModulesOf[e])
  BY <1>1, LenProperties
<1>3. \A i \in 1..Len(ModulesOf[e]) : Params(e, ms)[i].do \in {"write", "keep"}
  BY DEF Params, Write, Do
<1> QED
  BY <1>2, <1>3 DEF Names

-----------------------------------------------------------------------------
(* Timers only in a run.                                                   *)

TimerState == <<connOn, startOn, stopOn, isConnected, timers, running>>

LEMMA Stack ==
  ASSUME TypeOK, todo # <<>>
  PROVE  /\ Tail(todo) \in Seq(Step)
         /\ Due = {Head(todo).do} \cup Names(Tail(todo))
BY PopType, NamesPop DEF TypeOK, StackType, Due

\* nothing the invariant speaks of changes
LEMMA SameTimers ==
  ASSUME TimerInv, UNCHANGED TimerState, UNCHANGED todo
  PROVE  TimerInv'
BY DEF TimerInv, TimerState, Due

\* handlers that start with an empty stack and push steps with no part in it
LEMMA FreshStack ==
  ASSUME TimerInv, UNCHANGED TimerState, Due = {},
         Due' \subseteq {"write", "keep", "finished", "exit", "save"}
  PROVE  TimerInv'
BY DEF TimerInv, TimerState

\* a failed start waits for its stop: only the save before it can come first
LEMMA HaltPending ==
  ASSUME TypeOK, TimerInv, "halt" \in Due
  PROVE  /\ Head(todo).do \in {"save", "halt"}
         /\ Head(todo).do = "save" => Tail(todo) = <<Do("halt"), Do("clockOn")>>
         /\ Head(todo).do = "halt" => Tail(todo) = <<Do("clockOn")>>
<1>1. CASE todo = <<Do("save"), Do("halt"), Do("clockOn")>>
  <2>1. /\ Head(todo) = Do("save")
        /\ Tail(todo) = <<Do("halt"), Do("clockOn")>>
    BY <1>1
  <2> QED
    BY <2>1 DEF Do
<1>2. CASE todo = <<Do("halt"), Do("clockOn")>>
  <2>1. Head(todo) = Do("halt") /\ Tail(todo) = <<Do("clockOn")>>
    BY <1>2
  <2> QED
    BY <2>1 DEF Do
<1> QED
  BY <1>1, <1>2 DEF TimerInv

\* MainGui.stopExperiment, from a handler that leaves rest on the stack
LEMMA StopTimers ==
  ASSUME TypeOK, TimerInv, NEW rest \in Seq(Step), StopExperiment(rest),
         ~connOn, "halt" \notin Names(rest), "connect" \in Names(rest) => timers = {}
  PROVE  TimerInv'
<1>1. Names(Params(exp, Mods)) \subseteq {"write", "keep"}
  BY NamesParams DEF TypeOK, ExperimentType
<1>2. Names(Broadcast("stop")) \subseteq {"write"}
  BY NamesBroadcast
<1>3. /\ <<Do("save"), Do("clockOff")>> \in Seq(Step)
      /\ <<Do("clockOff")>> \in Seq(Step)
      /\ Params(exp, Mods) \in Seq(Step) /\ Broadcast("stop") \in Seq(Step)
  BY FixedType, ParamsType, BroadcastType DEF StepNames, TypeOK, ExperimentType, Messages
<1>4. Params(exp, Mods) \o Broadcast("stop") \in Seq(Step)
  BY <1>3, ConcatType
<1>5. Names(Params(exp, Mods) \o Broadcast("stop")) \subseteq {"write", "keep"}
  BY <1>1, <1>2, <1>3, NamesConcat
<1>6. Params(exp, Mods) \o Broadcast("stop") \o <<Do("save"), Do("clockOff")>> \in Seq(Step)
  BY <1>3, <1>4, ConcatType
<1>7. Names(Params(exp, Mods) \o Broadcast("stop") \o <<Do("save"), Do("clockOff")>>)
        = Names(Params(exp, Mods) \o Broadcast("stop")) \cup {"save", "clockOff"}
  <2>1. Names(<<Do("save"), Do("clockOff")>>) = {"save", "clockOff"}
    BY NamesFixed
  <2>2. Names(Params(exp, Mods) \o Broadcast("stop") \o <<Do("save"), Do("clockOff")>>)
          = Names(Params(exp, Mods) \o Broadcast("stop"))
              \cup Names(<<Do("save"), Do("clockOff")>>)
    BY <1>3, <1>4, NamesConcat
  <2> QED
    BY <2>1, <2>2
<1>8. Names(Params(exp, Mods) \o Broadcast("stop") \o <<Do("save"), Do("clockOff")>> \o rest)
        = Names(Params(exp, Mods) \o Broadcast("stop")) \cup {"save", "clockOff"} \cup Names(rest)
  BY <1>6, <1>7, NamesConcat
<1>9. Names(<<Do("clockOff")>> \o rest) = {"clockOff"} \cup Names(rest)
  <2>1. Names(<<Do("clockOff")>> \o rest) = Names(<<Do("clockOff")>>) \cup Names(rest)
    BY <1>3, NamesConcat
  <2>2. Names(<<Do("clockOff")>>) = {"clockOff"}
    BY NamesFixed
  <2> QED
    BY <2>1, <2>2
<1>10. /\ Due' \subseteq {"write", "keep", "save", "clockOff"} \cup Names(rest)
       /\ "clockOff" \in Due'
  <2>1. CASE running
    <3>1. todo' = Params(exp, Mods) \o Broadcast("stop")
                    \o <<Do("save"), Do("clockOff")>> \o rest
      BY <2>1 DEF StopExperiment, StopSteps
    <3> QED
      BY <3>1, <1>5, <1>8 DEF Due
  <2>2. CASE ~running
    <3>1. todo' = <<Do("clockOff")>> \o rest
      BY <2>2 DEF StopExperiment, StopSteps
    <3> QED
      BY <3>1, <1>9 DEF Due
  <2> QED
    BY <2>1, <2>2
<1>11. /\ stopOn' = FALSE /\ connOn' = FALSE
       /\ timers' = timers \ {"plot", "heart"}
  BY DEF StopExperiment, StoppedTimers, TypeOK, FlagsType, ButtonsType
<1> QED
  BY <1>10, <1>11 DEF TimerInv

LEMMA TimersUser == TypeOK /\ TimerInv /\ User => TimerInv'
<1> SUFFICES ASSUME TypeOK, TimerInv, User PROVE TimerInv'
  OBVIOUS
<1> USE DEF buttons, flags, experiment, record, threads, io, rigs
<1>1. todo = <<>> /\ Due = {}
  <2>1. todo = <<>>
    BY DEF User, Idle, UserConnect, UserDisconnect, UserStart, UserStop,
           UserSendParameter, UserSendChangedParameter, UserClose,
           UserApplyExperiment, UserLoadLastMeas
  <2> QED
    BY <2>1, NamesFixed DEF Due
<1>2. CASE UserConnect
  <2>1. Due' \subseteq {"connect"}
    <3>1. todo' = ForEach("connect")
      BY <1>2 DEF UserConnect
    <3> QED
      BY <3>1, NamesForEach DEF Due
  <2>2. connOn /\ UNCHANGED TimerState
    BY <1>2 DEF UserConnect, TimerState
  <2>3. timers = {}
    BY <1>1, <2>2 DEF TimerInv, TypeOK, FlagsType, TimerNames
  <2> QED
    BY <2>1, <2>2, <2>3 DEF TimerInv, TimerState
<1>3. CASE UserDisconnect
  <2>1. todo' = <<Do("finished")>> /\ UNCHANGED TimerState
    BY <1>3 DEF UserDisconnect, TimerState
  <2> QED
    BY <1>1, <2>1, FreshStack, NamesFixed DEF Due
<1>4. CASE UserStart
  <2>1. /\ startOn /\ startOn' = FALSE /\ stopOn' = TRUE
        /\ UNCHANGED <<connOn, isConnected>>
    BY <1>4 DEF UserStart
  <2>2. ~stopOn /\ ~connOn /\ timers = {}
    BY <1>1, <2>1 DEF TimerInv, TypeOK, FlagsType, TimerNames
  <2>3. CASE DataOf(exp) = {}
    <3>1. UNCHANGED <<todo, timers>>
      BY <1>4, <2>3 DEF UserStart
    <3>2. Due' = {}
      BY <1>1, <3>1, NamesFixed DEF Due
    <3> QED
      BY <2>1, <2>2, <3>1, <3>2 DEF TimerInv
  <2>4. CASE DataOf(exp) # {}
    <3>1. "plot" \in timers' /\ "clock" \notin timers'
      <4>1. timers' = timers \cup {"plot"} \cup (IF Heartbeat THEN {"heart"} ELSE {})
        BY <1>4, <2>4 DEF UserStart
      <4> QED
        BY <2>2, <4>1
    <3>2. \/ /\ running' = TRUE
             /\ todo' = StartParams(exp) \o Broadcast("start") \o <<Do("clockOn")>>
          \/ todo' = <<Do("save"), Do("halt"), Do("clockOn")>>
      BY <1>4, <2>4, Zenon DEF UserStart
    <3>3. CASE /\ running' = TRUE
               /\ todo' = StartParams(exp) \o Broadcast("start") \o <<Do("clockOn")>>
      <4>1. /\ StartParams(exp) \in Seq(Step) /\ Broadcast("start") \in Seq(Step)
            /\ <<Do("clockOn")>> \in Seq(Step)
        BY StartParamsType, BroadcastType, FixedType
           DEF TypeOK, ExperimentType, Messages, StepNames
      <4>2. /\ Names(StartParams(exp)) \subseteq {"write"}
            /\ Names(Broadcast("start")) \subseteq {"write"}
            /\ Names(<<Do("clockOn")>>) = {"clockOn"}
        BY NamesStart, NamesBroadcast, NamesFixed DEF TypeOK, ExperimentType
      <4>3. /\ StartParams(exp) \o Broadcast("start") \in Seq(Step)
            /\ Names(StartParams(exp) \o Broadcast("start"))
                 = Names(StartParams(exp)) \cup Names(Broadcast("start"))
        BY <4>1, ConcatType, NamesConcat
      <4>4. Names(StartParams(exp) \o Broadcast("start") \o <<Do("clockOn")>>)
              = Names(StartParams(exp) \o Broadcast("start")) \cup Names(<<Do("clockOn")>>)
        BY <4>1, <4>3, NamesConcat
      <4>5. Due' \subseteq {"write", "clockOn"}
        BY <3>3, <4>2, <4>3, <4>4 DEF Due
      <4> QED
        BY <2>1, <2>2, <3>1, <3>3, <4>5 DEF TimerInv
    <3>4. CASE todo' = <<Do("save"), Do("halt"), Do("clockOn")>>
      <4>1. Due' = {"save", "halt", "clockOn"}
        BY <3>4, NamesFixed DEF Due
      <4> QED
        BY <2>1, <2>2, <3>1, <3>4, <4>1 DEF TimerInv
    <3> QED
      BY <3>2, <3>3, <3>4
  <2> QED
    BY <2>3, <2>4
<1>5. CASE UserStop
  <2>1. ~connOn
    BY <1>5 DEF UserStop, TimerInv
  <2>2. <<>> \in Seq(Step) /\ Names(<<>>) = {}
    BY FixedType, NamesFixed
  <2> QED
    BY <1>5, <2>1, <2>2, StopTimers DEF UserStop
<1>6. CASE UserSendParameter
  <2>1. UNCHANGED TimerState /\ (UNCHANGED todo \/ todo' = Params(exp, Mods))
    BY <1>6 DEF UserSendParameter, Crash, TimerState
  <2>2. Due' \subseteq {"write", "keep"}
    BY <1>1, <2>1, NamesParams, NamesFixed DEF Due, TypeOK, ExperimentType
  <2> QED
    BY <1>1, <2>1, <2>2, FreshStack
<1>7. CASE UserSendChangedParameter
  <2>1. /\ UNCHANGED TimerState
        /\ UNCHANGED todo \/ \E changed \in SUBSET ModsOf(exp) : todo' = Params(exp, changed)
    BY <1>7 DEF UserSendChangedParameter, Crash, TimerState
  <2>2. Due' \subseteq {"write", "keep"}
    BY <1>1, <2>1, NamesParams, NamesFixed DEF Due, TypeOK, ExperimentType
  <2> QED
    BY <1>1, <2>1, <2>2, FreshStack
<1>8. CASE UserClose
  <2>1. /\ <<Do("finished")>> \in Seq(Step) /\ <<>> \in Seq(Step)
        /\ <<Do("exit")>> \in Seq(Step)
    BY FixedType DEF StepNames
  <2>2. /\ Names(<<Do("finished")>> \o <<Do("exit")>>) = {"finished", "exit"}
        /\ Names(<<>> \o <<Do("exit")>>) = {"exit"}
    <3>1. /\ Names(<<Do("finished")>>) = {"finished"} /\ Names(<<>>) = {}
          /\ Names(<<Do("exit")>>) = {"exit"}
      BY NamesFixed
    <3>2. /\ Names(<<Do("finished")>> \o <<Do("exit")>>)
               = Names(<<Do("finished")>>) \cup Names(<<Do("exit")>>)
          /\ Names(<<>> \o <<Do("exit")>>) = Names(<<>>) \cup Names(<<Do("exit")>>)
      BY <2>1, NamesConcat
    <3> QED
      BY <3>1, <3>2
  <2>3. /\ UNCHANGED TimerState
        /\ \/ todo' = <<Do("finished")>> \o <<Do("exit")>>
           \/ todo' = <<>> \o <<Do("exit")>>
    BY <1>8 DEF UserClose, TimerState
  <2>4. Due' \subseteq {"finished", "exit"}
    BY <2>2, <2>3 DEF Due
  <2> QED
    BY <1>1, <2>3, <2>4, FreshStack
<1>9. CASE \E e \in Exps : UserApplyExperiment(e)
  <2>1. /\ UNCHANGED <<todo, connOn, stopOn, isConnected, timers, running>>
        /\ startOn' = (startOn \/ (isConnected /\ ~stopOn))
    BY <1>9 DEF UserApplyExperiment
  <2>2. Due' = Due
    BY <2>1 DEF Due
  <2> QED
    BY <1>1, <2>1, <2>2 DEF TimerInv
<1>10. CASE \E e \in Exps : UserLoadLastMeas(e)
  <2>1. /\ UNCHANGED <<todo, connOn, stopOn, isConnected, timers, running>>
        /\ startOn' = FALSE
    BY <1>10 DEF UserLoadLastMeas
  <2>2. Due' = Due
    BY <2>1 DEF Due
  <2> QED
    BY <1>1, <2>1, <2>2 DEF TimerInv
<1> QED
  BY <1>2, <1>3, <1>4, <1>5, <1>6, <1>7, <1>8, <1>9, <1>10 DEF User

LEMMA TimersEventLoop ==
  TypeOK /\ TimerInv /\ (HeartbeatTick \/ HandleEvent) => TimerInv'
<1> SUFFICES ASSUME TypeOK, TimerInv, HeartbeatTick \/ HandleEvent PROVE TimerInv'
  OBVIOUS
<1> USE DEF buttons, flags, experiment, record, threads, io, rigs
<1>1. todo = <<>> /\ Due = {}
  <2>1. todo = <<>>
    BY DEF HandleEvent, Idle, HeartbeatTick, HandleError, HandleMissedBeat, HandleData, Takers
  <2> QED
    BY <2>1, NamesFixed DEF Due
<1>2. CASE HeartbeatTick
  <2>1. todo' = Broadcast("beat") /\ UNCHANGED TimerState
    BY <1>2 DEF HeartbeatTick, TimerState
  <2>2. Due' \subseteq {"write"}
    BY <2>1, NamesBroadcast DEF Due
  <2> QED
    BY <1>1, <2>1, <2>2, FreshStack
<1>3. CASE HandleError
  <2>1. todo' = <<Do("finished"), Do("finished")>> /\ UNCHANGED TimerState
    BY <1>3 DEF HandleError, TimerState
  <2>2. Due' = {"finished"}
    BY <2>1, NamesFixed DEF Due
  <2> QED
    BY <1>1, <2>1, <2>2, FreshStack
<1>4. CASE HandleMissedBeat
  <2>1. /\ <<Do("finished")>> \in Seq(Step) /\ <<Do("save")>> \in Seq(Step)
        /\ <<>> \in Seq(Step)
    BY FixedType DEF StepNames
  <2>2. /\ Names(<<Do("save")>> \o <<Do("finished")>>) = {"save", "finished"}
        /\ Names(<<>> \o <<Do("finished")>>) = {"finished"}
    <3>1. /\ Names(<<Do("finished")>>) = {"finished"} /\ Names(<<>>) = {}
          /\ Names(<<Do("save")>>) = {"save"}
      BY NamesFixed
    <3>2. /\ Names(<<Do("save")>> \o <<Do("finished")>>)
               = Names(<<Do("save")>>) \cup Names(<<Do("finished")>>)
          /\ Names(<<>> \o <<Do("finished")>>) = Names(<<>>) \cup Names(<<Do("finished")>>)
      BY <2>1, NamesConcat
    <3> QED
      BY <3>1, <3>2
  <2>3. /\ UNCHANGED <<connOn, startOn, stopOn, isConnected, timers>>
        /\ \/ todo' = <<Do("save")>> \o <<Do("finished")>>
           \/ todo' = <<>> \o <<Do("finished")>>
    BY <1>4 DEF HandleMissedBeat
  <2>4. Due' \subseteq {"save", "finished"} /\ "finished" \in Due'
    BY <2>2, <2>3 DEF Due
  <2> QED
    BY <1>1, <2>3, <2>4 DEF TimerInv
<1>5. CASE HandleData
  <2>1. UNCHANGED todo /\ UNCHANGED TimerState
    BY <1>5 DEF HandleData, Takers, TimerState
  <2> QED
    BY <2>1, SameTimers
<1> QED
  BY <1>2, <1>3, <1>4, <1>5 DEF HandleEvent

LEMMA TimersGuiStep == TypeOK /\ TimerInv /\ GuiStep => TimerInv'
<1> SUFFICES ASSUME TypeOK, TimerInv, GuiStep PROVE TimerInv'
  OBVIOUS
<1> USE DEF buttons, flags, experiment, record, threads, io, rigs
<1> DEFINE n == Head(todo).do
           tail == Names(Tail(todo))
<1>1. todo # <<>>
  BY DEF GuiStep, Next1, ConnectSucceeds, NewInstance, LinkOpens, Connected, ConnectFails, KeepParam, Finished, CloseOne, Forget,
         WriteMissing, WriteStale, WriteDelivered, WriteLost, WriteTimeout,
         WriteFails, ResetButtons, Halt, SaveLastMeas, ClockOff, ClockOn, Exit
<1>2. Tail(todo) \in Seq(Step) /\ Due = {n} \cup tail
  BY <1>1, Stack
<1>3. "halt" \in Due => n \in {"save", "halt"}
  BY HaltPending
<1>4. ASSUME todo' = Tail(todo) PROVE Due' = tail
  BY <1>4 DEF Due
<1>5. /\ <<Do("finished")>> \in Seq(Step) /\ <<Do("reset")>> \in Seq(Step)
      /\ <<>> \in Seq(Step)
  BY FixedType DEF StepNames
<1> HIDE DEF n, tail
<1>6. ASSUME todo' = Tail(todo), UNCHANGED TimerState,
             n \notin {"clockOff", "finished", "save", "halt"}
      PROVE  TimerInv'
  <2>1. Due' = tail /\ "halt" \notin Due
    BY <1>3, <1>4, <1>6
  <2> QED
    BY <1>2, <1>6, <2>1 DEF TimerInv, TimerState
<1>7. CASE ConnectSucceeds \/ ConnectFails
  <2>1. /\ n = "connect" /\ UNCHANGED <<timers, running>>
        /\ \/ /\ todo' = Tail(todo)
              /\ connOn' = FALSE /\ stopOn' = FALSE
           \/ /\ todo' = <<>> /\ isConnected' = FALSE
              /\ UNCHANGED <<connOn, startOn, stopOn>>
    BY <1>7, Zenon DEF ConnectSucceeds, NewInstance, LinkOpens, Connected, ConnectFails, Next1, n
  <2>2. ~stopOn /\ timers = {} /\ "halt" \notin Due
    BY <1>2, <1>3, <2>1 DEF TimerInv
  <2>3. CASE todo' = Tail(todo) /\ connOn' = FALSE /\ stopOn' = FALSE
    BY <1>2, <1>4, <2>1, <2>2, <2>3 DEF TimerInv
  <2>4. CASE /\ todo' = <<>> /\ isConnected' = FALSE
             /\ UNCHANGED <<connOn, startOn, stopOn>>
    <3>1. Due' = {}
      BY <2>4, NamesFixed DEF Due
    <3> QED
      BY <2>1, <2>2, <2>4, <3>1 DEF TimerInv
  <2> QED
    BY <2>1, <2>3, <2>4
<1>8. CASE KeepParam \/ Forget \/ WriteStale \/ WriteDelivered \/ WriteLost \/ WriteTimeout
            \/ Exit
  <2>1. /\ n \in {"keep", "forget", "write", "exit"} /\ todo' = Tail(todo)
        /\ UNCHANGED TimerState
    BY <1>8 DEF KeepParam, Forget, WriteStale, WriteDelivered, WriteLost, WriteTimeout,
                Exit, Next1, TimerState, n
  <2> QED
    BY <1>6, <2>1
<1>9. CASE WriteMissing
  <2>1. UNCHANGED todo /\ UNCHANGED TimerState
    BY <1>9 DEF WriteMissing, Crash, TimerState
  <2> QED
    BY <2>1, SameTimers
<1>10. CASE WriteFails
  <2>1. /\ n = "write" /\ todo' = <<Do("finished")>> \o Tail(todo)
        /\ UNCHANGED TimerState
    BY <1>10 DEF WriteFails, Next1, TimerState, n
  <2>2. Names(<<Do("finished")>>) = {"finished"}
    BY NamesFixed
  <2>3. Due' = {"finished"} \cup tail
    BY <1>2, <1>5, <2>1, <2>2, NamesConcat DEF Due, tail
  <2> QED
    BY <1>2, <1>3, <2>1, <2>3 DEF TimerInv, TimerState
<1>11. CASE Finished
  <2>1. n = "finished" /\ "halt" \notin Due
    BY <1>2, <1>3, <1>11 DEF Finished, Next1, n
  <2>2. ForEach("close") \in Seq(Step) /\ Names(ForEach("close")) \subseteq {"close"}
    BY ForEachType, NamesForEach DEF StepNames
  <2>3. /\ ForEach("close") \o <<Do("reset")>> \in Seq(Step)
        /\ Names(ForEach("close") \o <<Do("reset")>>) \subseteq {"close", "reset"}
    <3>1. Names(<<Do("reset")>>) = {"reset"}
      BY NamesFixed
    <3>2. Names(ForEach("close") \o <<Do("reset")>>)
            = Names(ForEach("close")) \cup Names(<<Do("reset")>>)
      BY <1>5, <2>2, NamesConcat
    <3> QED
      BY <1>5, <2>2, <3>1, <3>2, ConcatType
  <2>4. /\ ForEach("close") \o <<Do("reset")>> \o Tail(todo) \in Seq(Step)
        /\ Names(ForEach("close") \o <<Do("reset")>> \o Tail(todo))
             \subseteq {"close", "reset"} \cup tail
        /\ tail \subseteq Names(ForEach("close") \o <<Do("reset")>> \o Tail(todo))
    BY <1>2, <2>3, ConcatType, NamesConcat DEF tail
  <2>5. CASE stopOn
    <3>1. StopExperiment(ForEach("close") \o <<Do("reset")>> \o Tail(todo))
      BY <1>11, <2>5 DEF Finished
    <3>2. ~connOn /\ "connect" \notin Due
      BY <2>5 DEF TimerInv
    <3> QED
      BY <1>2, <2>1, <2>4, <3>1, <3>2, StopTimers
  <2>6. CASE ~stopOn
    <3>1. /\ todo' = ForEach("close") \o <<Do("reset")>> \o Tail(todo)
          /\ UNCHANGED TimerState
      BY <1>11, <2>6 DEF Finished, TimerState
    <3>2. Due' \subseteq {"close", "reset"} \cup tail /\ tail \subseteq Due'
      BY <2>4, <3>1 DEF Due
    <3> QED
      BY <1>2, <2>1, <2>6, <3>1, <3>2 DEF TimerInv, TimerState
  <2> QED
    BY <2>5, <2>6
<1>12. CASE CloseOne
  <2>1. n = "close" /\ UNCHANGED TimerState
    BY <1>12 DEF CloseOne, Next1, TimerState, n
  <2>2. CASE todo' = Tail(todo)
    BY <1>6, <2>1, <2>2
  <2>3. CASE todo' # Tail(todo)
    <3>1. todo' = <<Do("finished"), At("forget", Head(todo).to)>> \o Tail(todo)
      BY <1>12, <2>3 DEF CloseOne
    <3>2. <<Do("finished"), At("forget", Head(todo).to)>> \in Seq(Step)
      <4>1. Head(todo).to \in Optional
        BY <1>1, PopType DEF TypeOK, StackType, Step
      <4> QED
        BY <4>1 DEF Do, At, Step, StepNames, Messages, Optional
    <3>3. Names(<<Do("finished"), At("forget", Head(todo).to)>>) = {"finished", "forget"}
      BY NamesFixed
    <3>4. Due' = {"finished", "forget"} \cup tail
      BY <1>2, <3>1, <3>2, <3>3, NamesConcat DEF Due, tail
    <3> QED
      BY <1>2, <1>3, <2>1, <3>4 DEF TimerInv, TimerState
  <2> QED
    BY <2>2, <2>3
<1>13. CASE ResetButtons
  <2>1. /\ n = "reset" /\ todo' = Tail(todo)
        /\ connOn' = TRUE /\ startOn' = FALSE /\ stopOn' = FALSE /\ isConnected' = FALSE
        /\ UNCHANGED <<timers, running>>
    BY <1>13 DEF ResetButtons, Next1, n
  <2>2. ~stopOn /\ "halt" \notin Due
    BY <1>2, <1>3, <2>1 DEF TimerInv
  <2>3. Due' = tail
    BY <1>4, <2>1
  <2> QED
    BY <1>2, <2>1, <2>2, <2>3 DEF TimerInv
<1>14. CASE Halt
  <2>1. n = "halt" /\ StopExperiment(Tail(todo))
    BY <1>14 DEF Halt, Next1, n
  <2>2. ~connOn /\ Tail(todo) = <<Do("clockOn")>>
    BY <1>2, <2>1, HaltPending DEF TimerInv, n
  <2>3. Names(Tail(todo)) = {"clockOn"}
    BY <2>2, NamesFixed
  <2> QED
    BY <1>2, <2>1, <2>2, <2>3, StopTimers
<1>15. CASE SaveLastMeas
  <2>1. n = "save" /\ UNCHANGED TimerState /\ (UNCHANGED todo \/ todo' = Tail(todo))
    BY <1>15 DEF SaveLastMeas, Crash, Next1, TimerState, n
  <2>2. CASE UNCHANGED todo
    BY <2>1, <2>2, SameTimers
  <2>3. CASE todo' = Tail(todo) /\ "halt" \notin Due
    <3>1. Due' = tail
      BY <1>4, <2>3
    <3> QED
      BY <1>2, <2>1, <2>3, <3>1 DEF TimerInv, TimerState
  <2>4. CASE todo' = Tail(todo) /\ "halt" \in Due
    <3>1. Tail(todo) = <<Do("halt"), Do("clockOn")>>
      BY <2>1, <2>4, HaltPending DEF n
    <3>2. Names(<<Do("halt"), Do("clockOn")>>) = {"halt", "clockOn"}
      BY NamesFixed
    <3>3. Due = {"save", "halt", "clockOn"}
      BY <1>2, <2>1, <3>1, <3>2 DEF tail
    <3>4. Due' = {"halt", "clockOn"} /\ todo' = <<Do("halt"), Do("clockOn")>>
      BY <2>4, <3>1, <3>2 DEF Due
    <3> QED
      BY <2>1, <3>3, <3>4 DEF TimerInv, TimerState
  <2> QED
    BY <2>1, <2>2, <2>3, <2>4
<1>16. CASE ClockOff
  <2>1. /\ n = "clockOff" /\ todo' = Tail(todo) /\ timers' = timers \ {"clock"}
        /\ UNCHANGED <<connOn, startOn, stopOn, isConnected, running>>
    BY <1>16 DEF ClockOff, Next1, n
  <2>2. Due' = tail /\ "halt" \notin Due
    BY <1>3, <1>4, <2>1
  <2> QED
    BY <1>2, <2>1, <2>2 DEF TimerInv
<1>17. CASE ClockOn
  <2>1. /\ n = "clockOn" /\ todo' = Tail(todo)
        /\ timers' = IF stopOn THEN timers \cup {"clock"} ELSE timers
        /\ UNCHANGED <<connOn, startOn, stopOn, isConnected, running>>
    BY <1>17 DEF ClockOn, Next1, n
  <2>2. Due' = tail /\ "halt" \notin Due
    BY <1>3, <1>4, <2>1
  <2> QED
    BY <1>2, <2>1, <2>2 DEF TimerInv
<1> QED
  BY <1>7, <1>8, <1>9, <1>10, <1>11, <1>12, <1>13, <1>14, <1>15, <1>16, <1>17 DEF GuiStep

LEMMA TimersThreads ==
  TimerInv /\ (GhostEmits \/ \E c \in Conns : Reader(c) \/ Outside(c)) => TimerInv'
<1> SUFFICES ASSUME TimerInv, GhostEmits \/ \E c \in Conns : Reader(c) \/ Outside(c)
             PROVE  TimerInv'
  OBVIOUS
<1>1. UNCHANGED todo /\ UNCHANGED TimerState
  BY DEF GhostEmits, Reader, ReaderReceives, Receives, ReaderStops, ReaderFails, ReaderEmits,
         Outside, LinkResets, LinkEnds, RigSends, RigMissesBeat,
         buttons, flags, experiment, TimerState
<1> QED
  BY <1>1, SameTimers

LEMMA TimersInit == Init => TimerInv
<1>1. Init => Due = {}
  BY NamesFixed DEF Init, Due
<1> QED
  BY <1>1 DEF Init, TimerInv

\* The inductive invariant holds in every behaviour of every instance.
THEOREM TimerInvariant == Spec => []TimerInv
<1>1. TypeOK /\ TimerInv /\ [Next]_vars => TimerInv'
  <2>1. TimerInv /\ UNCHANGED vars => TimerInv'
    BY SameTimers DEF vars, buttons, flags, experiment, TimerState
  <2> QED
    BY <2>1, TimersUser, TimersEventLoop, TimersGuiStep, TimersThreads DEF Next
<1> QED
  BY <1>1, TimersInit, TypeCorrect, PTL DEF Spec

\* Whenever the GUI is back in its event loop with a timer active, an experiment
\* runs and can be stopped: heartbeatTimer, timer and guiTimer never outlive it.
THEOREM TimersStopWithRun == Spec => []TimersOnlyInRun
<1>1. TypeOK /\ TimerInv => TimersOnlyInRun
  <2> SUFFICES ASSUME TypeOK, TimerInv, Idle, timers # {} PROVE running /\ stopOn
    BY DEF TimersOnlyInRun
  <2>1. Due = {}
    BY NamesFixed DEF Idle, Due
  <2>2. stopOn
    BY <2>1 DEF TimerInv, TypeOK, FlagsType, TimerNames
  <2> QED
    BY <2>1, <2>2 DEF TimerInv
<1> QED
  BY <1>1, TypeCorrect, TimerInvariant, PTL

=============================================================================
