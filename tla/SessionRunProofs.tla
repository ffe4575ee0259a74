-------------------------- MODULE SessionRunProofs --------------------------
(***************************************************************************)
(* Theorems about the run of an experiment in a session, for every number  *)
(* of connections, experiments and modules and every set of faults: it is  *)
(* recorded once, the buttons and isConnected agree with the connections,  *)
(* and no rig is activated outside of it.                                  *)
(*                                                                         *)
(* What makes this hard is that a failing write runs MainGui.disconnect in *)
(* the middle of another handler, so that the steps of several handlers    *)
(* wait on the call stack.  The invariants say of the steps that wait what *)
(* they will find, and what they will have done when the stack is empty.   *)
(***************************************************************************)
EXTENDS SessionProofs, FiniteSetTheorems

-----------------------------------------------------------------------------
(* The steps on a call stack.                                              *)

Elems(s) == {s[i] : i \in 1..Len(s)}

LEMMA ElemsConcat ==
  ASSUME NEW s \in Seq(Step), NEW t \in Seq(Step)
  PROVE  s \o t \in Seq(Step) /\ Elems(s \o t) = Elems(s) \cup Elems(t)
<1>1. /\ Len(s) \in Nat /\ Len(t) \in Nat /\ s \o t \in Seq(Step)
      /\ Len(s \o t) = Len(s) + Len(t)
      /\ \A i \in 1 .. Len(s) + Len(t) :
           (s \o t)[i] = IF i <= Len(s) THEN s[i] ELSE t[i - Len(s)]
  BY ConcatProperties, LenProperties
<1> DEFINE u == s \o t
           m == Len(s)
           n == Len(t)
<1>2. /\ m \in Nat /\ n \in Nat /\ Len(u) = m + n
      /\ \A i \in 1..(m + n) : u[i] = IF i <= m THEN s[i] ELSE t[i - m]
  BY <1>1
<1> HIDE DEF u, m, n
<1>3. ASSUME NEW i \in 1..(m + n) PROVE u[i] \in Elems(s) \cup Elems(t)
  <2>1. CASE i <= m
    BY <1>2, <2>1 DEF Elems, m
  <2>2. CASE ~(i <= m)
    <3>1. i - m \in 1..n /\ u[i] = t[i - m]
      BY <1>2, <2>2
    <3> QED
      BY <3>1 DEF Elems, n
  <2> QED
    BY <2>1, <2>2
<1>4. ASSUME NEW i \in 1..m PROVE s[i] \in Elems(u)
  <2>1. i \in 1..(m + n) /\ u[i] = s[i]
    BY <1>2
  <2> QED
    BY <2>1, <1>2 DEF Elems
<1>5. ASSUME NEW i \in 1..n PROVE t[i] \in Elems(u)
  <2>1. i + m \in 1..(m + n) /\ u[i + m] = t[i]
    BY <1>2
  <2> QED
    BY <2>1, <1>2 DEF Elems
<1>6. Elems(u) = Elems(s) \cup Elems(t)
  BY <1>2, <1>3, <1>4, <1>5 DEF Elems, m, n
<1> QED
  BY <1>1, <1>6 DEF u

LEMMA ElemsPop ==
  ASSUME NEW s \in Seq(Step), s # <<>>
  PROVE  Elems(s) = {Head(s)} \cup Elems(Tail(s))
<1>1. /\ Len(s) \in Nat \ {0}
      /\ Len(Tail(s)) = Len(s) - 1
      /\ \A i \in 1 .. Len(Tail(s)) : Tail(s)[i] = s[i+1]
      /\ Head(s) = s[1]
  BY HeadTailProperties, EmptySeq
<1>2. ASSUME NEW i \in 1..Len(s) PROVE s[i] \in {Head(s)} \cup Elems(Tail(s))
  <2>1. CASE i = 1
    BY <1>1, <2>1
  <2>2. CASE i # 1
    <3>1. i - 1 \in 1..Len(Tail(s)) /\ Tail(s)[i - 1] = s[i]
      BY <1>1, <2>2
    <3> QED
      BY <3>1 DEF Elems
  <2> QED
    BY <2>1, <2>2
<1>3. Head(s) \in Elems(s)
  BY <1>1 DEF Elems
<1>4. ASSUME NEW i \in 1..Len(Tail(s)) PROVE Tail(s)[i] \in Elems(s)
  <2>1. i + 1 \in 1..Len(s) /\ Tail(s)[i] = s[i + 1]
    BY <1>1
  <2> QED
    BY <2>1 DEF Elems
<1> QED
  BY <1>2, <1>3, <1>4 DEF Elems

LEMMA ElemsNames ==
  /\ \A s : \A x \in Elems(s) : x.do \in Names(s)
  /\ \A s : \A a \in Names(s) : \E x \in Elems(s) : x.do = a
BY DEF Elems, Names

\* the stacks of closeEvent and of a missed heartbeat
LEMMA NamesPairs ==
  \A a, b \in StepNames : /\ Names(<<Do(a)>> \o <<Do(b)>>) = {a, b}
                          /\ Names(<<>> \o <<Do(b)>>) = {b}
<1> SUFFICES ASSUME NEW a \in StepNames, NEW b \in StepNames
             PROVE  /\ Names(<<Do(a)>> \o <<Do(b)>>) = {a, b}
                    /\ Names(<<>> \o <<Do(b)>>) = {b}
  OBVIOUS
<1>1. /\ <<Do(a)>> \in Seq(Step) /\ <<Do(b)>> \in Seq(Step) /\ <<>> \in Seq(Step)
      /\ Names(<<Do(a)>>) = {a} /\ Names(<<Do(b)>>) = {b} /\ Names(<<>>) = {}
  BY FixedType, NamesFixed
<1>2. /\ Names(<<Do(a)>> \o <<Do(b)>>) = Names(<<Do(a)>>) \cup Names(<<Do(b)>>)
      /\ Names(<<>> \o <<Do(b)>>) = Names(<<>>) \cup Names(<<Do(b)>>)
  BY <1>1, NamesConcat
<1> QED
  BY <1>1, <1>2

LEMMA ElemsFixed ==
  /\ Elems(<<>>) = {}
  /\ \A a : Elems(<<a>>) = {a}
  /\ \A a, b : Elems(<<a, b>>) = {a, b}
  /\ \A a, b, c : Elems(<<a, b, c>>) = {a, b, c}
BY DEF Elems

\* Every connection is in the dict of connections.
LEMMA ElemsForEach ==
  \A name : /\ \A x \in Elems(ForEach(name)) : x.do = name /\ x.to \in Conns
            /\ \A c \in Conns : \E x \in Elems(ForEach(name)) : x.do = name /\ x.to = c
<1> SUFFICES ASSUME NEW name
             PROVE  /\ \A x \in Elems(ForEach(name)) : x.do = name /\ x.to \in Conns
                    /\ \A c \in Conns : \E x \in Elems(ForEach(name)) : x.do = name /\ x.to = c
  OBVIOUS
<1>1. Len(ConnSeq) \in Nat /\ ForEach(name) = [i \in 1..Len(ConnSeq) |-> At(name, ConnSeq[i])]
  BY ConnSeqAssumption DEF ForEach
<1>2. Len(ForEach(name)) = Len(ConnSeq)
  BY <1>1
<1>3. ASSUME NEW i \in 1..Len(ConnSeq)
      PROVE  ForEach(name)[i].do = name /\ ForEach(name)[i].to = ConnSeq[i]
  <2>1. ForEach(name)[i] = At(name, ConnSeq[i])
    BY <1>1
  <2> QED
    BY <2>1 DEF At
<1> QED
  BY <1>2, <1>3 DEF Elems, Conns

\* The commands that activate a rig.
Activates(x) == x.do = "write" /\ x.msg \in {"start", "beat"}

LEMMA ParamsQuiet == \A e \in Exps : \A ms : \A x \in Elems(Params(e, ms)) : ~Activates(x)
<1> SUFFICES ASSUME NEW e \in Exps, NEW ms, NEW x \in Elems(Params(e, ms)) PROVE ~Activates(x)
  OBVIOUS
<1>1. /\ Len(ModulesOf[e]) \in Nat
      /\ DOMAIN Params(e, ms) = 1..Len(ModulesOf[e])
      /\ Params(e, ms) \in Seq(Step)
  BY ModuleIndex, ParamsType DEF Params
<1>2. Len(Params(e, ms)) = Len(ModulesOf[e])
  BY <1>1, LenProperties
<1>3. PICK i \in 1..Len(ModulesOf[e]) : x = Params(e, ms)[i]
  BY <1>2 DEF Elems
<1>4. x.msg = "param"
  BY <1>3 DEF Params, Write, Do
<1> QED
  BY <1>4 DEF Activates

LEMMA StopQuiet == \A x \in Elems(Broadcast("stop")) : ~Activates(x)
<1> SUFFICES ASSUME NEW x \in Elems(Broadcast("stop")) PROVE ~Activates(x)
  OBVIOUS
<1>1. /\ Len(ConnSeq) \in Nat
      /\ Broadcast("stop") = [i \in 1..Len(ConnSeq) |-> Write(ConnSeq[i], "stop")]
  BY ConnSeqAssumption DEF Broadcast
<1>2. Len(Broadcast("stop")) = Len(ConnSeq)
  BY <1>1
<1>3. PICK i \in 1..Len(ConnSeq) : x = Broadcast("stop")[i]
  BY <1>2 DEF Elems
<1>4. x.msg = "stop"
  BY <1>1, <1>3 DEF Write
<1> QED
  BY <1>4 DEF Activates

-----------------------------------------------------------------------------
(* What the handlers push.                                                 *)

\* Exactly one save is still to come.
OneSave(s) == \E i \in 1..Len(s) :
                s[i].do = "save" /\ \A j \in 1..Len(s) : s[j].do = "save" => j = i

LEMMA OneSaveConcat ==
  ASSUME NEW s \in Seq(Step), NEW t \in Seq(Step),
         \/ OneSave(s) /\ "save" \notin Names(t)
         \/ "save" \notin Names(s) /\ OneSave(t)
  PROVE  OneSave(s \o t)
<1>1. /\ Len(s) \in Nat /\ Len(t) \in Nat
      /\ Len(s \o t) = Len(s) + Len(t)
      /\ \A i \in 1 .. Len(s) + Len(t) :
           (s \o t)[i] = IF i <= Len(s) THEN s[i] ELSE t[i - Len(s)]
  BY ConcatProperties, LenProperties
<1> DEFINE u == s \o t
           m == Len(s)
           n == Len(t)
<1>2. /\ m \in Nat /\ n \in Nat /\ Len(u) = m + n
      /\ \A i \in 1..(m + n) : u[i] = IF i <= m THEN s[i] ELSE t[i - m]
  BY <1>1
<1> HIDE DEF u, m, n
<1>3. CASE OneSave(s) /\ "save" \notin Names(t)
  <2>1. PICK i \in 1..m : s[i].do = "save" /\ \A j \in 1..m : s[j].do = "save" => j = i
    BY <1>3 DEF OneSave, m
  <2>2. \A j \in 1..n : t[j].do # "save"
    BY <1>3 DEF Names, n
  <2>3. i \in 1..(m + n) /\ u[i].do = "save"
    BY <1>2, <2>1
  <2>4. ASSUME NEW j \in 1..(m + n), u[j].do = "save" PROVE j = i
    <3>1. CASE j <= m
      BY <3>1, <2>4, <2>1, <1>2
    <3>2. CASE ~(j <= m)
      <4>1. j - m \in 1..n /\ u[j] = t[j - m]
        BY <3>2, <1>2
      <4> QED
        BY <4>1, <2>2, <2>4
    <3> QED
      BY <3>1, <3>2
  <2>5. OneSave(u)
    BY <2>3, <2>4, <1>2 DEF OneSave
  <2> QED
    BY <2>5 DEF u
<1>4. CASE "save" \notin Names(s) /\ OneSave(t)
  <2>1. PICK i \in 1..n : t[i].do = "save" /\ \A j \in 1..n : t[j].do = "save" => j = i
    BY <1>4 DEF OneSave, n
  <2>2. \A j \in 1..m : s[j].do # "save"
    BY <1>4 DEF Names, m
  <2>3. i + m \in 1..(m + n) /\ u[i + m].do = "save"
    BY <1>2, <2>1
  <2>4. ASSUME NEW j \in 1..(m + n), u[j].do = "save" PROVE j = i + m
    <3>1. CASE j <= m
      BY <3>1, <2>4, <2>2, <1>2
    <3>2. CASE ~(j <= m)
      <4>1. j - m \in 1..n /\ u[j] = t[j - m]
        BY <3>2, <1>2
      <4>2. j - m = i
        BY <4>1, <2>1, <2>4
      <4> QED
        BY <4>2, <1>2
    <3> QED
      BY <3>1, <3>2
  <2>5. OneSave(u)
    BY <2>3, <2>4, <1>2 DEF OneSave
  <2> QED
    BY <2>5 DEF u
<1> QED
  BY <1>3, <1>4

LEMMA OneSavePop ==
  ASSUME NEW s \in Seq(Step), s # <<>>, OneSave(s)
  PROVE  IF Head(s).do = "save" THEN "save" \notin Names(Tail(s)) ELSE OneSave(Tail(s))
<1>1. /\ Len(s) \in Nat \ {0}
      /\ Len(Tail(s)) = Len(s) - 1
      /\ \A i \in 1 .. Len(Tail(s)) : Tail(s)[i] = s[i+1]
      /\ Head(s) = s[1]
  BY HeadTailProperties, EmptySeq
<1> DEFINE t == Tail(s)
           n == Len(s)
<1>2. /\ n \in Nat \ {0} /\ Len(t) = n - 1 /\ \A i \in 1..(n - 1) : t[i] = s[i + 1]
  BY <1>1
<1>3. PICK i \in 1..n : s[i].do = "save" /\ \A j \in 1..n : s[j].do = "save" => j = i
  BY DEF OneSave
<1> HIDE DEF t, n
<1>4. CASE s[1].do = "save"
  <2>1. i = 1
    BY <1>2, <1>3, <1>4
  <2>2. ASSUME NEW j \in 1..(n - 1) PROVE t[j].do # "save"
    <3>1. j + 1 \in 1..n /\ j + 1 # 1 /\ t[j] = s[j + 1]
      BY <1>2
    <3> QED
      BY <3>1, <2>1, <1>3
  <2>3. "save" \notin Names(t)
    BY <2>2, <1>2 DEF Names
  <2> QED
    BY <2>3, <1>1, <1>4 DEF t
<1>5. CASE s[1].do # "save"
  <2>1. i - 1 \in 1..(n - 1) /\ t[i - 1].do = "save"
    <3>1. i # 1
      BY <1>3, <1>5
    <3>2. i - 1 \in 1..(n - 1) /\ (i - 1) + 1 = i
      BY <3>1, <1>2
    <3> QED
      BY <3>2, <1>2, <1>3
  <2>2. ASSUME NEW j \in 1..(n - 1), t[j].do = "save" PROVE j = i - 1
    <3>1. j + 1 \in 1..n /\ t[j] = s[j + 1]
      BY <1>2
    <3>2. j + 1 = i
      BY <3>1, <2>2, <1>3
    <3> QED
      BY <3>2, <1>2
  <2>3. OneSave(t)
    BY <2>1, <2>2, <1>2 DEF OneSave
  <2> QED
    BY <2>3, <1>1, <1>5 DEF t
<1> QED
  BY <1>4, <1>5


LEMMA StopStepsPush ==
  ASSUME TypeOK
  PROVE  /\ StopSteps \in Seq(Step)
         /\ Names(StopSteps) \subseteq {"write", "keep", "save", "clockOff"}
         /\ "clockOff" \in Names(StopSteps)
         /\ running => OneSave(StopSteps)
         /\ ~running => "save" \notin Names(StopSteps)
         /\ \A x \in Elems(StopSteps) : ~Activates(x)
<1> DEFINE p == Params(exp, Mods)
           b == Broadcast("stop")
           e == <<Do("save"), Do("clockOff")>>
<1>1. p \in Seq(Step) /\ b \in Seq(Step) /\ e \in Seq(Step) /\ <<Do("clockOff")>> \in Seq(Step)
  BY FixedType, ParamsType, BroadcastType DEF StepNames, TypeOK, ExperimentType, Messages
<1>2. Names(p) \subseteq {"write", "keep"} /\ Names(b) \subseteq {"write"}
  BY NamesParams, NamesBroadcast DEF TypeOK, ExperimentType
<1>3. Names(e) = {"save", "clockOff"} /\ Names(<<Do("clockOff")>>) = {"clockOff"}
  BY NamesFixed
<1>4. (\A x \in Elems(p) : ~Activates(x)) /\ (\A x \in Elems(b) : ~Activates(x))
  BY ParamsQuiet, StopQuiet DEF TypeOK, ExperimentType
<1>5. /\ \A x \in Elems(e) : ~Activates(x)
      /\ \A x \in Elems(<<Do("clockOff")>>) : ~Activates(x)
  <2>1. Elems(e) = {Do("save"), Do("clockOff")} /\ Elems(<<Do("clockOff")>>) = {Do("clockOff")}
    BY ElemsFixed
  <2> QED
    BY <2>1 DEF Activates, Do
<1>6. OneSave(e)
  <2>1. Len(e) = 2 /\ e[1].do = "save" /\ e[2].do = "clockOff"
    BY DEF Do
  <2> HIDE DEF e
  <2> QED
    BY <2>1 DEF OneSave
<1>7. StopSteps = IF running THEN (p \o b) \o e ELSE <<Do("clockOff")>>
  BY DEF StopSteps
<1> HIDE DEF p, b, e
<1>8. /\ p \o b \in Seq(Step) /\ Names(p \o b) \subseteq {"write", "keep"}
      /\ \A x \in Elems(p \o b) : ~Activates(x)
  BY <1>1, <1>2, <1>4, ConcatType, NamesConcat, ElemsConcat
<1>9. /\ (p \o b) \o e \in Seq(Step)
      /\ Names((p \o b) \o e) = Names(p \o b) \cup Names(e)
      /\ Elems((p \o b) \o e) = Elems(p \o b) \cup Elems(e)
      /\ OneSave((p \o b) \o e)
  <2>1. "save" \notin Names(p \o b)
    BY <1>8
  <2> QED
    BY <2>1, <1>1, <1>6, <1>8, ConcatType, NamesConcat, ElemsConcat, OneSaveConcat
<1>10. CASE running
  <2>1. StopSteps = (p \o b) \o e
    BY <1>7, <1>10
  <2> QED
    BY <2>1, <1>3, <1>5, <1>8, <1>9, <1>10
<1>11. CASE ~running
  <2>1. StopSteps = <<Do("clockOff")>>
    BY <1>7, <1>11
  <2> QED
    BY <2>1, <1>1, <1>3, <1>5, <1>11
<1> QED
  BY <1>10, <1>11

LEMMA StartStepsPush ==
  ASSUME NEW e \in Exps
  PROVE  /\ StartParams(e) \o Broadcast("start") \o <<Do("clockOn")>> \in Seq(Step)
         /\ Names(StartParams(e) \o Broadcast("start") \o <<Do("clockOn")>>)
              \subseteq {"write", "clockOn"}
<1> DEFINE p == StartParams(e)
           b == Broadcast("start")
           z == <<Do("clockOn")>>
<1>1. /\ p \in Seq(Step) /\ b \in Seq(Step) /\ z \in Seq(Step)
      /\ Names(p) \subseteq {"write"} /\ Names(b) \subseteq {"write"}
      /\ Names(z) = {"clockOn"}
  BY FixedType, StartParamsType, BroadcastType, NamesStart, NamesBroadcast, NamesFixed
     DEF StepNames, Messages
<1> HIDE DEF p, b, z
<1>2. p \o b \in Seq(Step) /\ Names(p \o b) = Names(p) \cup Names(b)
  BY <1>1, ConcatType, NamesConcat
<1>3. /\ (p \o b) \o z \in Seq(Step)
      /\ Names((p \o b) \o z) = Names(p \o b) \cup Names(z)
  BY <1>1, <1>2, ConcatType, NamesConcat
<1>4. Names((p \o b) \o z) \subseteq {"write", "clockOn"}
  BY <1>1, <1>2, <1>3
<1> QED
  BY <1>3, <1>4 DEF p, b, z

\* MainGui.disconnect: what it leaves on the stack closes every connection
LEMMA ClosingPush ==
  ASSUME NEW rest \in Seq(Step)
  PROVE  LET closing == ForEach("close") \o <<Do("reset")>> IN
         /\ closing \in Seq(Step) /\ closing \o rest \in Seq(Step)
         /\ Names(closing) \subseteq {"close", "reset"}
         /\ "reset" \in Names(closing \o rest)
         /\ Names(closing \o rest) \subseteq {"close", "reset"} \cup Names(rest)
         /\ Elems(closing \o rest) = Elems(closing) \cup Elems(rest)
         /\ \A x \in Elems(closing) : x.do = "close" => x.to \in Conns
         /\ \A c \in Conns : \E x \in Elems(closing) : x.do = "close" /\ x.to = c
<1> DEFINE f == ForEach("close")
           r == <<Do("reset")>>
<1>1. /\ f \in Seq(Step) /\ r \in Seq(Step)
      /\ Names(f) \subseteq {"close"} /\ Names(r) = {"reset"} /\ Elems(r) = {Do("reset")}
  BY ForEachType, FixedType, NamesForEach, NamesFixed, ElemsFixed DEF StepNames
<1>2. /\ \A c \in Conns : \E x \in Elems(f) : x.do = "close" /\ x.to = c
      /\ \A x \in Elems(f) : x.do = "close" /\ x.to \in Conns
  BY ElemsForEach
<1> HIDE DEF f, r
<1>3. /\ f \o r \in Seq(Step) /\ Names(f \o r) = Names(f) \cup Names(r)
      /\ Elems(f \o r) = Elems(f) \cup Elems(r)
  BY <1>1, ConcatType, NamesConcat, ElemsConcat
<1>4. /\ (f \o r) \o rest \in Seq(Step)
      /\ Names((f \o r) \o rest) = Names(f \o r) \cup Names(rest)
      /\ Elems((f \o r) \o rest) = Elems(f \o r) \cup Elems(rest)
  BY <1>3, ConcatType, NamesConcat, ElemsConcat
<1>5. \A x \in Elems(f \o r) : x.do = "close" => x.to \in Conns
  <2>1. Do("reset").do = "reset"
    BY DEF Do
  <2> QED
    BY <1>1, <1>2, <1>3, <2>1
<1>6. \A c \in Conns : \E x \in Elems(f \o r) : x.do = "close" /\ x.to = c
  BY <1>2, <1>3
<1> QED
  BY <1>1, <1>3, <1>4, <1>5, <1>6 DEF f, r


-----------------------------------------------------------------------------
(* Connections, buttons and isConnected.                                   *)

\* a handler on the stack will run MainGui.disconnect, or has yet to finish it
Ending == "finished" \in Due \/ "reset" \in Due

AllOpen == \A c \in Conns : inst[c] = "open"
SomeOpen == \E c \in Conns : inst[c] = "open"

\* The inductive invariant behind ButtonsMatch and ConnectedMeansAll.  A broken
\* connection leaves isConnected set and Connect off only while the handler that
\* noticed it is still on the stack, and MainGui.connect in the middle of its
\* loop has opened every connection it has no step left for.
LinksInv ==
  /\ running => stopOn
  /\ "connect" \in Due =>
       /\ Due = {"connect"}
       /\ \A c \in Conns : \/ inst[c] = "open"
                           \/ \E x \in Elems(todo) : x.do = "connect" /\ x.to = c
  /\ isConnected => "connect" \in Due \/ Ending \/ AllOpen
  /\ ~connOn => Ending \/ SomeOpen
  /\ \A x \in Elems(todo) : x.do \in {"connect", "close", "forget"} => x.to \in Conns
  /\ \A x \in Elems(todo) : x.do = "forget" => inst[x.to] # "open"

LinkState == <<running, stopOn, connOn, isConnected, inst>>

LEMMA SameLinks ==
  ASSUME LinksInv, UNCHANGED LinkState, UNCHANGED todo
  PROVE  LinksInv'
BY DEF LinksInv, LinkState, Due, Ending, AllOpen, SomeOpen

\* the names of the steps on the stack are the names of its elements
LEMMA Quiet ==
  ASSUME NEW s, NEW a, a \notin Names(s)
  PROVE  \A x \in Elems(s) : x.do # a
BY ElemsNames

\* a handler that starts with an empty stack
LEMMA FreshLinks ==
  ASSUME LinksInv, Due = {},
         Due' \subseteq {"write", "keep", "finished", "exit", "save", "halt",
                         "clockOff", "clockOn"},
         UNCHANGED <<connOn, isConnected>>, running' => stopOn',
         UNCHANGED inst \/ "finished" \in Due'
  PROVE  LinksInv'
<1>1. \A x \in Elems(todo') : x.do \notin {"connect", "close", "forget"}
  <2>1. Names(todo') = Due'
    BY DEF Due
  <2> QED
    BY <2>1, ElemsNames
<1>2. "connect" \notin Due' /\ "connect" \notin Due /\ ~Ending
  BY DEF Ending
<1>3. CASE "finished" \in Due'
  BY <1>1, <1>2, <1>3 DEF LinksInv, Ending
<1>4. CASE UNCHANGED inst
  <2>1. AllOpen' = AllOpen /\ SomeOpen' = SomeOpen
    BY <1>4 DEF AllOpen, SomeOpen
  <2> QED
    BY <1>1, <1>2, <2>1 DEF LinksInv
<1> QED
  BY <1>3, <1>4

\* a step that is over, and has neither opened nor closed anything
LEMMA PopLinks ==
  ASSUME TypeOK, LinksInv, todo # <<>>, todo' = Tail(todo),
         Head(todo).do \notin {"connect", "finished", "reset"},
         UNCHANGED <<running, stopOn, connOn, isConnected>>,
         \A c \in Conns : (inst'[c] = "open") <=> (inst[c] = "open")
  PROVE  LinksInv'
<1>1. Due = {Head(todo).do} \cup Names(Tail(todo)) /\ Due' = Names(Tail(todo))
  BY Stack DEF Due
<1>2. Elems(todo') \subseteq Elems(todo)
  BY ElemsPop DEF TypeOK, StackType
<1>3. "connect" \in Due => Due = {"connect"}
  BY DEF LinksInv
<1>4. "connect" \notin Due /\ "connect" \notin Due'
  BY <1>1, <1>3
<1>5. Ending' = Ending
  BY <1>1 DEF Ending
<1>6. AllOpen' = AllOpen /\ SomeOpen' = SomeOpen
  BY DEF AllOpen, SomeOpen
<1> QED
  BY <1>2, <1>4, <1>5, <1>6 DEF LinksInv

\* a step that leaves MainGui.disconnect on the stack
LEMMA EndingLinks ==
  ASSUME running' => stopOn', "connect" \notin Due', Ending',
         \A x \in Elems(todo') : x.do \in {"close", "forget"} => x.to \in Conns,
         \A x \in Elems(todo') : x.do = "forget" => inst'[x.to] # "open"
  PROVE  LinksInv'
<1>1. \A x \in Elems(todo') : x.do # "connect"
  <2>1. Names(todo') = Due'
    BY DEF Due
  <2> QED
    BY <2>1, ElemsNames
<1> QED
  BY <1>1 DEF LinksInv

LEMMA LinksUser == TypeOK /\ TimerInv /\ LinksInv /\ User => LinksInv'
<1> SUFFICES ASSUME TypeOK, TimerInv, LinksInv, User PROVE LinksInv'
  OBVIOUS
<1> USE DEF buttons, flags, experiment, record, threads, io, rigs
<1>1. todo = <<>> /\ Due = {}
  <2>1. todo = <<>>
    BY DEF User, Idle, UserConnect, UserDisconnect, UserStart, UserStop,
           UserSendParameter, UserSendChangedParameter, UserClose,
           UserApplyExperiment, UserLoadLastMeas
  <2> QED
    BY <2>1, NamesFixed DEF Due
<1>2. CASE UserConnect
  <2>1. todo' = ForEach("connect") /\ connOn /\ UNCHANGED LinkState
    BY <1>2 DEF UserConnect, LinkState
  <2>2. Due' \subseteq {"connect"}
    BY <2>1, NamesForEach DEF Due
  <2>3. /\ \A x \in Elems(todo') : x.do = "connect" /\ x.to \in Conns
        /\ \A c \in Conns : \E x \in Elems(todo') : x.do = "connect" /\ x.to = c
    BY <2>1, ElemsForEach
  <2>4. connOn' /\ ~isConnected' /\ ~running'
    BY <2>1 DEF TimerInv, LinksInv, LinkState
  <2> QED
    BY <2>2, <2>3, <2>4 DEF LinksInv
<1>3. CASE UserDisconnect
  <2>1. todo' = <<Do("finished")>> /\ UNCHANGED LinkState
    BY <1>3 DEF UserDisconnect, LinkState
  <2>2. Due' = {"finished"}
    BY <2>1, NamesFixed DEF Due
  <2> QED
    BY <1>1, <2>1, <2>2, FreshLinks DEF LinkState, LinksInv
<1>4. CASE UserStart
  <2>1. stopOn' = TRUE /\ UNCHANGED <<connOn, isConnected, inst>>
    BY <1>4 DEF UserStart
  <2>2. \/ UNCHANGED todo
        \/ todo' = StartParams(exp) \o Broadcast("start") \o <<Do("clockOn")>>
        \/ todo' = <<Do("save"), Do("halt"), Do("clockOn")>>
    BY <1>4, Zenon DEF UserStart
  <2>3. Due' \subseteq {"write", "keep", "clockOn", "save", "halt"}
    <3>1. Names(<<Do("save"), Do("halt"), Do("clockOn")>>) = {"save", "halt", "clockOn"}
      BY NamesFixed
    <3>2. Names(StartParams(exp) \o Broadcast("start") \o <<Do("clockOn")>>)
            \subseteq {"write", "clockOn"}
      BY StartStepsPush DEF TypeOK, ExperimentType
    <3> QED
      BY <1>1, <2>2, <3>1, <3>2 DEF Due
  <2> QED
    BY <1>1, <2>1, <2>3, FreshLinks
<1>5. CASE UserStop
  <2>1. /\ StopExperiment(<<>>) /\ UNCHANGED <<connOn, isConnected, inst>>
        /\ running' = FALSE /\ todo' = StopSteps \o <<>>
    BY <1>5 DEF UserStop, StopExperiment
  <2>2. /\ StopSteps \in Seq(Step)
        /\ Names(StopSteps) \subseteq {"write", "keep", "save", "clockOff"}
    BY StopStepsPush
  <2>3. Names(StopSteps \o <<>>) = Names(StopSteps) \cup Names(<<>>)
    BY <2>2, FixedType, NamesConcat
  <2>4. Due' \subseteq {"write", "keep", "save", "clockOff"}
    BY <2>1, <2>2, <2>3, NamesFixed DEF Due
  <2> QED
    BY <1>1, <2>1, <2>4, FreshLinks
<1>6. CASE UserSendParameter \/ UserSendChangedParameter
  <2>1. /\ UNCHANGED LinkState
        /\ \/ UNCHANGED todo
           \/ \E changed : todo' = Params(exp, changed)
    BY <1>6 DEF UserSendParameter, UserSendChangedParameter, Crash, LinkState
  <2>2. Due' \subseteq {"write", "keep"}
    BY <1>1, <2>1, NamesParams DEF Due, TypeOK, ExperimentType
  <2> QED
    BY <1>1, <2>1, <2>2, FreshLinks DEF LinkState, LinksInv
<1>7. CASE UserClose
  <2>1. /\ UNCHANGED LinkState
        /\ \/ todo' = <<Do("finished")>> \o <<Do("exit")>>
           \/ todo' = <<>> \o <<Do("exit")>>
    BY <1>7 DEF UserClose, LinkState
  <2>2. /\ Names(<<Do("finished")>> \o <<Do("exit")>>) = {"finished", "exit"}
        /\ Names(<<>> \o <<Do("exit")>>) = {"exit"}
    BY NamesPairs DEF StepNames
  <2>3. Due' \subseteq {"finished", "exit"}
    BY <2>1, <2>2 DEF Due
  <2> QED
    BY <1>1, <2>1, <2>3, FreshLinks DEF LinkState, LinksInv
<1>8. CASE \E e \in Exps : UserApplyExperiment(e) \/ UserLoadLastMeas(e)
  <2>1. UNCHANGED LinkState /\ UNCHANGED todo
    BY <1>8 DEF UserApplyExperiment, UserLoadLastMeas, LinkState
  <2> QED
    BY <2>1, SameLinks
<1> QED
  BY <1>2, <1>3, <1>4, <1>5, <1>6, <1>7, <1>8 DEF User

LEMMA LinksEventLoop ==
  TypeOK /\ LinksInv /\ (HeartbeatTick \/ HandleEvent) => LinksInv'
<1> SUFFICES ASSUME TypeOK, LinksInv, HeartbeatTick \/ HandleEvent PROVE LinksInv'
  OBVIOUS
<1> USE DEF buttons, flags, experiment, record, threads, io, rigs
<1>1. todo = <<>> /\ Due = {}
  <2>1. todo = <<>>
    BY DEF HandleEvent, Idle, HeartbeatTick, HandleError, HandleMissedBeat, HandleData
  <2> QED
    BY <2>1, NamesFixed DEF Due
<1>2. CASE HeartbeatTick
  <2>1. todo' = Broadcast("beat") /\ UNCHANGED LinkState
    BY <1>2 DEF HeartbeatTick, LinkState
  <2>2. Due' \subseteq {"write"}
    BY <2>1, NamesBroadcast DEF Due
  <2> QED
    BY <1>1, <2>1, <2>2, FreshLinks DEF LinkState, LinksInv
<1>3. CASE HandleError
  <2>1. /\ todo' = <<Do("finished"), Do("finished")>>
        /\ UNCHANGED <<running, stopOn, connOn, isConnected>>
    BY <1>3 DEF HandleError
  <2>2. Due' = {"finished"}
    BY <2>1, NamesFixed DEF Due
  <2> QED
    BY <1>1, <2>1, <2>2, FreshLinks DEF LinksInv
<1>4. CASE HandleMissedBeat
  <2>1. /\ UNCHANGED <<connOn, isConnected, inst>> /\ running' = FALSE
        /\ \/ todo' = <<Do("save")>> \o <<Do("finished")>>
           \/ todo' = <<>> \o <<Do("finished")>>
    BY <1>4 DEF HandleMissedBeat
  <2>2. /\ Names(<<Do("save")>> \o <<Do("finished")>>) = {"save", "finished"}
        /\ Names(<<>> \o <<Do("finished")>>) = {"finished"}
    BY NamesPairs DEF StepNames
  <2>3. Due' \subseteq {"save", "finished"}
    BY <2>1, <2>2 DEF Due
  <2> QED
    BY <1>1, <2>1, <2>3, FreshLinks
<1>5. CASE HandleData
  <2>1. UNCHANGED LinkState /\ UNCHANGED todo
    BY <1>5 DEF HandleData, LinkState
  <2> QED
    BY <2>1, SameLinks
<1> QED
  BY <1>2, <1>3, <1>4, <1>5 DEF HandleEvent


LEMMA LinksGuiStep == TypeOK /\ TimerInv /\ LinksInv /\ GuiStep => LinksInv'
<1> SUFFICES ASSUME TypeOK, TimerInv, LinksInv, GuiStep PROVE LinksInv'
  OBVIOUS
<1> USE DEF buttons, flags, experiment, record, threads, io, rigs
<1> DEFINE n == Head(todo).do
           tail == Names(Tail(todo))
<1>1. todo # <<>>
  BY DEF GuiStep, Next1, ConnectSucceeds, ConnectFails, KeepParam, Finished, CloseOne,
         Forget, WriteMissing, WriteStale, WriteDelivered, WriteLost, WriteTimeout,
         WriteFails, ResetButtons, Halt, SaveLastMeas, ClockOff, ClockOn, Exit
<1>2. /\ Tail(todo) \in Seq(Step) /\ Due = {n} \cup tail
      /\ Elems(todo) = {Head(todo)} \cup Elems(Tail(todo))
  BY <1>1, Stack, ElemsPop DEF TypeOK, StackType
<1>3. "connect" \in Due => n = "connect" /\ tail \subseteq {"connect"}
  BY <1>2 DEF LinksInv
<1>4. /\ <<Do("finished")>> \in Seq(Step) /\ Names(<<Do("finished")>>) = {"finished"}
      /\ Elems(<<Do("finished")>>) = {Do("finished")} /\ Do("finished").do = "finished"
  <2>1. <<Do("finished")>> \in Seq(Step) /\ Do("finished").do = "finished"
    BY FixedType DEF StepNames, Do
  <2> QED
    BY <2>1, NamesFixed, ElemsFixed
<1>5. CASE ConnectSucceeds
  <2>1. /\ n = "connect" /\ todo' = Tail(todo) /\ UNCHANGED running
        /\ inst' = [inst EXCEPT ![Head(todo).to] = "open"]
        /\ connOn' = FALSE /\ stopOn' = FALSE
    BY <1>5 DEF ConnectSucceeds, Next1, Connected
  <2>2. Due = {"connect"} /\ ~running /\ Due' = tail /\ tail \subseteq {"connect"}
    BY <1>2, <1>3, <2>1 DEF TimerInv, LinksInv, Due
  <2>3. ASSUME NEW c \in Conns
        PROVE  \/ inst'[c] = "open"
               \/ \E x \in Elems(todo') : x.do = "connect" /\ x.to = c
    <3>1. \/ inst[c] = "open"
          \/ \E x \in Elems(todo) : x.do = "connect" /\ x.to = c
      BY <2>2 DEF LinksInv
    <3>2. \A d \in Conns : inst'[d] = IF d = Head(todo).to THEN "open" ELSE inst[d]
      BY <2>1 DEF TypeOK, IoType
    <3> QED
      BY <3>1, <3>2, <1>2, <2>1
  <2>4. CASE Elems(todo') = {}
    <3>1. AllOpen' /\ SomeOpen'
      <4>1. \A c \in Conns : inst'[c] = "open"
        BY <2>3, <2>4
      <4>2. ConnSeq[1] \in Conns
        BY ConnSeqAssumption DEF Conns
      <4> QED
        BY <4>1, <4>2 DEF AllOpen, SomeOpen
    <3>2. "connect" \notin Due'
      BY <2>4, ElemsNames DEF Due
    <3> QED
      BY <2>1, <2>2, <2>4, <3>1, <3>2 DEF LinksInv
  <2>5. CASE Elems(todo') # {}
    <3>1. Due' = {"connect"}
      BY <2>1, <2>2, <2>5, ElemsNames DEF Due
    <3>2. \A x \in Elems(todo') : x.do = "connect" /\ x.to \in Conns
      BY <3>1, <1>2, <2>1, ElemsNames DEF Due, LinksInv
    <3>3. SomeOpen'
      <4>1. Head(todo).do = "connect" /\ Head(todo).to \in Conns
        BY <1>2, <2>1 DEF LinksInv
      <4>2. inst'[Head(todo).to] = "open"
        BY <2>1, <4>1 DEF TypeOK, IoType
      <4> QED
        BY <4>1, <4>2 DEF SomeOpen
    <3> QED
      BY <2>1, <2>2, <2>3, <3>1, <3>2, <3>3 DEF LinksInv
  <2> QED
    BY <2>4, <2>5
<1>6. CASE ConnectFails
  <2>1. /\ n = "connect" /\ todo' = <<>> /\ isConnected' = FALSE
        /\ UNCHANGED <<running, stopOn, connOn, inst>>
    BY <1>6 DEF ConnectFails, Next1
  <2>2. Due' = {} /\ Elems(todo') = {}
    BY <2>1, NamesFixed, ElemsFixed DEF Due
  <2>3. SomeOpen' = SomeOpen /\ ~Ending
    BY <1>2, <1>3, <2>1 DEF SomeOpen, Ending
  <2> QED
    BY <2>1, <2>2, <2>3 DEF LinksInv
<1>7. CASE KeepParam \/ WriteStale \/ WriteDelivered \/ WriteLost \/ WriteTimeout
             \/ ClockOff \/ ClockOn \/ Exit
  <2>1. /\ Head(todo).do \in {"keep", "write", "clockOff", "clockOn", "exit"}
        /\ todo' = Tail(todo) /\ UNCHANGED <<running, stopOn, connOn, isConnected, inst>>
    BY <1>7 DEF KeepParam, WriteStale, WriteDelivered, WriteLost, WriteTimeout,
                ClockOff, ClockOn, Exit, Next1
  <2> QED
    BY <1>1, <2>1, PopLinks
<1>8. CASE Forget
  <2>1. /\ Head(todo).do = "forget" /\ todo' = Tail(todo)
        /\ UNCHANGED <<running, stopOn, connOn, isConnected>>
        /\ inst' = [inst EXCEPT ![Head(todo).to] = "none"]
    BY <1>8 DEF Forget, Next1
  <2>2. inst[Head(todo).to] # "open"
    BY <1>2, <2>1 DEF LinksInv
  <2>3. \A c \in Conns : (inst'[c] = "open") <=> (inst[c] = "open")
    BY <2>1, <2>2 DEF TypeOK, IoType
  <2> QED
    BY <1>1, <2>1, <2>3, PopLinks
<1>9. CASE WriteMissing
  <2>1. UNCHANGED todo /\ UNCHANGED LinkState
    BY <1>9 DEF WriteMissing, Crash, LinkState
  <2> QED
    BY <2>1, SameLinks
<1>10. CASE WriteFails
  <2>1. /\ n = "write" /\ todo' = <<Do("finished")>> \o Tail(todo)
        /\ UNCHANGED <<running, stopOn>>
        /\ inst' = [inst EXCEPT ![Head(todo).to] = "stale"]
    BY <1>10 DEF WriteFails, CloseConnection, Next1
  <2>2. /\ Due' = {"finished"} \cup tail
        /\ Elems(todo') = {Do("finished")} \cup Elems(Tail(todo))
    BY <1>2, <1>4, <2>1, NamesConcat, ElemsConcat DEF Due
  <2>3. Ending' /\ "connect" \notin Due'
    BY <1>2, <1>3, <2>1, <2>2 DEF Ending
  <2>4. \A x \in Elems(todo') : x.do \in {"close", "forget"} => x.to \in Conns
    BY <1>2, <1>4, <2>2 DEF LinksInv
  <2>5. \A x \in Elems(todo') : x.do = "forget" => inst'[x.to] # "open"
    <3>1. \A d \in Conns : inst'[d] = IF d = Head(todo).to THEN "stale" ELSE inst[d]
      BY <2>1 DEF TypeOK, IoType
    <3> QED
      BY <1>2, <1>4, <2>2, <2>4, <3>1 DEF LinksInv
  <2> QED
    BY <2>1, <2>3, <2>4, <2>5, EndingLinks DEF LinksInv
<1>11. CASE Finished
  <2> DEFINE closing == ForEach("close") \o <<Do("reset")>>
             rest == closing \o Tail(todo)
  <2>1. n = "finished" /\ UNCHANGED inst
    BY <1>11 DEF Finished, Next1
  <2>2. /\ closing \in Seq(Step) /\ rest \in Seq(Step)
        /\ Names(closing) \subseteq {"close", "reset"}
        /\ "reset" \in Names(rest)
        /\ Names(rest) \subseteq {"close", "reset"} \cup tail
        /\ Elems(rest) = Elems(closing) \cup Elems(Tail(todo))
        /\ \A x \in Elems(closing) : x.do = "close" => x.to \in Conns
    BY <1>2, ClosingPush
  <2>3. \/ /\ running' = FALSE /\ todo' = StopSteps \o rest
        \/ /\ UNCHANGED <<running, stopOn>> /\ todo' = rest
    BY <1>11 DEF Finished, StopExperiment
  <2> HIDE DEF closing, rest
  <2>4. /\ StopSteps \in Seq(Step)
        /\ Names(StopSteps) \subseteq {"write", "keep", "save", "clockOff"}
    BY StopStepsPush
  <2>5. /\ Names(StopSteps \o rest) = Names(StopSteps) \cup Names(rest)
        /\ Elems(StopSteps \o rest) = Elems(StopSteps) \cup Elems(rest)
    BY <2>2, <2>4, NamesConcat, ElemsConcat
  <2>6. /\ "reset" \in Due'
        /\ Due' \subseteq {"write", "keep", "save", "clockOff", "close", "reset"} \cup tail
    BY <2>2, <2>3, <2>4, <2>5 DEF Due
  <2>7. Ending' /\ "connect" \notin Due'
    BY <1>2, <1>3, <2>1, <2>6 DEF Ending
  <2>8. \A x \in Elems(StopSteps) : x.do \notin {"close", "forget"}
    BY <2>4, ElemsNames
  <2>9. \A x \in Elems(closing) : x.do # "forget"
    BY <2>2, ElemsNames
  <2>10. \A x \in Elems(todo') : x.do \in {"close", "forget"} => x.to \in Conns
    BY <1>2, <2>2, <2>3, <2>5, <2>8, <2>9 DEF LinksInv
  <2>11. \A x \in Elems(todo') : x.do = "forget" => inst'[x.to] # "open"
    BY <1>2, <2>1, <2>2, <2>3, <2>5, <2>8, <2>9 DEF LinksInv
  <2>12. running' => stopOn'
    BY <2>3 DEF LinksInv
  <2> QED
    BY <2>7, <2>10, <2>11, <2>12, EndingLinks
<1>12. CASE CloseOne
  <2>1. /\ Head(todo).do = "close" /\ Head(todo).to \in Conns
        /\ UNCHANGED <<running, stopOn, connOn, isConnected>>
    <3>1. Head(todo).do = "close" /\ UNCHANGED <<running, stopOn, connOn, isConnected>>
      BY <1>12 DEF CloseOne, Next1
    <3> QED
      BY <1>2, <3>1 DEF LinksInv
  <2>2. CASE inst[Head(todo).to] # "open"
    <3>1. todo' = Tail(todo) /\ UNCHANGED inst
      BY <1>12, <2>2 DEF CloseOne
    <3> QED
      BY <1>1, <2>1, <3>1, PopLinks
  <2>3. CASE inst[Head(todo).to] = "open"
    <3> DEFINE push == <<Do("finished"), At("forget", Head(todo).to)>>
    <3>1. /\ todo' = push \o Tail(todo)
          /\ inst' = [inst EXCEPT ![Head(todo).to] = "stale"]
      BY <1>12, <2>3 DEF CloseOne, CloseConnection
    <3>2. /\ push \in Seq(Step) /\ Names(push) = {"finished", "forget"}
          /\ Elems(push) = {Do("finished"), At("forget", Head(todo).to)}
      <4>1. push \in Seq(Step)
        BY <2>1, FixedType DEF StepNames
      <4> QED
        BY <4>1, NamesFixed, ElemsFixed
    <3> HIDE DEF push
    <3>3. /\ Due' = {"finished", "forget"} \cup tail
          /\ Elems(todo') = {Do("finished"), At("forget", Head(todo).to)} \cup Elems(Tail(todo))
      BY <1>2, <3>1, <3>2, NamesConcat, ElemsConcat DEF Due
    <3>4. /\ Do("finished").do = "finished"
          /\ At("forget", Head(todo).to).do = "forget"
          /\ At("forget", Head(todo).to).to = Head(todo).to
      BY DEF Do, At
    <3>5. \A d \in Conns : inst'[d] = IF d = Head(todo).to THEN "stale" ELSE inst[d]
      BY <3>1 DEF TypeOK, IoType
    <3>6. Ending' /\ "connect" \notin Due'
      BY <1>2, <1>3, <2>1, <3>3 DEF Ending
    <3>7. \A x \in Elems(todo') : x.do \in {"close", "forget"} => x.to \in Conns
      BY <1>2, <2>1, <3>3, <3>4 DEF LinksInv
    <3>8. \A x \in Elems(todo') : x.do = "forget" => inst'[x.to] # "open"
      BY <1>2, <2>1, <3>3, <3>4, <3>5 DEF LinksInv
    <3>9. running' => stopOn'
      BY <2>1 DEF LinksInv
    <3> QED
      BY <3>6, <3>7, <3>8, <3>9, EndingLinks
  <2> QED
    BY <2>2, <2>3
<1>13. CASE ResetButtons
  <2>1. /\ n = "reset" /\ todo' = Tail(todo) /\ UNCHANGED <<running, inst>>
        /\ connOn' = TRUE /\ stopOn' = FALSE /\ isConnected' = FALSE
    BY <1>13 DEF ResetButtons, Next1
  <2>2. ~running /\ "connect" \notin Due
    BY <1>2, <1>3, <2>1 DEF TimerInv, LinksInv
  <2>3. "connect" \notin Due' /\ Elems(todo') \subseteq Elems(todo)
    BY <1>2, <2>1, <2>2 DEF Due
  <2> QED
    BY <2>1, <2>2, <2>3 DEF LinksInv
<1>14. CASE Halt
  <2>1. /\ n = "halt" /\ running' = FALSE /\ todo' = StopSteps \o Tail(todo)
        /\ UNCHANGED <<connOn, isConnected, inst>>
    BY <1>14 DEF Halt, StopExperiment, Next1
  <2>2. /\ StopSteps \in Seq(Step)
        /\ Names(StopSteps) \subseteq {"write", "keep", "save", "clockOff"}
    BY StopStepsPush
  <2>3. /\ Due' = Names(StopSteps) \cup tail
        /\ Elems(todo') = Elems(StopSteps) \cup Elems(Tail(todo))
    BY <1>2, <2>1, <2>2, NamesConcat, ElemsConcat DEF Due
  <2>4. "connect" \notin Due /\ "connect" \notin Due' /\ Ending' = Ending
    BY <1>2, <1>3, <2>1, <2>2, <2>3 DEF Ending
  <2>5. \A x \in Elems(StopSteps) : x.do \notin {"connect", "close", "forget"}
    BY <2>2, ElemsNames
  <2>6. AllOpen' = AllOpen /\ SomeOpen' = SomeOpen
    BY <2>1 DEF AllOpen, SomeOpen
  <2> QED
    BY <1>2, <2>1, <2>3, <2>4, <2>5, <2>6 DEF LinksInv
<1>15. CASE SaveLastMeas
  <2>1. /\ Head(todo).do = "save" /\ UNCHANGED LinkState
        /\ UNCHANGED todo \/ todo' = Tail(todo)
    BY <1>15 DEF SaveLastMeas, Crash, Next1, LinkState
  <2>2. CASE UNCHANGED todo
    BY <2>1, <2>2, SameLinks
  <2>3. CASE todo' = Tail(todo)
    BY <1>1, <2>1, <2>3, PopLinks DEF LinkState
  <2> QED
    BY <2>1, <2>2, <2>3
<1> QED
  BY <1>5, <1>6, <1>7, <1>8, <1>9, <1>10, <1>11, <1>12, <1>13, <1>14, <1>15 DEF GuiStep

LEMMA LinksThreads ==
  LinksInv /\ (GhostEmits \/ \E c \in Conns : Reader(c) \/ Outside(c)) => LinksInv'
<1> SUFFICES ASSUME LinksInv, GhostEmits \/ \E c \in Conns : Reader(c) \/ Outside(c)
             PROVE  LinksInv'
  OBVIOUS
<1>1. UNCHANGED todo /\ UNCHANGED LinkState
  BY DEF GhostEmits, Reader, ReaderReceives, ReaderStops, ReaderFails, ReaderEmits,
         Outside, LinkResets, LinkEnds, RigSends, RigMissesBeat,
         buttons, flags, experiment, io, LinkState
<1> QED
  BY <1>1, SameLinks

LEMMA LinksInit == Init => LinksInv
<1>1. Init => Due = {} /\ Elems(todo) = {}
  BY NamesFixed, ElemsFixed DEF Init, Due
<1> QED
  BY <1>1 DEF Init, LinksInv

THEOREM LinksInvariant == Spec => []LinksInv
<1>1. TypeOK /\ TimerInv /\ LinksInv /\ [Next]_vars => LinksInv'
  <2>1. LinksInv /\ UNCHANGED vars => LinksInv'
    BY SameLinks DEF vars, buttons, flags, experiment, io, LinkState
  <2> QED
    BY <2>1, LinksUser, LinksEventLoop, LinksGuiStep, LinksThreads DEF Next
<1> QED
  BY <1>1, LinksInit, TypeCorrect, TimerInvariant, PTL DEF Spec

\* Whenever the GUI is back in its event loop, isConnected says that every
\* connection is open: whatever breaks or refuses a connection clears it before
\* the handler is over.
THEOREM ConnectedIsAll == Spec => []ConnectedMeansAll
<1>1. LinksInv => ConnectedMeansAll
  <2> SUFFICES ASSUME LinksInv, Idle, isConnected PROVE AllOpen
    BY DEF ConnectedMeansAll, AllOpen
  <2>1. Due = {}
    BY NamesFixed DEF Idle, Due
  <2> QED
    BY <2>1 DEF LinksInv, Ending
<1> QED
  BY <1>1, LinksInvariant, PTL

\* Whenever the GUI is back in its event loop, Start is enabled only with an open
\* connection and without a running experiment, a running experiment can be
\* stopped, and Connect is off while anything can be started or stopped.
THEOREM ButtonsAgree == Spec => []ButtonsMatch
<1>1. TimerInv /\ LinksInv => ButtonsMatch
  <2> SUFFICES ASSUME TimerInv, LinksInv, Idle
               PROVE  /\ startOn => ~running /\ SomeOpen
                      /\ running => stopOn
                      /\ connOn => ~startOn /\ ~stopOn /\ ~isConnected
    BY DEF ButtonsMatch, SomeOpen
  <2>1. Due = {}
    BY NamesFixed DEF Idle, Due
  <2> QED
    BY <2>1 DEF TimerInv, LinksInv, Ending
<1> QED
  BY <1>1, TimerInvariant, LinksInvariant, PTL


-----------------------------------------------------------------------------
(* One measurement of each experiment.                                     *)

\* The inductive invariant behind RecordedOnce: while an experiment runs its
\* item is in the list and no save is on its way, and afterwards exactly one
\* handler on the stack has still to save it, or it has been saved.
RecInv ==
  /\ running => current = 1 /\ "save" \notin Due
  /\ ~running => \/ current = 0 /\ "save" \notin Due
                 \/ current = 1 /\ OneSave(todo)

\* a step that changes neither the experiment nor the saves to come
LEMMA SameRecord ==
  ASSUME RecInv, UNCHANGED <<running, current>>,
         "save" \notin Due => "save" \notin Due',
         OneSave(todo) => OneSave(todo')
  PROVE  RecInv'
BY DEF RecInv

LEMMA EmptyNoSave == ~OneSave(<<>>)
BY DEF OneSave

\* a handler that pushes no save, from an empty stack
LEMMA FreshRecord ==
  ASSUME RecInv, UNCHANGED <<running, current>>, todo = <<>>, "save" \notin Due'
  PROVE  RecInv'
BY EmptyNoSave, SameRecord

\* a step that is over
LEMMA PopRecord ==
  ASSUME TypeOK, RecInv, UNCHANGED <<running, current>>, todo # <<>>, todo' = Tail(todo),
         Head(todo).do # "save"
  PROVE  RecInv'
<1>1. "save" \notin Due => "save" \notin Due'
  BY Stack DEF Due
<1>2. OneSave(todo) => OneSave(todo')
  BY OneSavePop DEF TypeOK, StackType
<1> QED
  BY <1>1, <1>2, SameRecord

\* a step that is replaced by steps without a save
LEMMA PushRecord ==
  ASSUME TypeOK, RecInv, UNCHANGED <<running, current>>, todo # <<>>,
         Head(todo).do # "save",
         NEW s \in Seq(Step), "save" \notin Names(s), todo' = s \o Tail(todo)
  PROVE  RecInv'
<1>1. Tail(todo) \in Seq(Step) /\ Due = {Head(todo).do} \cup Names(Tail(todo))
  BY Stack
<1>2. Due' = Names(s) \cup Names(Tail(todo))
  BY <1>1, NamesConcat DEF Due
<1>3. OneSave(todo) => OneSave(todo')
  <2>1. OneSave(todo) => OneSave(Tail(todo))
    BY OneSavePop DEF TypeOK, StackType
  <2> QED
    BY <1>1, <2>1, OneSaveConcat
<1> QED
  BY <1>1, <1>2, <1>3, SameRecord

\* MainGui.stopExperiment, from a handler that leaves rest on the stack
LEMMA StopRecord ==
  ASSUME TypeOK, RecInv, NEW rest \in Seq(Step), StopExperiment(rest), UNCHANGED current,
         "save" \notin Due => "save" \notin Names(rest),
         OneSave(todo) => OneSave(rest)
  PROVE  RecInv'
<1>1. running' = FALSE /\ todo' = StopSteps \o rest
  BY DEF StopExperiment
<1>2. /\ StopSteps \in Seq(Step)
      /\ running => OneSave(StopSteps)
      /\ ~running => "save" \notin Names(StopSteps)
  BY StopStepsPush
<1>3. Due' = Names(StopSteps) \cup Names(rest)
  BY <1>1, <1>2, NamesConcat DEF Due
<1>4. CASE running
  <2>1. OneSave(StopSteps \o rest)
    BY <1>2, <1>4, OneSaveConcat DEF RecInv
  <2> QED
    BY <1>1, <1>4, <2>1 DEF RecInv
<1>5. CASE ~running /\ current = 0 /\ "save" \notin Due
  BY <1>1, <1>2, <1>3, <1>5 DEF RecInv
<1>6. CASE ~running /\ current = 1 /\ OneSave(todo)
  <2>1. OneSave(StopSteps \o rest)
    BY <1>2, <1>6, OneSaveConcat
  <2> QED
    BY <1>1, <1>6, <2>1 DEF RecInv
<1> QED
  BY <1>4, <1>5, <1>6 DEF RecInv

LEMMA RecordUser == TypeOK /\ TimerInv /\ LinksInv /\ RecInv /\ User => RecInv'
<1> SUFFICES ASSUME TypeOK, TimerInv, LinksInv, RecInv, User PROVE RecInv'
  OBVIOUS
<1> USE DEF buttons, flags, experiment, record, threads, io, rigs
<1>1. todo = <<>> /\ Due = {} /\ ~OneSave(todo)
  <2>1. todo = <<>>
    BY DEF User, Idle, UserConnect, UserDisconnect, UserStart, UserStop,
           UserSendParameter, UserSendChangedParameter, UserClose,
           UserApplyExperiment, UserLoadLastMeas
  <2> QED
    BY <2>1, NamesFixed, EmptyNoSave DEF Due
<1>2. CASE UserConnect
  <2>1. todo' = ForEach("connect") /\ UNCHANGED <<running, current>>
    BY <1>2 DEF UserConnect
  <2>2. "save" \notin Due'
    BY <2>1, NamesForEach DEF Due
  <2> QED
    BY <1>1, <2>1, <2>2, FreshRecord
<1>3. CASE UserDisconnect
  <2>1. todo' = <<Do("finished")>> /\ UNCHANGED <<running, current>>
    BY <1>3 DEF UserDisconnect
  <2>2. "save" \notin Due'
    BY <2>1, NamesFixed DEF Due
  <2> QED
    BY <1>1, <2>1, <2>2, FreshRecord
<1>4. CASE UserStart
  <2>1. ~running /\ current = 0
    BY <1>1, <1>4 DEF UserStart, TimerInv, LinksInv, RecInv
  <2>2. CASE DataOf(exp) = {}
    <3>1. UNCHANGED <<todo, running, current>>
      BY <1>4, <2>2 DEF UserStart
    <3> QED
      BY <1>1, <3>1, SameRecord DEF Due
  <2>3. CASE DataOf(exp) # {}
    <3>1. current' = current + 1
      BY <1>4, <2>3 DEF UserStart
    <3>2. \/ /\ running' = TRUE
             /\ todo' = StartParams(exp) \o Broadcast("start") \o <<Do("clockOn")>>
          \/ running' = FALSE /\ todo' = <<Do("save"), Do("halt"), Do("clockOn")>>
      BY <1>4, <2>3, Zenon DEF UserStart
    <3>3. current' = 1
      BY <2>1, <3>1
    <3>4. CASE /\ running' = TRUE
               /\ todo' = StartParams(exp) \o Broadcast("start") \o <<Do("clockOn")>>
      <4>1. Names(todo') \subseteq {"write", "clockOn"}
        BY <3>4, StartStepsPush DEF TypeOK, ExperimentType
      <4>2. "save" \notin Due'
        BY <4>1 DEF Due
      <4> QED
        BY <3>3, <3>4, <4>2 DEF RecInv
    <3>5. CASE running' = FALSE /\ todo' = <<Do("save"), Do("halt"), Do("clockOn")>>
      <4>1. /\ Len(todo') = 3 /\ todo'[1].do = "save" /\ todo'[2].do = "halt"
            /\ todo'[3].do = "clockOn"
        BY <3>5 DEF Do
      <4>2. OneSave(todo')
        BY <4>1 DEF OneSave
      <4> QED
        BY <3>3, <3>5, <4>2 DEF RecInv
    <3> QED
      BY <3>2, <3>4, <3>5
  <2> QED
    BY <2>2, <2>3
<1>5. CASE UserStop
  <2>1. StopExperiment(<<>>) /\ UNCHANGED current
    BY <1>5 DEF UserStop
  <2>2. <<>> \in Seq(Step) /\ Names(<<>>) = {}
    BY FixedType, NamesFixed
  <2> QED
    BY <1>1, <2>1, <2>2, StopRecord
<1>6. CASE UserSendParameter \/ UserSendChangedParameter
  <2>1. /\ UNCHANGED <<running, current>>
        /\ \/ UNCHANGED todo
           \/ \E changed : todo' = Params(exp, changed)
    BY <1>6 DEF UserSendParameter, UserSendChangedParameter, Crash
  <2>2. Due' \subseteq {"write", "keep"}
    BY <1>1, <2>1, NamesParams DEF Due, TypeOK, ExperimentType
  <2> QED
    BY <1>1, <2>1, <2>2, FreshRecord
<1>7. CASE UserClose
  <2>1. /\ UNCHANGED <<running, current>>
        /\ \/ todo' = <<Do("finished")>> \o <<Do("exit")>>
           \/ todo' = <<>> \o <<Do("exit")>>
    BY <1>7 DEF UserClose
  <2>2. /\ Names(<<Do("finished")>> \o <<Do("exit")>>) = {"finished", "exit"}
        /\ Names(<<>> \o <<Do("exit")>>) = {"exit"}
    BY NamesPairs DEF StepNames
  <2>3. Due' \subseteq {"finished", "exit"}
    BY <2>1, <2>2 DEF Due
  <2> QED
    BY <1>1, <2>1, <2>3, FreshRecord
<1>8. CASE \E e \in Exps : UserApplyExperiment(e) \/ UserLoadLastMeas(e)
  <2>1. UNCHANGED <<running, current, todo>>
    BY <1>8 DEF UserApplyExperiment, UserLoadLastMeas
  <2> QED
    BY <2>1, SameRecord DEF Due
<1> QED
  BY <1>2, <1>3, <1>4, <1>5, <1>6, <1>7, <1>8 DEF User

LEMMA RecordEventLoop ==
  TypeOK /\ RecInv /\ (HeartbeatTick \/ HandleEvent) => RecInv'
<1> SUFFICES ASSUME TypeOK, RecInv, HeartbeatTick \/ HandleEvent PROVE RecInv'
  OBVIOUS
<1> USE DEF buttons, flags, experiment, record, threads, io, rigs
<1>1. todo = <<>> /\ Due = {} /\ ~OneSave(todo)
  <2>1. todo = <<>>
    BY DEF HandleEvent, Idle, HeartbeatTick, HandleError, HandleMissedBeat, HandleData
  <2> QED
    BY <2>1, NamesFixed, EmptyNoSave DEF Due
<1>2. CASE HeartbeatTick
  <2>1. todo' = Broadcast("beat") /\ UNCHANGED <<running, current>>
    BY <1>2 DEF HeartbeatTick
  <2>2. "save" \notin Due'
    BY <2>1, NamesBroadcast DEF Due
  <2> QED
    BY <1>1, <2>1, <2>2, FreshRecord
<1>3. CASE HandleError
  <2>1. todo' = <<Do("finished"), Do("finished")>> /\ UNCHANGED <<running, current>>
    BY <1>3 DEF HandleError
  <2>2. "save" \notin Due'
    BY <2>1, NamesFixed DEF Due
  <2> QED
    BY <1>1, <2>1, <2>2, FreshRecord
<1>4. CASE HandleMissedBeat
  <2>1. /\ running' = FALSE /\ UNCHANGED current
        /\ running => todo' = <<Do("save")>> \o <<Do("finished")>>
        /\ ~running => todo' = <<>> \o <<Do("finished")>>
    BY <1>4 DEF HandleMissedBeat
  <2>2. CASE running
    <3>1. /\ Len(<<Do("save")>>) = 1 /\ <<Do("save")>>[1].do = "save"
          /\ Names(<<Do("finished")>>) = {"finished"}
      BY NamesFixed DEF Do
    <3>2. OneSave(<<Do("save")>>)
      BY <3>1 DEF OneSave
    <3>3. OneSave(<<Do("save")>> \o <<Do("finished")>>)
      BY <3>1, <3>2, FixedType, OneSaveConcat DEF StepNames
    <3> QED
      BY <2>1, <2>2, <3>3 DEF RecInv
  <2>3. CASE ~running
    <3>1. Names(<<>> \o <<Do("finished")>>) = Names(<<>>) \cup Names(<<Do("finished")>>)
      BY FixedType, NamesConcat DEF StepNames
    <3>2. Names(<<>>) = {} /\ Names(<<Do("finished")>>) = {"finished"}
      BY NamesFixed
    <3>3. Due' = {"finished"}
      BY <2>1, <2>3, <3>1, <3>2 DEF Due
    <3> QED
      BY <1>1, <2>1, <2>3, <3>3 DEF RecInv
  <2> QED
    BY <2>2, <2>3
<1>5. CASE HandleData
  <2>1. UNCHANGED <<running, current, todo>>
    BY <1>5 DEF HandleData
  <2> QED
    BY <2>1, SameRecord DEF Due
<1> QED
  BY <1>2, <1>3, <1>4, <1>5 DEF HandleEvent

LEMMA RecordGuiStep == TypeOK /\ LinksInv /\ RecInv /\ GuiStep => RecInv'
<1> SUFFICES ASSUME TypeOK, LinksInv, RecInv, GuiStep PROVE RecInv'
  OBVIOUS
<1> USE DEF buttons, flags, experiment, record, threads, io, rigs
<1> DEFINE tail == Names(Tail(todo))
<1>1. todo # <<>> /\ todo \in Seq(Step)
  BY DEF GuiStep, Next1, ConnectSucceeds, ConnectFails, KeepParam, Finished, CloseOne,
         Forget, WriteMissing, WriteStale, WriteDelivered, WriteLost, WriteTimeout,
         WriteFails, ResetButtons, Halt, SaveLastMeas, ClockOff, ClockOn, Exit,
         TypeOK, StackType
<1>2. Tail(todo) \in Seq(Step) /\ Due = {Head(todo).do} \cup tail
  BY <1>1, Stack
<1>3. CASE \/ ConnectSucceeds \/ KeepParam \/ Forget \/ WriteStale \/ WriteDelivered
           \/ WriteLost \/ WriteTimeout \/ ResetButtons \/ ClockOff \/ ClockOn \/ Exit
  <2>1. /\ Head(todo).do # "save" /\ todo' = Tail(todo) /\ UNCHANGED <<running, current>>
    BY <1>3 DEF ConnectSucceeds, KeepParam, Forget, WriteStale, WriteDelivered, WriteLost,
                WriteTimeout, ResetButtons, ClockOff, ClockOn, Exit, Next1
  <2> QED
    BY <1>1, <2>1, PopRecord
<1>4. CASE ConnectFails
  <2>1. Head(todo).do = "connect" /\ todo' = <<>> /\ UNCHANGED <<running, current>>
    BY <1>4 DEF ConnectFails, Next1
  <2>2. "save" \notin Due
    BY <1>2, <2>1 DEF LinksInv
  <2>3. ~OneSave(todo)
    BY <2>2 DEF OneSave, Due, Names
  <2>4. Due' = {}
    BY <2>1, NamesFixed DEF Due
  <2> QED
    BY <2>1, <2>3, <2>4, SameRecord
<1>5. CASE WriteMissing
  <2>1. UNCHANGED <<running, current, todo>>
    BY <1>5 DEF WriteMissing, Crash
  <2> QED
    BY <2>1, SameRecord DEF Due
<1>6. CASE WriteFails
  <2>1. /\ Head(todo).do = "write" /\ todo' = <<Do("finished")>> \o Tail(todo)
        /\ UNCHANGED <<running, current>>
    BY <1>6 DEF WriteFails, Next1
  <2>2. <<Do("finished")>> \in Seq(Step) /\ Names(<<Do("finished")>>) = {"finished"}
    BY FixedType, NamesFixed DEF StepNames
  <2> QED
    BY <1>1, <2>1, <2>2, PushRecord
<1>7. CASE Finished
  <2> DEFINE closing == ForEach("close") \o <<Do("reset")>>
             rest == closing \o Tail(todo)
  <2>1. Head(todo).do = "finished" /\ UNCHANGED current
    BY <1>7 DEF Finished, Next1
  <2>2. /\ closing \in Seq(Step) /\ rest \in Seq(Step)
        /\ Names(closing) \subseteq {"close", "reset"}
        /\ Names(rest) \subseteq {"close", "reset"} \cup tail
    BY <1>2, ClosingPush
  <2>3. \/ StopExperiment(rest)
        \/ todo' = rest /\ UNCHANGED running
    BY <1>7 DEF Finished
  <2>4. CASE StopExperiment(rest)
    <3>1. "save" \notin Due => "save" \notin Names(rest)
      BY <1>2, <2>2
    <3>2. OneSave(todo) => OneSave(rest)
      <4>1. OneSave(todo) => OneSave(Tail(todo))
        BY <1>1, <2>1, OneSavePop
      <4>2. "save" \notin Names(closing)
        BY <2>2
      <4> HIDE DEF closing
      <4> QED
        BY <1>2, <2>2, <4>1, <4>2, OneSaveConcat
    <3> HIDE DEF rest
    <3> QED
      BY <2>1, <2>2, <2>4, <3>1, <3>2, StopRecord
  <2>5. CASE todo' = rest /\ UNCHANGED running
    <3>1. "save" \notin Names(closing) /\ todo' = closing \o Tail(todo)
      BY <2>2, <2>5
    <3> HIDE DEF closing, rest
    <3> QED
      BY <1>1, <2>1, <2>2, <2>5, <3>1, PushRecord
  <2> QED
    BY <2>3, <2>4, <2>5
<1>8. CASE CloseOne
  <2>1. Head(todo).do = "close" /\ UNCHANGED <<running, current>>
    BY <1>8 DEF CloseOne, Next1
  <2>2. CASE inst[Head(todo).to] # "open"
    <3>1. todo' = Tail(todo)
      BY <1>8, <2>2 DEF CloseOne
    <3> QED
      BY <1>1, <2>1, <3>1, PopRecord
  <2>3. CASE inst[Head(todo).to] = "open"
    <3>1. todo' = <<Do("finished"), At("forget", Head(todo).to)>> \o Tail(todo)
      BY <1>8, <2>3 DEF CloseOne
    <3>2. Head(todo).to \in Conns
      <4>1. Head(todo) \in Elems(todo)
        BY <1>1, ElemsPop
      <4> QED
        BY <2>1, <4>1 DEF LinksInv
    <3>3. /\ <<Do("finished"), At("forget", Head(todo).to)>> \in Seq(Step)
          /\ Names(<<Do("finished"), At("forget", Head(todo).to)>>) = {"finished", "forget"}
      BY <3>2, FixedType, NamesFixed DEF StepNames
    <3> QED
      BY <1>1, <2>1, <3>1, <3>3, PushRecord
  <2> QED
    BY <2>2, <2>3
<1>9. CASE Halt
  <2>1. Head(todo).do = "halt" /\ StopExperiment(Tail(todo)) /\ UNCHANGED current
    BY <1>9 DEF Halt, Next1
  <2>2. OneSave(todo) => OneSave(Tail(todo))
    BY <1>1, <2>1, OneSavePop
  <2> QED
    BY <1>2, <2>1, <2>2, StopRecord
<1>10. CASE SaveLastMeas
  <2>1. Head(todo).do = "save" /\ UNCHANGED running
    BY <1>10 DEF SaveLastMeas, Crash, Next1
  <2>2. ~running /\ current = 1 /\ OneSave(todo)
    BY <1>2, <2>1 DEF RecInv
  <2>3. todo' = Tail(todo) /\ current' = current - 1
    BY <1>10, <2>2 DEF SaveLastMeas
  <2>4. current' = 0
    BY <2>2, <2>3
  <2>5. "save" \notin Due'
    BY <1>1, <2>1, <2>2, <2>3, OneSavePop DEF Due
  <2> QED
    BY <2>1, <2>2, <2>4, <2>5 DEF RecInv
<1> QED
  BY <1>3, <1>4, <1>5, <1>6, <1>7, <1>8, <1>9, <1>10 DEF GuiStep

LEMMA RecordThreads ==
  RecInv /\ (GhostEmits \/ \E c \in Conns : Reader(c) \/ Outside(c)) => RecInv'
<1> SUFFICES ASSUME RecInv, GhostEmits \/ \E c \in Conns : Reader(c) \/ Outside(c)
             PROVE  RecInv'
  OBVIOUS
<1>1. UNCHANGED <<running, current, todo>>
  BY DEF GhostEmits, Reader, ReaderReceives, ReaderStops, ReaderFails, ReaderEmits,
         Outside, LinkResets, LinkEnds, RigSends, RigMissesBeat, experiment, record
<1> QED
  BY <1>1, SameRecord DEF Due

THEOREM RecordInvariant == Spec => []RecInv
<1>1. Init => RecInv
  <2>1. Init => Due = {}
    BY NamesFixed DEF Init, Due
  <2> QED
    BY <2>1 DEF Init, RecInv
<1>2. TypeOK /\ TimerInv /\ LinksInv /\ RecInv /\ [Next]_vars => RecInv'
  <2>1. RecInv /\ UNCHANGED vars => RecInv'
    BY SameRecord DEF vars, experiment, record, Due
  <2> QED
    BY <2>1, RecordUser, RecordEventLoop, RecordGuiStep, RecordThreads DEF Next
<1> QED
  BY <1>1, <1>2, TypeCorrect, TimerInvariant, LinksInvariant, PTL DEF Spec

\* However deeply stop, disconnect and failing writes are nested, an experiment
\* leaves exactly one measurement: its item is marked "~current~" while it runs
\* or while the one save of it is on the stack, and never longer.
THEOREM RecordsOnce == Spec => []RecordedOnce
<1>1. TypeOK /\ RecInv => RecordedOnce
  <2> SUFFICES ASSUME TypeOK, RecInv PROVE RecordedOnce
    OBVIOUS
  <2>1. "save" \notin Due => SavesDue = {}
    BY DEF SavesDue, Due, Names
  <2>2. ASSUME OneSave(todo) PROVE SavesDue # {} /\ Cardinality(SavesDue) <= 1
    <3>1. PICK i \in 1..Len(todo) :
            todo[i].do = "save" /\ \A j \in 1..Len(todo) : todo[j].do = "save" => j = i
      BY <2>2 DEF OneSave
    <3>2. SavesDue = {i}
      BY <3>1 DEF SavesDue
    <3>3. Cardinality({i}) = 1
      BY FS_Singleton
    <3> QED
      BY <3>2, <3>3
  <2>3. Cardinality({}) = 0
    BY FS_EmptySet
  <2>4. CASE running
    BY <2>1, <2>4 DEF RecInv, RecordedOnce
  <2>5. CASE ~running /\ current = 0 /\ "save" \notin Due
    BY <2>1, <2>3, <2>5 DEF RecordedOnce
  <2>6. CASE ~running /\ current = 1 /\ OneSave(todo)
    BY <2>2, <2>6 DEF RecordedOnce
  <2> QED
    BY <2>4, <2>5, <2>6 DEF RecInv
<1> QED
  BY <1>1, TypeCorrect, RecordInvariant, PTL


-----------------------------------------------------------------------------
(* No rig is activated outside a run.                                      *)

\* a step after which the connection c is closed
Closes(x, c) == x.do = "finished" \/ (x.do = "close" /\ x.to = c)

\* before a command that activates a rig, the steps of s close all of open
Safe(s, open) ==
  \A i \in 1..Len(s) :
    Activates(s[i]) => \A c \in open : \E j \in 1..(i - 1) : Closes(s[j], c)

Open == {c \in Conns : inst[c] = "open"}

\* The inductive invariant behind RigStartsOnlyInRun: what is left on the stack
\* of an interrupted start or heartbeat waits behind the handler that closes the
\* connections it would be written to.
ActInv == ~running => Safe(todo, Open)

LEMMA SafeQuiet ==
  ASSUME NEW s, NEW open, \A x \in Elems(s) : ~Activates(x)
  PROVE  Safe(s, open)
BY DEF Safe, Elems

LEMMA SafeNames ==
  ASSUME NEW s, NEW open, "write" \notin Names(s)
  PROVE  Safe(s, open)
<1>1. \A x \in Elems(s) : ~Activates(x)
  BY ElemsNames DEF Activates
<1> QED
  BY <1>1, SafeQuiet

LEMMA SafePop ==
  ASSUME NEW s \in Seq(Step), s # <<>>, NEW open, Safe(s, open),
         \A c \in open : ~Closes(Head(s), c)
  PROVE  Safe(Tail(s), open)
<1>1. /\ Len(s) \in Nat \ {0}
      /\ Len(Tail(s)) = Len(s) - 1
      /\ \A i \in 1 .. Len(Tail(s)) : Tail(s)[i] = s[i+1]
      /\ Head(s) = s[1]
  BY HeadTailProperties, EmptySeq
<1> DEFINE t == Tail(s)
           n == Len(s)
<1>2. /\ n \in Nat \ {0} /\ Len(t) = n - 1 /\ \A i \in 1..(n - 1) : t[i] = s[i + 1]
  BY <1>1
<1>3. \A i \in 1..n : Activates(s[i]) =>
        \A c \in open : \E j \in 1..(i - 1) : Closes(s[j], c)
  BY DEF Safe
<1>4. \A c \in open : ~Closes(s[1], c)
  BY <1>1
<1> HIDE DEF t, n
<1>5. ASSUME NEW i \in 1..(n - 1), Activates(t[i]), NEW c \in open
      PROVE  \E j \in 1..(i - 1) : Closes(t[j], c)
  <2>1. i + 1 \in 1..n /\ t[i] = s[i + 1] /\ (i + 1) - 1 = i
    BY <1>2
  <2>2. PICK j \in 1..i : Closes(s[j], c)
    <3>1. \E j \in 1..((i + 1) - 1) : Closes(s[j], c)
      BY <2>1, <1>3, <1>5
    <3> QED
      BY <3>1, <2>1
  <2>3. j # 1
    BY <2>2, <1>4
  <2>4. j - 1 \in 1..(i - 1) /\ j - 1 \in 1..(n - 1) /\ (j - 1) + 1 = j
    BY <2>3, <1>2
  <2>5. t[j - 1] = s[j]
    BY <2>4, <1>2
  <2> QED
    BY <2>2, <2>4, <2>5
<1>6. Safe(t, open)
  BY <1>2, <1>5 DEF Safe
<1> QED
  BY <1>6 DEF t

LEMMA SafePush ==
  ASSUME NEW s \in Seq(Step), NEW t \in Seq(Step), NEW open,
         \A x \in Elems(s) : ~Activates(x),
         \/ Safe(t, open)
         \/ \A c \in open : \E x \in Elems(s) : Closes(x, c)
  PROVE  Safe(s \o t, open)
<1>1. /\ Len(s) \in Nat /\ Len(t) \in Nat
      /\ Len(s \o t) = Len(s) + Len(t)
      /\ \A i \in 1 .. Len(s) + Len(t) :
           (s \o t)[i] = IF i <= Len(s) THEN s[i] ELSE t[i - Len(s)]
  BY ConcatProperties, LenProperties
<1> DEFINE u == s \o t
           m == Len(s)
           n == Len(t)
<1>2. /\ m \in Nat /\ n \in Nat /\ Len(u) = m + n
      /\ \A i \in 1..(m + n) : u[i] = IF i <= m THEN s[i] ELSE t[i - m]
  BY <1>1
<1>3. \A i \in 1..m : ~Activates(s[i])
  BY DEF Elems
<1>4. Safe(t, open) => \A i \in 1..n : Activates(t[i]) =>
                         \A c \in open : \E j \in 1..(i - 1) : Closes(t[j], c)
  BY DEF Safe
<1>5. (\A c \in open : \E x \in Elems(s) : Closes(x, c))
        => \A c \in open : \E j \in 1..m : Closes(s[j], c)
  BY DEF Elems
<1> HIDE DEF u, m, n
<1>6. ASSUME NEW i \in 1..(m + n), Activates(u[i]), NEW c \in open
      PROVE  \E j \in 1..(i - 1) : Closes(u[j], c)
  <2>1. ~(i <= m)
    BY <1>2, <1>3, <1>6
  <2>2. i - m \in 1..n /\ u[i] = t[i - m]
    BY <1>2, <2>1
  <2>3. CASE Safe(t, open)
    <3>1. PICK j \in 1..((i - m) - 1) : Closes(t[j], c)
      BY <1>4, <1>6, <2>2, <2>3
    <3>2. j + m \in 1..(m + n) /\ j + m \in 1..(i - 1) /\ ~(j + m <= m) /\ (j + m) - m = j
      BY <1>2, <2>2, <3>1
    <3>3. u[j + m] = t[j]
      BY <1>2, <3>2
    <3> QED
      BY <3>1, <3>2, <3>3
  <2>4. CASE \A d \in open : \E x \in Elems(s) : Closes(x, d)
    <3>1. PICK j \in 1..m : Closes(s[j], c)
      BY <1>5, <2>4
    <3>2. j \in 1..(m + n) /\ j \in 1..(i - 1) /\ j <= m
      BY <1>2, <2>1, <3>1
    <3>3. u[j] = s[j]
      BY <1>2, <3>2
    <3> QED
      BY <3>1, <3>2, <3>3
  <2> QED
    BY <2>3, <2>4
<1>7. Safe(u, open)
  BY <1>2, <1>6 DEF Safe
<1> QED
  BY <1>7 DEF u

\* MainGui.stopExperiment, from a handler that leaves rest on the stack
LEMMA StopSafe ==
  ASSUME TypeOK, NEW rest \in Seq(Step), StopExperiment(rest), Safe(rest, Open')
  PROVE  ActInv'
<1>1. todo' = StopSteps \o rest
  BY DEF StopExperiment
<1>2. StopSteps \in Seq(Step) /\ \A x \in Elems(StopSteps) : ~Activates(x)
  BY StopStepsPush
<1>3. Safe(StopSteps \o rest, Open')
  BY <1>2, SafePush
<1> QED
  BY <1>1, <1>3 DEF ActInv

\* a handler that pushes no write
LEMMA SilentSafe ==
  ASSUME "write" \notin Due'
  PROVE  ActInv'
<1>1. "write" \notin Names(todo')
  BY DEF Due
<1>2. Safe(todo', Open')
  BY <1>1, SafeNames
<1> QED
  BY <1>2 DEF ActInv

LEMMA SafeUser == TypeOK /\ TimerInv /\ ActInv /\ User => ActInv'
<1> SUFFICES ASSUME TypeOK, TimerInv, ActInv, User PROVE ActInv'
  OBVIOUS
<1> USE DEF buttons, flags, experiment, record, threads, io, rigs
<1>1. todo = <<>> /\ Due = {}
  <2>1. todo = <<>>
    BY DEF User, Idle, UserConnect, UserDisconnect, UserStart, UserStop,
           UserSendParameter, UserSendChangedParameter, UserClose,
           UserApplyExperiment, UserLoadLastMeas
  <2> QED
    BY <2>1, NamesFixed DEF Due
<1>2. CASE UserConnect
  <2>1. todo' = ForEach("connect")
    BY <1>2 DEF UserConnect
  <2>2. "write" \notin Due'
    BY <2>1, NamesForEach DEF Due
  <2> QED
    BY <2>2, SilentSafe
<1>3. CASE UserDisconnect
  <2>1. todo' = <<Do("finished")>>
    BY <1>3 DEF UserDisconnect
  <2>2. "write" \notin Due'
    BY <2>1, NamesFixed DEF Due
  <2> QED
    BY <2>2, SilentSafe
<1>4. CASE UserStart
  <2>1. \/ UNCHANGED todo
        \/ running' = TRUE
        \/ todo' = <<Do("save"), Do("halt"), Do("clockOn")>>
    BY <1>4, Zenon DEF UserStart
  <2>2. CASE running' = TRUE
    BY <2>2 DEF ActInv
  <2>3. CASE UNCHANGED todo \/ todo' = <<Do("save"), Do("halt"), Do("clockOn")>>
    <3>1. Names(<<Do("save"), Do("halt"), Do("clockOn")>>) = {"save", "halt", "clockOn"}
      BY NamesFixed
    <3>2. Due' \subseteq {"save", "halt", "clockOn"}
      BY <1>1, <2>3, <3>1 DEF Due
    <3> QED
      BY <3>2, SilentSafe
  <2> QED
    BY <2>1, <2>2, <2>3
<1>5. CASE UserStop
  <2>1. StopExperiment(<<>>)
    BY <1>5 DEF UserStop
  <2>2. <<>> \in Seq(Step) /\ Safe(<<>>, Open')
    BY FixedType, NamesFixed, SafeNames
  <2> QED
    BY <2>1, <2>2, StopSafe
<1>6. CASE UserSendParameter \/ UserSendChangedParameter
  <2>1. \/ UNCHANGED todo
        \/ \E changed : todo' = Params(exp, changed)
    BY <1>6 DEF UserSendParameter, UserSendChangedParameter, Crash
  <2>2. CASE UNCHANGED todo
    <3>1. "write" \notin Due'
      BY <1>1, <2>2 DEF Due
    <3> QED
      BY <3>1, SilentSafe
  <2>3. CASE \E changed : todo' = Params(exp, changed)
    <3>1. \A x \in Elems(todo') : ~Activates(x)
      BY <2>3, ParamsQuiet DEF TypeOK, ExperimentType
    <3>2. Safe(todo', Open')
      BY <3>1, SafeQuiet
    <3> QED
      BY <3>2 DEF ActInv
  <2> QED
    BY <2>1, <2>2, <2>3
<1>7. CASE UserClose
  <2>1. \/ todo' = <<Do("finished")>> \o <<Do("exit")>>
        \/ todo' = <<>> \o <<Do("exit")>>
    BY <1>7 DEF UserClose
  <2>2. /\ Names(<<Do("finished")>> \o <<Do("exit")>>) = {"finished", "exit"}
        /\ Names(<<>> \o <<Do("exit")>>) = {"exit"}
    BY NamesPairs DEF StepNames
  <2>3. Due' \subseteq {"finished", "exit"}
    BY <2>1, <2>2 DEF Due
  <2> QED
    BY <2>3, SilentSafe
<1>8. CASE \E e \in Exps : UserApplyExperiment(e) \/ UserLoadLastMeas(e)
  <2>1. UNCHANGED todo
    BY <1>8 DEF UserApplyExperiment, UserLoadLastMeas
  <2>2. "write" \notin Due'
    BY <1>1, <2>1 DEF Due
  <2> QED
    BY <2>2, SilentSafe
<1> QED
  BY <1>2, <1>3, <1>4, <1>5, <1>6, <1>7, <1>8 DEF User

LEMMA SafeEventLoop ==
  TypeOK /\ TimerInv /\ ActInv /\ (HeartbeatTick \/ HandleEvent) => ActInv'
<1> SUFFICES ASSUME TypeOK, TimerInv, ActInv, HeartbeatTick \/ HandleEvent PROVE ActInv'
  OBVIOUS
<1> USE DEF buttons, flags, experiment, record, threads, io, rigs
<1>1. todo = <<>> /\ Due = {}
  <2>1. todo = <<>>
    BY DEF HandleEvent, Idle, HeartbeatTick, HandleError, HandleMissedBeat, HandleData
  <2> QED
    BY <2>1, NamesFixed DEF Due
<1>2. CASE HeartbeatTick
  <2>1. "heart" \in timers /\ UNCHANGED running
    BY <1>2 DEF HeartbeatTick
  <2>2. running
    BY <1>1, <2>1 DEF TimerInv
  <2> QED
    BY <2>1, <2>2 DEF ActInv
<1>3. CASE HandleError
  <2>1. todo' = <<Do("finished"), Do("finished")>>
    BY <1>3 DEF HandleError
  <2>2. Due' = {"finished"}
    BY <2>1, NamesFixed DEF Due
  <2> QED
    BY <2>2, SilentSafe
<1>4. CASE HandleMissedBeat
  <2>1. \/ todo' = <<Do("save")>> \o <<Do("finished")>>
        \/ todo' = <<>> \o <<Do("finished")>>
    BY <1>4 DEF HandleMissedBeat
  <2>2. /\ Names(<<Do("save")>> \o <<Do("finished")>>) = {"save", "finished"}
        /\ Names(<<>> \o <<Do("finished")>>) = {"finished"}
    BY NamesPairs DEF StepNames
  <2>3. Due' \subseteq {"save", "finished"}
    BY <2>1, <2>2 DEF Due
  <2> QED
    BY <2>3, SilentSafe
<1>5. CASE HandleData
  <2>1. UNCHANGED todo
    BY <1>5 DEF HandleData
  <2>2. "write" \notin Due'
    BY <1>1, <2>1 DEF Due
  <2> QED
    BY <2>2, SilentSafe
<1> QED
  BY <1>2, <1>3, <1>4, <1>5 DEF HandleEvent


LEMMA SafeGuiStep == TypeOK /\ TimerInv /\ LinksInv /\ ActInv /\ GuiStep => ActInv'
<1> SUFFICES ASSUME TypeOK, TimerInv, LinksInv, ActInv, GuiStep PROVE ActInv'
  OBVIOUS
<1> USE DEF buttons, flags, experiment, record, threads, io, rigs
<1>1. todo # <<>> /\ todo \in Seq(Step)
  BY DEF GuiStep, Next1, ConnectSucceeds, ConnectFails, KeepParam, Finished, CloseOne,
         Forget, WriteMissing, WriteStale, WriteDelivered, WriteLost, WriteTimeout,
         WriteFails, ResetButtons, Halt, SaveLastMeas, ClockOff, ClockOn, Exit,
         TypeOK, StackType
<1>2. /\ Tail(todo) \in Seq(Step) /\ Due = {Head(todo).do} \cup Names(Tail(todo))
      /\ Head(todo) \in Elems(todo)
  BY <1>1, Stack, ElemsPop
<1>3. ASSUME UNCHANGED running, todo' = Tail(todo), Open' = Open,
             \A c \in Open : ~Closes(Head(todo), c)
      PROVE  ActInv'
  <2>1. Safe(todo, Open) => Safe(Tail(todo), Open)
    BY <1>1, <1>3, SafePop
  <2> QED
    BY <1>3, <2>1 DEF ActInv
<1>4. CASE ConnectSucceeds \/ ConnectFails
  <2>1. Head(todo).do = "connect" /\ (todo' = Tail(todo) \/ todo' = <<>>)
    BY <1>4 DEF ConnectSucceeds, ConnectFails, Next1
  <2>2. Due = {"connect"}
    BY <1>2, <2>1 DEF LinksInv
  <2>3. Due' \subseteq {"connect"}
    <3>1. Names(<<>>) = {} /\ Names(Tail(todo)) \subseteq {"connect"}
      BY <1>2, <2>2, NamesFixed
    <3> QED
      BY <2>1, <3>1 DEF Due
  <2> QED
    BY <2>3, SilentSafe
<1>5. CASE \/ KeepParam \/ WriteStale \/ WriteDelivered \/ WriteLost \/ WriteTimeout
           \/ ResetButtons \/ ClockOff \/ ClockOn \/ Exit
  <2>1. /\ Head(todo).do \in {"keep", "write", "reset", "clockOff", "clockOn", "exit"}
        /\ todo' = Tail(todo) /\ UNCHANGED <<running, inst>>
    BY <1>5 DEF KeepParam, WriteStale, WriteDelivered, WriteLost, WriteTimeout,
                ResetButtons, ClockOff, ClockOn, Exit, Next1
  <2>2. Open' = Open /\ \A c \in Open : ~Closes(Head(todo), c)
    BY <2>1 DEF Open, Closes
  <2> QED
    BY <1>3, <2>1, <2>2
<1>6. CASE Forget
  <2>1. /\ Head(todo).do = "forget" /\ todo' = Tail(todo) /\ UNCHANGED running
        /\ inst' = [inst EXCEPT ![Head(todo).to] = "none"]
    BY <1>6 DEF Forget, Next1
  <2>2. inst[Head(todo).to] # "open"
    BY <1>2, <2>1 DEF LinksInv
  <2>3. \A c \in Conns : (inst'[c] = "open") <=> (inst[c] = "open")
    BY <2>1, <2>2 DEF TypeOK, IoType
  <2>4. Open' = Open /\ \A c \in Open : ~Closes(Head(todo), c)
    BY <2>1, <2>3 DEF Open, Closes
  <2> QED
    BY <1>3, <2>1, <2>4
<1>7. CASE WriteMissing
  <2>1. UNCHANGED <<running, todo, inst>>
    BY <1>7 DEF WriteMissing, Crash
  <2> QED
    BY <2>1 DEF ActInv, Open
<1>8. CASE WriteFails
  <2>1. todo' = <<Do("finished")>> \o Tail(todo)
    BY <1>8 DEF WriteFails
  <2>2. /\ <<Do("finished")>> \in Seq(Step)
        /\ Elems(<<Do("finished")>>) = {Do("finished")} /\ Do("finished").do = "finished"
    BY FixedType, ElemsFixed DEF StepNames, Do
  <2>3. /\ \A x \in Elems(<<Do("finished")>>) : ~Activates(x)
        /\ \A c \in Open' : \E x \in Elems(<<Do("finished")>>) : Closes(x, c)
    BY <2>2 DEF Activates, Closes
  <2>4. Safe(<<Do("finished")>> \o Tail(todo), Open')
    BY <1>2, <2>2, <2>3, SafePush
  <2> QED
    BY <2>1, <2>4 DEF ActInv
<1>9. CASE Finished
  <2> DEFINE closing == ForEach("close") \o <<Do("reset")>>
             rest == closing \o Tail(todo)
  <2>1. \/ StopExperiment(rest)
        \/ todo' = rest
    BY <1>9 DEF Finished
  <2>2. /\ closing \in Seq(Step) /\ rest \in Seq(Step)
        /\ Names(closing) \subseteq {"close", "reset"}
        /\ \A c \in Conns : \E x \in Elems(closing) : x.do = "close" /\ x.to = c
    BY <1>2, ClosingPush
  <2>3. /\ \A x \in Elems(closing) : ~Activates(x)
        /\ \A c \in Open' : \E x \in Elems(closing) : Closes(x, c)
    <3>1. \A x \in Elems(closing) : x.do \in {"close", "reset"}
      BY <2>2, ElemsNames
    <3> HIDE DEF closing
    <3> QED
      BY <2>2, <3>1 DEF Activates, Closes, Open
  <2>4. Safe(rest, Open')
    <3> HIDE DEF closing
    <3> QED
      BY <1>2, <2>2, <2>3, SafePush
  <2> HIDE DEF rest
  <2>5. CASE StopExperiment(rest)
    BY <2>2, <2>4, <2>5, StopSafe
  <2>6. CASE todo' = rest
    BY <2>4, <2>6 DEF ActInv
  <2> QED
    BY <2>1, <2>5, <2>6
<1>10. CASE CloseOne
  <2>1. Head(todo).do = "close" /\ UNCHANGED running
    BY <1>10 DEF CloseOne, Next1
  <2>2. CASE inst[Head(todo).to] # "open"
    <3>1. todo' = Tail(todo) /\ UNCHANGED inst
      BY <1>10, <2>2 DEF CloseOne
    <3>2. Open' = Open /\ \A c \in Open : ~Closes(Head(todo), c)
      BY <2>1, <2>2, <3>1 DEF Open, Closes
    <3> QED
      BY <1>3, <2>1, <3>1, <3>2
  <2>3. CASE inst[Head(todo).to] = "open"
    <3> DEFINE push == <<Do("finished"), At("forget", Head(todo).to)>>
    <3>1. todo' = push \o Tail(todo)
      BY <1>10, <2>3 DEF CloseOne
    <3>2. Head(todo).to \in Conns
      BY <1>2, <2>1 DEF LinksInv
    <3>3. /\ push \in Seq(Step)
          /\ Elems(push) = {Do("finished"), At("forget", Head(todo).to)}
      BY <3>2, FixedType, ElemsFixed DEF StepNames
    <3>4. /\ Do("finished").do = "finished"
          /\ At("forget", Head(todo).to).do = "forget"
      BY DEF Do, At
    <3> HIDE DEF push
    <3>5. /\ \A x \in Elems(push) : ~Activates(x)
          /\ \A c \in Open' : \E x \in Elems(push) : Closes(x, c)
      BY <3>3, <3>4 DEF Activates, Closes
    <3>6. Safe(push \o Tail(todo), Open')
      BY <1>2, <3>3, <3>5, SafePush
    <3> QED
      BY <3>1, <3>6 DEF ActInv
  <2> QED
    BY <2>2, <2>3
<1>11. CASE Halt
  <2>1. Head(todo).do = "halt" /\ StopExperiment(Tail(todo))
    BY <1>11 DEF Halt, Next1
  <2>2. Tail(todo) = <<Do("clockOn")>>
    BY <1>2, <2>1, HaltPending
  <2>3. Names(Tail(todo)) = {"clockOn"}
    BY <2>2, NamesFixed
  <2>4. Safe(Tail(todo), Open')
    BY <2>3, SafeNames
  <2> QED
    BY <1>2, <2>1, <2>4, StopSafe
<1>12. CASE SaveLastMeas
  <2>1. /\ Head(todo).do = "save" /\ UNCHANGED <<running, inst>>
        /\ UNCHANGED todo \/ todo' = Tail(todo)
    BY <1>12 DEF SaveLastMeas, Crash, Next1
  <2>2. Open' = Open /\ \A c \in Open : ~Closes(Head(todo), c)
    BY <2>1 DEF Open, Closes
  <2>3. CASE UNCHANGED todo
    BY <2>1, <2>2, <2>3 DEF ActInv
  <2>4. CASE todo' = Tail(todo)
    BY <1>3, <2>1, <2>2, <2>4
  <2> QED
    BY <2>1, <2>3, <2>4
<1> QED
  BY <1>4, <1>5, <1>6, <1>7, <1>8, <1>9, <1>10, <1>11, <1>12 DEF GuiStep

LEMMA SafeThreads ==
  ActInv /\ (GhostEmits \/ \E c \in Conns : Reader(c) \/ Outside(c)) => ActInv'
<1> SUFFICES ASSUME ActInv, GhostEmits \/ \E c \in Conns : Reader(c) \/ Outside(c)
             PROVE  ActInv'
  OBVIOUS
<1>1. UNCHANGED <<running, todo, inst>>
  BY DEF GhostEmits, Reader, ReaderReceives, ReaderStops, ReaderFails, ReaderEmits,
         Outside, LinkResets, LinkEnds, RigSends, RigMissesBeat, experiment, io
<1> QED
  BY <1>1 DEF ActInv, Open

THEOREM ActivationInvariant == Spec => []ActInv
<1>1. Init => ActInv
  <2>1. Init => Names(todo) = {}
    BY NamesFixed DEF Init
  <2> QED
    BY <2>1, SafeNames DEF ActInv
<1>2. TypeOK /\ TimerInv /\ LinksInv /\ ActInv /\ [Next]_vars => ActInv'
  <2>1. ActInv /\ UNCHANGED vars => ActInv'
    BY DEF vars, experiment, io, ActInv, Open
  <2> QED
    BY <2>1, SafeUser, SafeEventLoop, SafeGuiStep, SafeThreads DEF Next
<1> QED
  BY <1>1, <1>2, TypeCorrect, TimerInvariant, LinksInvariant, PTL DEF Spec

-----------------------------------------------------------------------------
(* What the session does to a rig, and to the abstract log.                *)

\* only an event of the environment or a delivered command changes a rig
LEMMA RigSteps ==
  ASSUME Next, ~UNCHANGED rig
  PROVE  WriteDelivered \/ \E c \in Conns : RigMissesBeat(c)
<1> USE DEF rigs
<1>1. CASE User
  BY <1>1 DEF User, UserConnect, UserDisconnect, UserStart, UserStop, UserSendParameter,
              UserSendChangedParameter, UserClose, UserApplyExperiment, UserLoadLastMeas,
              Crash
<1>2. CASE HeartbeatTick \/ HandleEvent \/ GhostEmits
  BY <1>2 DEF HeartbeatTick, HandleEvent, HandleError, HandleMissedBeat, HandleData, GhostEmits
<1>3. CASE GuiStep
  BY <1>3 DEF GuiStep, ConnectSucceeds, ConnectFails, KeepParam, Finished, CloseOne,
              Forget, WriteMissing, WriteStale, WriteLost, WriteTimeout, WriteFails,
              ResetButtons, Halt, SaveLastMeas, ClockOff, ClockOn, Exit, Crash
<1>4. ASSUME NEW c \in Conns, Reader(c) \/ Outside(c) PROVE RigMissesBeat(c)
  BY <1>4 DEF Reader, ReaderReceives, ReaderStops, ReaderFails, ReaderEmits,
              Outside, LinkResets, LinkEnds, RigSends
<1> QED
  BY <1>1, <1>2, <1>3, <1>4 DEF Next

\* a command that activates the rig of an open connection is written in a run
LEMMA ActivatesInRun ==
  ASSUME TypeOK, ActInv, WriteDelivered, Head(todo).to \in Conns, Activates(Head(todo))
  PROVE  running
<1>1. todo # <<>> /\ inst[Head(todo).to] = "open"
  BY DEF WriteDelivered, Next1
<1>2. Len(todo) \in Nat \ {0} /\ Head(todo) = todo[1]
  BY <1>1, HeadTailProperties, EmptySeq DEF TypeOK, StackType
<1>3. 1 \in 1..Len(todo) /\ 1..(1 - 1) = {}
  BY <1>2
<1>4. Head(todo).to \in Open
  BY <1>1 DEF Open
<1>5. ASSUME Safe(todo, Open) PROVE FALSE
  <2>1. Activates(todo[1]) =>
          \A c \in Open : \E j \in 1..(1 - 1) : Closes(todo[j], c)
    BY <1>3, <1>5 DEF Safe
  <2> QED
    BY <1>2, <1>3, <1>4, <2>1
<1> QED
  BY <1>5 DEF ActInv

\* the two ways in which a step changes a rig
LEMMA RigChanges ==
  ASSUME TypeOK, ActInv, Next, ~UNCHANGED rig
  PROVE  \E c \in Conns :
           \/ running /\ rig' = [rig EXCEPT ![c] = "run"]
           \/ rig' = [rig EXCEPT ![c] = "idle"]
<1>1. CASE WriteDelivered
  <2> DEFINE c == Head(todo).to
  <2>1. rig' = [rig EXCEPT ![c] = RigAfter(Head(todo).msg, rig[c])]
    BY <1>1 DEF WriteDelivered
  <2>2. c \in Conns /\ rig[c] \in {"idle", "run"} /\ rig = [rig EXCEPT ![c] = rig[c]]
    BY <2>1 DEF TypeOK, RigsType
  <2>3. Head(todo).do = "write" /\ Head(todo).msg \in Messages
    <3>1. Head(todo) \in Step
      BY <1>1, PopType DEF WriteDelivered, Next1, TypeOK, StackType
    <3> QED
      BY <1>1, <3>1 DEF WriteDelivered, Next1, Step
  <2>4. CASE Activates(Head(todo))
    <3>1. RigAfter(Head(todo).msg, rig[c]) = "run"
      BY <2>4 DEF Activates, RigAfter
    <3>2. running
      BY <1>1, <2>2, <2>4, ActivatesInRun
    <3> QED
      BY <2>1, <2>2, <3>1, <3>2
  <2>5. CASE ~Activates(Head(todo))
    <3>1. Head(todo).msg \in {"param", "stop"}
      BY <2>3, <2>5 DEF Activates, Messages
    <3>2. RigAfter(Head(todo).msg, rig[c]) = "idle"
      BY <2>1, <2>2, <3>1 DEF RigAfter
    <3> QED
      BY <2>1, <2>2, <3>2
  <2> QED
    BY <2>4, <2>5
<1>2. CASE \E c \in Conns : RigMissesBeat(c)
  BY <1>2 DEF RigMissesBeat
<1> QED
  BY <1>1, <1>2, RigSteps


\* A rig is activated only while an experiment runs: neither a start nor a
\* heartbeat that a broken connection interrupts activates one afterwards.
THEOREM RigsStartInRun == Spec => RigStartsOnlyInRun
<1>1. TypeOK /\ ActInv /\ [Next]_vars
        => [\A c \in Conns : rig[c] = "idle" /\ rig'[c] = "run" => running]_vars
  <2> SUFFICES ASSUME TypeOK, ActInv, Next, NEW c \in Conns, rig[c] = "idle", rig'[c] = "run"
               PROVE  running
    OBVIOUS
  <2>1. PICK d \in Conns : \/ running /\ rig' = [rig EXCEPT ![d] = "run"]
                           \/ rig' = [rig EXCEPT ![d] = "idle"]
    BY RigChanges
  <2> QED
    BY <2>1 DEF TypeOK, RigsType
<1> QED
  BY <1>1, TypeCorrect, ActivationInvariant, PTL DEF Spec, RigStartsOnlyInRun

LEMMA TypeKept == TypeOK /\ Next => TypeOK'
BY UserType, EventLoopType, GuiStepType, ThreadsAndRigsType DEF Next

\* what a step does to the experiment and to its item in the list
LEMMA RecordChanges ==
  ASSUME TypeOK, TimerInv, LinksInv, RecInv, Next, ~UNCHANGED <<running, current>>
  PROVE  /\ UNCHANGED rig
         /\ \/ ~running /\ current = 0 /\ current' = 1
            \/ running /\ running' = FALSE /\ current' = current
            \/ ~running /\ running' = FALSE /\ current = 1 /\ current' = 0
<1> USE DEF buttons, flags, experiment, record, threads, io, rigs
<1>1. CASE User
  <2>1. CASE UserStart
    <3>1. DataOf(exp) # {}
      BY <2>1 DEF UserStart
    <3>2. ~running /\ current = 0
      <4>1. Due = {}
        BY <2>1, NamesFixed DEF UserStart, Idle, Due
      <4>2. ~OneSave(todo)
        BY <2>1, EmptyNoSave DEF UserStart, Idle
      <4> QED
        BY <2>1, <4>2 DEF UserStart, TimerInv, LinksInv, RecInv
    <3>3. current' = current + 1 /\ UNCHANGED rig
      BY <2>1, <3>1 DEF UserStart
    <3> QED
      BY <3>2, <3>3
  <2>2. CASE UserStop
    BY <2>2 DEF UserStop, StopExperiment, TypeOK, ExperimentType
  <2>3. CASE ~UserStart /\ ~UserStop
    BY <1>1, <2>3 DEF User, UserConnect, UserDisconnect, UserSendParameter,
                      UserSendChangedParameter, UserClose, UserApplyExperiment,
                      UserLoadLastMeas, Crash
  <2> QED
    BY <2>1, <2>2, <2>3
<1>2. CASE HeartbeatTick \/ HandleEvent \/ GhostEmits
  BY <1>2 DEF HeartbeatTick, HandleEvent, HandleError, HandleMissedBeat, HandleData,
              GhostEmits, TypeOK, ExperimentType
<1>3. CASE GuiStep
  <2>1. CASE SaveLastMeas
    <3>1. "save" \in Due
      BY <2>1, Stack DEF SaveLastMeas, Next1
    <3>2. ~running /\ current = 1
      BY <3>1 DEF RecInv
    <3>3. current' = current - 1 /\ UNCHANGED <<running, rig>>
      BY <2>1, <3>2 DEF SaveLastMeas
    <3> QED
      BY <3>2, <3>3
  <2>2. CASE Finished \/ Halt
    BY <2>2 DEF Finished, Halt, StopExperiment, TypeOK, ExperimentType
  <2>3. CASE ~SaveLastMeas /\ ~Finished /\ ~Halt
    BY <1>3, <2>3
       DEF GuiStep, ConnectSucceeds, ConnectFails, KeepParam, CloseOne, Forget,
           WriteMissing, WriteStale, WriteDelivered, WriteLost, WriteTimeout, WriteFails,
           ResetButtons, ClockOff, ClockOn, Exit, Crash
  <2> QED
    BY <2>1, <2>2, <2>3
<1>4. ASSUME NEW c \in Conns, Reader(c) \/ Outside(c) PROVE FALSE
  BY <1>4 DEF Reader, ReaderReceives, ReaderStops, ReaderFails, ReaderEmits,
              Outside, LinkResets, LinkEnds, RigSends, RigMissesBeat
<1> QED
  BY <1>1, <1>2, <1>3, <1>4 DEF Next

\* Every step of the session is a step of ExperimentLog, or one that the log
\* does not see: experiments begin only when the one before is saved, every
\* stop is saved once, and only a running experiment activates rigs.
THEOREM SessionImplementsLog == Spec => ImplementsLog
<1>1. Init => Log!Init
  BY DEF Init, Log!Init
<1>2. TypeOK /\ TimerInv /\ LinksInv /\ RecInv /\ ActInv /\ [Next]_vars
        => [Log!Next]_Log!logVars
  <2> SUFFICES ASSUME TypeOK, TimerInv, LinksInv, RecInv, ActInv, [Next]_vars
               PROVE  [Log!Next]_Log!logVars
    OBVIOUS
  <2> DEFINE active == {c \in Conns : rig[c] = "run"}
  <2>1. CASE UNCHANGED <<running, current, rig>>
    BY <2>1 DEF Log!logVars
  <2>2. CASE Next /\ ~UNCHANGED <<running, current>>
    <3>1. /\ UNCHANGED rig
          /\ \/ ~running /\ current = 0 /\ current' = 1
             \/ running /\ running' = FALSE /\ current' = current
             \/ ~running /\ running' = FALSE /\ current = 1 /\ current' = 0
      BY <2>2, RecordChanges
    <3>2. UNCHANGED active
      BY <3>1
    <3>3. CASE ~running /\ current = 0 /\ current' = 1
      <4>1. Log!Begin \/ Log!Refuse
        <5>1. running = FALSE /\ running' \in BOOLEAN
          BY <2>2, <3>3, TypeKept DEF TypeOK, ExperimentType
        <5>2. CASE running' = TRUE
          BY <3>2, <3>3, <5>2 DEF Log!Begin
        <5>3. CASE running' = FALSE
          BY <3>2, <3>3, <5>1, <5>3 DEF Log!Refuse
        <5> QED
          BY <5>1, <5>2, <5>3
      <4> QED
        BY <4>1 DEF Log!Next
    <3>4. CASE running /\ running' = FALSE /\ current' = current
      BY <3>2, <3>4 DEF Log!End, Log!Next
    <3>5. CASE ~running /\ running' = FALSE /\ current = 1 /\ current' = 0
      <4>1. UNCHANGED running
        BY <3>5 DEF TypeOK, ExperimentType
      <4> QED
        BY <3>2, <3>5, <4>1 DEF Log!Save, Log!Next
    <3> QED
      BY <3>1, <3>3, <3>4, <3>5
  <2>3. CASE Next /\ UNCHANGED <<running, current>> /\ ~UNCHANGED rig
    <3>1. PICK c \in Conns : \/ running /\ rig' = [rig EXCEPT ![c] = "run"]
                             \/ rig' = [rig EXCEPT ![c] = "idle"]
      BY <2>3, RigChanges
    <3>2. \/ running /\ active' = active \cup {c}
          \/ active' = active \ {c}
      BY <3>1 DEF TypeOK, RigsType
    <3>3. Log!Activate(c) \/ Log!Deactivate(c)
      BY <2>3, <3>2 DEF Log!Activate, Log!Deactivate
    <3> QED
      BY <3>3 DEF Log!Next
  <2>4. CASE UNCHANGED vars
    BY <2>1, <2>4 DEF vars, experiment, record, rigs
  <2> QED
    BY <2>1, <2>2, <2>3, <2>4
<1> QED
  BY <1>1, <1>2, TypeCorrect, TimerInvariant, LinksInvariant, RecordInvariant,
     ActivationInvariant, PTL DEF Spec, ImplementsLog, Log!Spec

=============================================================================
