--------------------------- MODULE GamePadProofs ---------------------------
(***************************************************************************)
(* The gamepad thread is only there while the window has its gamepad, the  *)
(* slider stays in its range, and a press of the button is clicked once:   *)
(* for every resolution, every slider and every number of inputs.          *)
(***************************************************************************)
EXTENDS GamePad, FiniteSetTheorems, TLAPS

-----------------------------------------------------------------------------
(* How many elements of a queue are in a set S.                            *)

At(s, S) == {i \in DOMAIN s : s[i] \in S}
Hits(s, S) == Cardinality(At(s, S))

LEMMA HitsEmpty == ASSUME NEW S PROVE Hits(<<>>, S) = 0
<1>1. At(<<>>, S) = {}
  BY DEF At
<1> QED
  BY <1>1, FS_EmptySet DEF Hits

LEMMA HitsType ==
  ASSUME NEW T, NEW s \in Seq(T), NEW S
  PROVE  IsFiniteSet(At(s, S)) /\ Hits(s, S) \in Nat
<1>1. At(s, S) \in SUBSET (1..Len(s)) /\ Len(s) \in Nat
  BY DEF At
<1>2. IsFiniteSet(1..Len(s))
  BY <1>1, FS_Interval
<1>3. IsFiniteSet(At(s, S))
  BY <1>1, <1>2, FS_Subset
<1> QED
  BY <1>3, FS_CardinalityType DEF Hits

LEMMA HitsAppend ==
  ASSUME NEW T, NEW s \in Seq(T), NEW e \in T, NEW S
  PROVE  Hits(Append(s, e), S) = Hits(s, S) + (IF e \in S THEN 1 ELSE 0)
<1> DEFINE n == Len(s) + 1
<1>1. /\ n \in Nat /\ n \notin DOMAIN s /\ DOMAIN Append(s, e) = DOMAIN s \cup {n}
      /\ Append(s, e)[n] = e /\ \A i \in DOMAIN s : Append(s, e)[i] = s[i]
  OBVIOUS
<1> HIDE DEF n
<1>2. IsFiniteSet(At(s, S)) /\ n \notin At(s, S) /\ Hits(s, S) \in Nat
  BY <1>1, HitsType DEF At
<1>3. CASE e \in S
  <2>1. At(Append(s, e), S) = At(s, S) \cup {n}
    BY <1>1, <1>3 DEF At
  <2> QED
    BY <1>2, <1>3, <2>1, FS_AddElement DEF Hits
<1>4. CASE e \notin S
  <2>1. At(Append(s, e), S) = At(s, S)
    BY <1>1, <1>4 DEF At
  <2> QED
    BY <1>2, <1>4, <2>1 DEF Hits
<1> QED
  BY <1>3, <1>4

LEMMA HitsTail ==
  ASSUME NEW T, NEW s \in Seq(T), s # <<>>, NEW S
  PROVE  Hits(s, S) = Hits(Tail(s), S) + (IF Head(s) \in S THEN 1 ELSE 0)
<1> DEFINE t == Tail(s)
           U == At(s, S) \ {1}
           f == [i \in At(t, S) |-> i + 1]
<1>1. /\ t \in Seq(T) /\ Len(s) \in Nat \ {0} /\ Head(s) = s[1]
      /\ DOMAIN t = 1..(Len(s) - 1) /\ DOMAIN s = 1..Len(s)
      /\ \A i \in DOMAIN t : t[i] = s[i + 1]
  OBVIOUS
<1> HIDE DEF t
<1>2. IsFiniteSet(At(t, S)) /\ IsFiniteSet(At(s, S)) /\ Hits(t, S) \in Nat /\ Hits(s, S) \in Nat
  BY <1>1, HitsType
<1>3. f \in Bijection(At(t, S), U)
  <2>1. \A i \in At(t, S) : i \in Int /\ i + 1 \in U
    BY <1>1 DEF At
  <2>2. f \in Injection(At(t, S), U)
    BY <2>1 DEF Injection, IsInjective
  <2>3. \A j \in U : \E i \in At(t, S) : f[i] = j
    <3> SUFFICES ASSUME NEW j \in U PROVE \E i \in At(t, S) : f[i] = j
      OBVIOUS
    <3>1. j \in 2..Len(s) /\ s[j] \in S
      BY <1>1 DEF At
    <3>2. j - 1 \in DOMAIN t /\ t[j - 1] = s[j]
      <4>1. j - 1 \in DOMAIN t /\ (j - 1) + 1 = j
        BY <1>1, <3>1
      <4> QED
        BY <1>1, <4>1
    <3>3. j - 1 \in At(t, S)
      BY <3>1, <3>2 DEF At
    <3> QED
      BY <3>1, <3>3
  <2> QED
    BY <2>2, <2>3 DEF Bijection, Surjection, Injection
<1>4. IsFiniteSet(U) /\ Cardinality(U) = Hits(t, S)
  BY <1>2, <1>3, FS_Bijection DEF Hits, ExistsBijection
<1>5. 1 \in At(s, S) <=> Head(s) \in S
  BY <1>1 DEF At
<1>6. Cardinality(U) = IF 1 \in At(s, S) THEN Cardinality(At(s, S)) - 1 ELSE Cardinality(At(s, S))
  BY <1>2, FS_RemoveElement
<1> HIDE DEF U, f
<1> QED
  BY <1>2, <1>4, <1>5, <1>6 DEF Hits, t

-----------------------------------------------------------------------------
(* The button's signals and the presses that have not been read.           *)

Btns == {<<"btn", 0>>}
Pressed == {<<"Key", 1>>}

LEMMA CountBtns == ASSUME NEW s \in Seq(Signal) PROVE Count(s, IsBtn) = Hits(s, Btns)
<1>1. \A e \in Signal : IsBtn(e) <=> e \in Btns
  BY DEF Signal, IsBtn, Btns
<1>2. \A i \in DOMAIN s : s[i] \in Signal
  OBVIOUS
<1>3. {i \in DOMAIN s : IsBtn(s[i])} = At(s, Btns)
  BY <1>1, <1>2 DEF At
<1> QED
  BY <1>3 DEF Count, Hits

LEMMA CountPressed == ASSUME NEW s \in Seq(Event) PROVE Count(s, IsPress) = Hits(s, Pressed)
<1>1. \A e \in Event : IsPress(e) <=> e \in Pressed
  BY DEF Event, IsPress, Pressed
<1>2. \A i \in DOMAIN s : s[i] \in Event
  OBVIOUS
<1>3. {i \in DOMAIN s : IsPress(s[i])} = At(s, Pressed)
  BY <1>1, <1>2 DEF At
<1> QED
  BY <1>3 DEF Count, Hits
-----------------------------------------------------------------------------
(* The slider.                                                             *)

LEMMA CutType == ASSUME NEW x \in Int, NEW y \in Nat \ {0} PROVE Cut(x, y) \in Int
<1>1. CASE x >= 0
  BY <1>1 DEF Cut
<1>2. CASE ~(x >= 0)
  <2>1. -x \in Int /\ (-x) \div y \in Int
    OBVIOUS
  <2> QED
    BY <1>2, <2>1 DEF Cut
<1> QED
  BY <1>1, <1>2

\* outputAbsEvent: wherever the stick is, the slider is set within its range.
LEMMA SlidInRange == ASSUME NEW a \in Int PROVE Slid(a) \in SliderMin..SliderMax
<1> DEFINE dim == SliderMax - SliderMin
           sign == IF Inverted THEN -1 ELSE 1
           half == sign * (2 * a - Resolution) * dim
           x == half - 2 * Resolution * SliderMin
           y == 2 * Resolution
<1>1. SliderMin \in Int /\ SliderMax \in Int /\ SliderMin < SliderMax /\ Resolution \in Nat \ {0}
  BY GamePadAssumption
<1>2. dim \in Nat /\ y \in Nat \ {0} /\ sign \in Int /\ 2 * a - Resolution \in Int
  BY <1>1
<1>3. half \in Int /\ 2 * Resolution * SliderMin \in Int
  BY <1>1, <1>2
<1>4. x \in Int
  BY <1>3
<1>5. Slid(a) = SliderMin + Clip(Cut(x, y), 0, dim)
  BY DEF Slid
<1> HIDE DEF x, y, half, sign
<1>6. Cut(x, y) \in Int
  BY <1>2, <1>4, CutType
<1>7. Clip(Cut(x, y), 0, dim) \in 0..dim
  BY <1>2, <1>6 DEF Clip
<1> QED
  BY <1>1, <1>5, <1>7

-----------------------------------------------------------------------------
(* The inductive invariant.                                                *)

Inv == PadInv /\ ClicksArePresses

\* Each press that was told is clicked, queued or unread, in terms of Hits.
Told == clicks + Hits(signals, Btns) + Hits(device, Pressed) = presses

LEMMA ToldIs ==
  ASSUME NEW c, NEW s \in Seq(Signal), NEW d \in Seq(Event)
  PROVE  c + Count(s, IsBtn) + Count(d, IsPress) = c + Hits(s, Btns) + Hits(d, Pressed)
BY CountBtns, CountPressed

\* The elements of the queues.
LEMMA Elements ==
  /\ <<"btn", 0>> \in Signal /\ <<"btn", 0>> \in Btns
  /\ \A v \in Positions \cup {0} : <<"abs", v>> \in Signal /\ <<"abs", v>> \notin Btns
  /\ \A e \in Event : e \in Pressed <=> e[1] = "Key" /\ e[2] # 0
  /\ \A v \in Positions : <<"Absolute", v>> \in Event /\ <<"Absolute", v>> \notin Pressed
  /\ \A v \in {0, 1} : <<"Key", v>> \in Event
  /\ <<"Sync", 0>> \in Event /\ <<"Sync", 0>> \notin Pressed
  /\ \A e \in Event : e[1] = "Absolute" => e[2] \in Positions
  /\ \A g \in Signal : (g \in Btns <=> g[1] = "btn") /\ (g \notin Btns => g[2] \in Positions \cup {0})
BY DEF Signal, Event, Btns, Pressed

LEMMA InitInv == Init => Inv
<1> SUFFICES ASSUME Init PROVE Inv
  OBVIOUS
<1>1. slider \in SliderMin..SliderMax /\ clicks \in Nat /\ presses \in Nat
  BY SlidInRange, GamePadAssumption DEF Init
<1>2. TypeOK
  <2>1. device \in Seq(Event) /\ signals \in Seq(Signal)
    BY DEF Init
  <2>2. 0 \in 0..MaxInputs /\ 0 \in 0..MaxSelect
    BY GamePadAssumption
  <2> QED
    BY <1>1, <2>1, <2>2, Zenon DEF Init, TypeOK
<1>3. ClicksArePresses
  <2>1. clicks + Count(signals, IsBtn) + Count(device, IsPress)
          = clicks + Hits(signals, Btns) + Hits(device, Pressed)
    BY <1>2, ToldIs DEF TypeOK
  <2> QED
    BY <2>1, HitsEmpty DEF Init, ClicksArePresses
<1> QED
  BY <1>2, <1>3 DEF Init, Inv, PadInv, ThreadIsOwned

\* The invariant in two parts: the queues with what is counted, and the rest.
Queues == device \in Seq(Event) /\ signals \in Seq(Signal) /\ clicks \in Nat /\ Told

Rest ==
  /\ down \in BOOLEAN /\ stick \in Positions /\ last \in Positions \cup {0}
  /\ open \in BOOLEAN /\ fresh \in BOOLEAN /\ plugged \in BOOLEAN /\ due \in BOOLEAN
  /\ pc \in {"off", "loop", "read", "output", "done"} /\ runFlag \in BOOLEAN
  /\ absState \in Positions \cup {0}
  /\ slider \in SliderMin..SliderMax
  /\ inputs \in 0..MaxInputs /\ selected \in 0..MaxSelect
  /\ pad \in BOOLEAN /\ waiting \in BOOLEAN /\ (waiting => pad /\ ~runFlag)
  /\ ThreadIsOwned

LEMMA Parts == Inv => Queues /\ Rest
<1> SUFFICES ASSUME Inv PROVE Queues /\ Rest
  OBVIOUS
<1>1. TypeOK /\ ThreadIsOwned /\ ClicksArePresses
  BY DEF Inv, PadInv
<1>2. Told
  BY <1>1, ToldIs DEF TypeOK, Told, ClicksArePresses
<1> QED
  BY <1>1, <1>2, Zenon DEF Queues, Rest, TypeOK

LEMMA Whole == Queues' /\ Rest' => Inv'
<1> SUFFICES ASSUME Queues', Rest' PROVE Inv'
  OBVIOUS
<1>1. signals' \in Seq(Signal) /\ device' \in Seq(Event) /\ clicks' \in Nat /\ Told'
  BY DEF Queues
<1>2. Hits(signals', Btns) \in Nat /\ Hits(device', Pressed) \in Nat
  BY <1>1, HitsType
<1>3. presses' \in Nat
  BY <1>1, <1>2 DEF Told
<1>4. ClicksArePresses'
  BY <1>1, ToldIs DEF Told, ClicksArePresses
<1> QED
  BY <1>1, <1>3, <1>4, Zenon DEF Inv, PadInv, TypeOK, Rest

\* What a change of the device adds to what is unread: the change and its Sync.
LEMMA TellCounts ==
  ASSUME NEW d \in Seq(Event), NEW e \in Event
  PROVE  /\ d \o <<e, <<"Sync", 0>>>> \in Seq(Event)
         /\ Hits(d \o <<e, <<"Sync", 0>>>>, Pressed)
              = Hits(d, Pressed) + (IF e \in Pressed THEN 1 ELSE 0)
<1> DEFINE z == <<"Sync", 0>>
<1>1. z \in Event /\ z \notin Pressed
  BY Elements
<1> HIDE DEF z
<1>2. d \o <<e, z>> = Append(Append(d, e), z) /\ Append(d, e) \in Seq(Event)
  BY <1>1
<1>3. Append(Append(d, e), z) \in Seq(Event)
  BY <1>1, <1>2
<1>4. Hits(Append(Append(d, e), z), Pressed) = Hits(Append(d, e), Pressed) + 0
  BY <1>1, <1>2, HitsAppend
<1>5. Hits(Append(d, e), Pressed) = Hits(d, Pressed) + (IF e \in Pressed THEN 1 ELSE 0)
  BY HitsAppend
<1>6. Hits(d, Pressed) \in Nat
  BY HitsType
<1>7. Hits(d \o <<e, z>>, Pressed) = Hits(d, Pressed) + (IF e \in Pressed THEN 1 ELSE 0)
  <2> DEFINE k == IF e \in Pressed THEN 1 ELSE 0
  <2>1. Hits(Append(Append(d, e), z), Pressed) = Hits(d, Pressed) + k
    BY <1>4, <1>5, <1>6
  <2> QED
    BY <1>2, <2>1, Zenon
<1>8. d \o <<e, z>> \in Seq(Event)
  BY <1>2, <1>3, Zenon
<1> QED
  BY <1>7, <1>8, Zenon DEF z

LEMMA StepQueues == Queues /\ Rest /\ [Next]_vars => Queues'
<1> SUFFICES ASSUME Queues, Rest, [Next]_vars PROVE Queues'
  OBVIOUS
<1> DEFINE hs == Hits(signals, Btns)
           hd == Hits(device, Pressed)
<1>1. /\ device \in Seq(Event) /\ signals \in Seq(Signal) /\ clicks \in Nat
      /\ hs \in Nat /\ hd \in Nat /\ presses = clicks + hs + hd
  BY HitsType DEF Queues, Told
<1>2. ASSUME UNCHANGED <<device, signals, clicks, presses>> PROVE Queues'
  BY <1>2 DEF Queues, Told
<1>3. CASE Press
  <2>1. /\ UNCHANGED <<signals, clicks>>
        /\ device' = Tell("Key", IF down THEN 0 ELSE 1)
        /\ presses' = IF open /\ ~down THEN presses + 1 ELSE presses
    BY <1>3 DEF Press, gui
  <2> DEFINE v == IF down THEN 0 ELSE 1
             e == <<"Key", v>>
  <2>2. e \in Event /\ (e \in Pressed <=> ~down)
    BY DEF Event, Pressed
  <2>3. CASE open
    <3>1. device' = device \o <<e, <<"Sync", 0>>>>
      BY <2>1, <2>3 DEF Tell
    <3> HIDE DEF e
    <3>2. device' \in Seq(Event) /\ Hits(device', Pressed) = hd + (IF down THEN 0 ELSE 1)
      BY <3>1, <2>2, <1>1, TellCounts
    <3> QED
      BY <3>2, <2>1, <2>3, <1>1 DEF Queues, Told
  <2>4. CASE ~open
    BY <2>1, <2>4, <1>2 DEF Tell
  <2> QED
    BY <2>3, <2>4
<1>4. ASSUME NEW v \in Positions, Move(v) PROVE Queues'
  <2>1. UNCHANGED <<signals, clicks, presses>> /\ device' = Tell("Absolute", v)
    BY <1>4 DEF Move, gui
  <2> DEFINE e == <<"Absolute", v>>
  <2>2. e \in Event /\ e \notin Pressed
    BY DEF Event, Pressed
  <2>3. CASE open
    <3>1. device' = device \o <<e, <<"Sync", 0>>>>
      BY <2>1, <2>3 DEF Tell
    <3> HIDE DEF e
    <3>2. device' \in Seq(Event) /\ Hits(device', Pressed) = hd + 0
      BY <3>1, <2>2, <1>1, TellCounts
    <3> QED
      BY <3>2, <2>1, <1>1 DEF Queues, Told
  <2>4. CASE ~open
    BY <2>1, <2>4, <1>2 DEF Tell
  <2> QED
    BY <2>3, <2>4
<1>5. CASE Unplug \/ Tick \/ Loop \/ DetectGamepads \/ Stop
  BY <1>5, <1>2 DEF Unplug, Tick, Loop, DetectGamepads, Stop, user, dev, thread, gui
<1>6. CASE Read
  <2>1. UNCHANGED <<clicks, presses>>
    BY <1>6 DEF Read, user, gui
  <2>2. CASE ~plugged \/ device = <<>>
    BY <1>6, <2>1, <2>2, <1>2 DEF Read
  <2>3. CASE plugged /\ device # <<>>
    <3> DEFINE e == Head(device)
    <3>1. device' = Tail(device) /\ signals' = BtnOf(e)
      BY <1>6, <2>3 DEF Read
    <3>2. e \in Event /\ device' \in Seq(Event)
      BY <3>1, <2>3, <1>1
    <3>3. hd = Hits(device', Pressed) + (IF e \in Pressed THEN 1 ELSE 0)
      BY <3>1, <2>3, <1>1, HitsTail
    <3>4. Hits(device', Pressed) \in Nat
      BY <3>2, HitsType
    <3> HIDE DEF e
    <3>5. CASE e \in Pressed
      <4>1. signals' = Append(signals, <<"btn", 0>>)
        BY <3>1, <3>2, <3>5, Elements DEF BtnOf
      <4>2. signals' \in Seq(Signal) /\ Hits(signals', Btns) = hs + 1
        <5> DEFINE b == <<"btn", 0>>
        <5>1. b \in Signal /\ b \in Btns
          BY Elements
        <5> HIDE DEF b
        <5>2. Append(signals, b) \in Seq(Signal) /\ Hits(Append(signals, b), Btns) = hs + 1
          BY <1>1, <5>1, HitsAppend
        <5> QED
          BY <4>1, <5>2 DEF b
      <4> QED
        BY <4>2, <3>2, <3>3, <3>4, <3>5, <2>1, <1>1 DEF Queues, Told
    <3>6. CASE e \notin Pressed
      <4>1. signals' = signals
        BY <3>1, <3>2, <3>6, Elements DEF BtnOf
      <4> QED
        BY <4>1, <3>2, <3>3, <3>4, <3>6, <2>1, <1>1 DEF Queues, Told
    <3> QED
      BY <3>5, <3>6
  <2> QED
    BY <2>2, <2>3
<1>7. CASE OutputAbsEvent
  <2>1. UNCHANGED <<device, clicks, presses>>
    BY <1>7 DEF OutputAbsEvent, user, dev, gui
  <2>2. CASE due
    <3> DEFINE a == <<"abs", absState>>
    <3>1. a \in Signal /\ a \notin Btns
      BY Elements DEF Rest
    <3>2. signals' = Append(signals, a)
      BY <1>7, <2>2 DEF OutputAbsEvent
    <3> HIDE DEF a
    <3>3. signals' \in Seq(Signal) /\ Hits(signals', Btns) = hs + 0
      BY <3>1, <3>2, <1>1, HitsAppend
    <3> QED
      BY <3>3, <2>1, <1>1 DEF Queues, Told
  <2>3. CASE ~due
    BY <1>7, <2>1, <2>3, <1>2 DEF OutputAbsEvent
  <2> QED
    BY <2>2, <2>3
<1>8. CASE SelectGamepad
  <2>1. UNCHANGED <<signals, clicks>>
    BY <1>8 DEF SelectGamepad
  <2>2. CASE fresh
    <3>1. device' = <<>> /\ presses' = presses - Count(device, IsPress)
      BY <1>8, <2>2 DEF SelectGamepad
    <3>2. Count(device, IsPress) = hd
      BY <1>1, CountPressed
    <3>3. Hits(device', Pressed) = 0 /\ device' \in Seq(Event)
      BY <3>1, HitsEmpty
    <3> QED
      BY <3>1, <3>2, <3>3, <2>1, <1>1 DEF Queues, Told
  <2>3. CASE ~fresh
    BY <1>8, <2>1, <2>3, <1>2 DEF SelectGamepad
  <2> QED
    BY <2>2, <2>3
<1>9. CASE Stopped
  <2>1. /\ UNCHANGED <<device, clicks>> /\ signals' \in {<<>>, signals}
        /\ presses' = presses - (Count(signals, IsBtn) - Count(signals', IsBtn))
    BY <1>9 DEF Stopped, dev
  <2>2. signals' \in Seq(Signal)
    <3>1. <<>> \in Seq(Signal)
      OBVIOUS
    <3> QED
      BY <3>1, <2>1, <1>1, Zenon
  <2>3. Count(signals, IsBtn) = hs /\ Count(signals', IsBtn) = Hits(signals', Btns)
    BY <2>2, <1>1, CountBtns
  <2>4. Hits(signals', Btns) \in Nat
    BY <2>2, HitsType
  <2> QED
    BY <2>1, <2>2, <2>3, <2>4, <1>1 DEF Queues, Told
<1>10. CASE Handle
  <2> DEFINE g == Head(signals)
  <2>1. /\ UNCHANGED <<device, presses>> /\ signals # <<>> /\ signals' = Tail(signals)
        /\ clicks' = IF g[1] = "btn" THEN clicks + 1 ELSE clicks
    BY <1>10 DEF Handle, user, dev
  <2>2. signals' \in Seq(Signal) /\ g \in Signal
    BY <2>1, <1>1
  <2>3. hs = Hits(signals', Btns) + (IF g \in Btns THEN 1 ELSE 0)
    BY <2>1, <1>1, HitsTail
  <2>4. Hits(signals', Btns) \in Nat /\ (g \in Btns <=> g[1] = "btn")
    BY <2>2, HitsType, Elements
  <2> HIDE DEF g
  <2> QED
    BY <2>1, <2>2, <2>3, <2>4, <1>1 DEF Queues, Told
<1>11. CASE UNCHANGED vars
  BY <1>11, <1>2 DEF vars, user, dev, thread, gui
<1> QED
  BY <1>3, <1>4, <1>5, <1>6, <1>7, <1>8, <1>9, <1>10, <1>11 DEF Next

LEMMA StepRest == Queues /\ Rest /\ [Next]_vars => Rest'
<1> SUFFICES ASSUME Queues, Rest, [Next]_vars PROVE Rest'
  OBVIOUS
<1>1. MaxInputs \in Nat /\ MaxSelect \in Nat
  BY GamePadAssumption
<1>2. CASE Press
  BY <1>1, <1>2 DEF Press, Rest, ThreadIsOwned, thread, gui
<1>3. ASSUME NEW v \in Positions, Move(v) PROVE Rest'
  BY <1>1, <1>3 DEF Move, Rest, ThreadIsOwned, thread, gui
<1>4. CASE Unplug
  BY <1>4 DEF Unplug, Rest, ThreadIsOwned, user, thread, gui
<1>5. CASE Tick
  BY <1>5 DEF Tick, Rest, ThreadIsOwned, user, dev, gui
<1>6. CASE Loop
  BY <1>6 DEF Loop, Rest, ThreadIsOwned, user, dev, gui
<1>7. CASE Read
  <2>1. absState' \in Positions \cup {0}
    <3>1. CASE plugged /\ device # <<>>
      <4>1. Head(device) \in Event
        BY <3>1 DEF Queues
      <4>2. absState' = IF Head(device)[1] = "Absolute" THEN Head(device)[2] ELSE absState
        BY <1>7, <3>1 DEF Read, AbsOf
      <4> QED
        BY <4>1, <4>2, Elements DEF Rest
    <3>2. CASE ~(plugged /\ device # <<>>)
      BY <1>7, <3>2 DEF Read, Rest
    <3> QED
      BY <3>1, <3>2
  <2>2. CASE ~plugged
    <3>1. /\ pc = "read" /\ pc' = "done" /\ runFlag' = FALSE
          /\ UNCHANGED <<user, open, plugged, due, gui>>
      BY <1>7, <2>2 DEF Read
    <3> QED
      BY <2>1, <3>1 DEF Rest, ThreadIsOwned, user, gui
  <2>3. CASE plugged
    <3>1. /\ pc = "read" /\ pc' = "output" /\ open' = TRUE
          /\ UNCHANGED <<user, runFlag, plugged, due, gui>>
      BY <1>7, <2>3 DEF Read
    <3> QED
      BY <2>1, <3>1 DEF Rest, ThreadIsOwned, user, gui
  <2> QED
    BY <2>2, <2>3
<1>8. CASE OutputAbsEvent
  BY <1>8 DEF OutputAbsEvent, Rest, ThreadIsOwned, user, dev, gui
<1>9. CASE DetectGamepads
  BY <1>9 DEF DetectGamepads, Rest, ThreadIsOwned, user, dev, thread
<1>10. CASE SelectGamepad
  <2>1. /\ last' \in {last, 0} /\ open' \in BOOLEAN /\ fresh' = FALSE
        /\ selected < MaxSelect /\ selected' = selected + 1
        /\ pad' = TRUE /\ pc' = "loop" /\ runFlag' = TRUE /\ absState' = 0 /\ due' = TRUE
        /\ ~waiting /\ UNCHANGED <<down, stick, inputs, plugged, waiting, slider>>
    BY <1>10 DEF SelectGamepad
  <2>2. selected' \in 0..MaxSelect
    BY <1>1, <2>1 DEF Rest
  <2> QED
    BY <2>1, <2>2, Zenon DEF Rest, ThreadIsOwned
<1>11. CASE Stop
  BY <1>11 DEF Stop, Rest, ThreadIsOwned, user, dev
<1>12. CASE Stopped
  BY <1>12 DEF Stopped, Waited, Rest, ThreadIsOwned, dev
<1>13. CASE Handle
  <2> DEFINE g == Head(signals)
  <2>1. /\ signals # <<>> /\ UNCHANGED <<user, dev, thread, pad, waiting, selected, fresh>>
        /\ slider' = IF g[1] = "btn" THEN slider ELSE Slid(g[2])
    BY <1>13 DEF Handle
  <2>2. g \in Signal
    BY <2>1 DEF Queues
  <2> HIDE DEF g
  <2>3. g[1] # "btn" => g[2] \in Int
    <3>1. g[1] # "btn" => g[2] \in Positions \cup {0}
      BY <2>2, Elements
    <3>2. \A v \in Positions \cup {0} : v \in Int
      BY GamePadAssumption
    <3> QED
      BY <3>1, <3>2
  <2>4. slider' \in SliderMin..SliderMax
    BY <2>1, <2>3, SlidInRange DEF Rest
  <2> QED
    BY <2>1, <2>4 DEF Rest, ThreadIsOwned, user, dev, thread
<1>14. CASE UNCHANGED vars
  BY <1>14 DEF vars, Rest, ThreadIsOwned, user, dev, thread, gui
<1> QED
  BY <1>2, <1>3, <1>4, <1>5, <1>6, <1>7, <1>8, <1>9, <1>10, <1>11, <1>12, <1>13, <1>14 DEF Next

LEMMA Inductive == Spec => []Inv
<1>1. Inv /\ [Next]_vars => Inv'
  BY Parts, StepQueues, StepRest, Whole
<1> QED
  BY <1>1, InitInv, PTL DEF Spec

\* GamePadThread.run, MainGui.selectGamepad: the thread is never there without the
\* window's gamepad, stop() leaves no run flag behind, and whatever the device tells,
\* the positions the thread sends keep the slider within its range.
THEOREM ThreadOwned == Spec => []PadInv
<1>1. Inv => PadInv
  BY DEF Inv
<1> QED
  BY <1>1, Inductive, PTL

\* processEvent, updateGamePad: however the thread, the window and the user take
\* turns, a press that was told is clicked once, queued once or still unread.
THEOREM EveryPressOnce == Spec => []ClicksArePresses
<1>1. Inv => ClicksArePresses
  BY DEF Inv
<1> QED
  BY <1>1, Inductive, PTL
=============================================================================
