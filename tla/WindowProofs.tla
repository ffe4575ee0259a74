---------------------------- MODULE WindowProofs ----------------------------
(***************************************************************************)
(* Theorems about the parts of the main window: the settings and their     *)
(* remote widgets, the plot windows, the menus and the visualizers.        *)
(*                                                                         *)
(* Each part has an inductive invariant of its own, which is proved of the *)
(* instance of that part, and from it the theorem about the window.        *)
(***************************************************************************)
EXTENDS MainWindow, TLAPS, SequenceTheorems, FiniteSetTheorems, WellFoundedInduction

-----------------------------------------------------------------------------
(* The parts: a step of the window is one of the part that is looked at.   *)

LEMMA PartSteps ==
  ASSUME [Next]_vars
  PROVE  /\ part' = part
         /\ part = "settings" => [S!Next]_(S!vars)
         /\ part = "widgets" => [W!Next]_(W!vars)
         /\ part = "slider" => [L!Next]_(L!vars)
         /\ part = "docks" => [P!Next]_(P!vars)
         /\ part = "chart" => [C!Next]_(C!vars)
         /\ part = "menus" => [K!Next]_(K!vars)
         /\ part = "pictures" => [V!Next]_(V!vars)
<1>1. CASE Next
  BY <1>1 DEF Next
<1>2. CASE UNCHANGED vars
  BY <1>2 DEF vars, writing, listing, sliding, plotting, drawing, choosing, watching,
              S!vars, W!vars, L!vars, P!vars, P!plots, P!record, C!vars, K!vars, V!vars
<1> QED
  BY <1>1, <1>2

-----------------------------------------------------------------------------
(* Settings: functions on some of the modules.                             *)

LEMMA PartialIs ==
  ASSUME NEW T, NEW f
  PROVE  f \in S!Partial(T) <=> f \in [DOMAIN f -> S!Settings] /\ DOMAIN f \subseteq T
BY DEF S!Partial

LEMMA OverIs ==
  ASSUME NEW f, NEW g
  PROVE  /\ DOMAIN S!Over(f, g) = DOMAIN f \cup DOMAIN g
         /\ \A m \in DOMAIN f : S!Over(f, g)[m] = f[m]
         /\ \A m \in DOMAIN g \ DOMAIN f : S!Over(f, g)[m] = g[m]
         /\ \A T : f \in S!Partial(T) /\ g \in S!Partial(T) => S!Over(f, g) \in S!Partial(T)
<1>1. \A T : f \in S!Partial(T) /\ g \in S!Partial(T) => S!Over(f, g) \in S!Partial(T)
  <2> SUFFICES ASSUME NEW T, f \in S!Partial(T), g \in S!Partial(T)
               PROVE  S!Over(f, g) \in S!Partial(T)
    OBVIOUS
  <2>1. /\ f \in [DOMAIN f -> S!Settings] /\ DOMAIN f \subseteq T
        /\ g \in [DOMAIN g -> S!Settings] /\ DOMAIN g \subseteq T
    BY PartialIs
  <2>2. S!Over(f, g) \in [DOMAIN f \cup DOMAIN g -> S!Settings]
    BY <2>1 DEF S!Over
  <2> QED
    BY <2>1, <2>2 DEF S!Partial
<1> QED
  BY <1>1 DEF S!Over

LEMMA OverSent ==
  ASSUME NEW t \in S!Partial(Mods), NEW f \in S!Partial(Mods)
  PROVE  /\ DOMAIN S!Over(t, f) = DOMAIN t \cup DOMAIN f
         /\ \A m \in DOMAIN t : S!Over(t, f)[m] = t[m]
         /\ \A m \in DOMAIN f \ DOMAIN t : S!Over(t, f)[m] = f[m]
         /\ S!Over(t, f) \in S!Partial(Mods)
<1>1. S!Over(t, f) \in S!Partial(Mods)
  BY OverIs
<1> QED
  BY <1>1, OverIs

\* What is sent is the tree's, for the modules that differ; the GUI notes it.
LEMMA SendChangedIs ==
  ASSUME NEW D, D \subseteq Mods, NEW s \in [D -> S!Settings],
         modSets \in S!Partial(Mods), rig \in S!Partial(Mods),
         D \subseteq DOMAIN modSets \cap DOMAIN rig, S!SendChanged(s)
  PROVE  /\ modSets' \in S!Partial(Mods) /\ rig' \in S!Partial(Mods)
         /\ DOMAIN modSets' = DOMAIN modSets /\ DOMAIN rig' = DOMAIN rig
         /\ \A m \in D : \/ modSets[m] # s[m] /\ modSets'[m] = s[m] /\ rig'[m] = s[m]
                         \/ modSets[m] = s[m] /\ modSets'[m] = modSets[m] /\ rig'[m] = rig[m]
<1> DEFINE c == S!Changed(s)
           t == S!Sent(s, c)
<1>1. c = {m \in D : modSets[m] # s[m]}
  BY DEF S!Changed
<1>2. DOMAIN t = c /\ \A m \in c : t[m] = s[m]
  BY DEF S!Sent
<1>3. t \in S!Partial(Mods)
  <2>1. t \in [c -> S!Settings]
    BY <1>1 DEF S!Sent
  <2> QED
    BY <1>1, <2>1 DEF S!Partial
<1>4. modSets' = S!Over(t, modSets) /\ rig' = S!Over(t, rig)
  BY DEF S!SendChanged
<1> HIDE DEF c, t
<1>5. /\ modSets' \in S!Partial(Mods) /\ rig' \in S!Partial(Mods)
      /\ DOMAIN modSets' = c \cup DOMAIN modSets /\ DOMAIN rig' = c \cup DOMAIN rig
      /\ \A m \in c : modSets'[m] = s[m] /\ rig'[m] = s[m]
      /\ \A m \in DOMAIN modSets \ c : modSets'[m] = modSets[m]
      /\ \A m \in DOMAIN rig \ c : rig'[m] = rig[m]
  <2>1. /\ DOMAIN S!Over(t, modSets) = c \cup DOMAIN modSets
        /\ \A m \in c : S!Over(t, modSets)[m] = s[m]
        /\ \A m \in DOMAIN modSets \ c : S!Over(t, modSets)[m] = modSets[m]
        /\ S!Over(t, modSets) \in S!Partial(Mods)
    BY <1>2, <1>3, OverSent
  <2>2. /\ DOMAIN S!Over(t, rig) = c \cup DOMAIN rig
        /\ \A m \in c : S!Over(t, rig)[m] = s[m]
        /\ \A m \in DOMAIN rig \ c : S!Over(t, rig)[m] = rig[m]
        /\ S!Over(t, rig) \in S!Partial(Mods)
    BY <1>2, <1>3, OverSent
  <2> QED
    BY <1>4, <2>1, <2>2
<1> QED
  BY <1>1, <1>2, <1>5

-----------------------------------------------------------------------------
(* Settings: the trees.                                                    *)

\* applying what fits the modules gives a tree with their settings
LEMMA ApplyIs ==
  ASSUME S!SettingsAssumption, NEW given, DOMAIN given \subseteq DOMAIN Public,
         \A m \in DOMAIN given, p \in Pars : p \in DOMAIN given[m] => given[m][p] \in Values
  PROVE  S!ApplyExperiment(given) \in [DOMAIN given -> S!Settings]
<1>1. \A m \in DOMAIN given : Public[m] \in [Pars -> Values]
  BY DEF S!SettingsAssumption, S!Settings
<1>2. \A m \in DOMAIN given :
        [p \in Pars |-> IF m \in DOMAIN given /\ p \in DOMAIN given[m] THEN given[m][p]
                        ELSE S!AddSettings(DOMAIN given)[m][p]] \in [Pars -> Values]
  BY <1>1 DEF S!AddSettings, S!ReadSettings
<1> QED
  BY <1>2 DEF S!ApplyExperiment, S!EditExperiment, S!AddSettings, S!Settings

\* a widget sets its parameter and nothing else
LEMMA WithIs ==
  ASSUME NEW D, sets \in [D -> S!Settings], NEW w, NEW v \in Values
  PROVE  /\ S!With(w, v) \in [D -> S!Settings]
         /\ \A m \in D, p \in Pars :
              S!With(w, v)[m][p] = IF m = w.mod /\ p = w.par THEN v ELSE sets[m][p]
<1>1. S!With(w, v) = [m \in D |-> [p \in Pars |-> IF m = w.mod /\ p = w.par THEN v ELSE sets[m][p]]]
  BY DEF S!With, S!EditExperiment
<1>2. \A m \in D : sets[m] \in [Pars -> Values]
  BY DEF S!Settings
<1> QED
  BY <1>1, <1>2 DEF S!Settings

-----------------------------------------------------------------------------
(* Settings: the inductive invariant.                                      *)

Measurement == [exp : Exps, sets : S!Partial(DOMAIN Public)]

\* SettingsInv, and the trees are those of registered modules and the measurement
\* of a run is the current one only while it runs
SettingsIInv ==
  /\ S!SettingsInv
  /\ DOMAIN sets \subseteq DOMAIN Public
  /\ runs \in Seq(Measurement)
  /\ shown = "current" => running

SettingsHyp == S!SettingsAssumption /\ SendAll = FALSE

\* what a step leaves of the tree and its measurements
Trees == <<exp, sets, runs>>

LEMMA SettingsInit == SettingsHyp /\ S!Init => SettingsIInv
<1> SUFFICES ASSUME SettingsHyp, S!Init PROVE SettingsIInv
  OBVIOUS
<1> USE DEF SettingsHyp, S!Init
<1>1. sets \in [DOMAIN File[exp] -> S!Settings]
  BY ApplyIs DEF S!Registered, S!SettingsAssumption
<1>2. <<>> \in S!Partial(Mods)
  <2>1. <<>> \in [{} -> S!Settings]
    OBVIOUS
  <2> QED
    BY <2>1 DEF S!Partial
<1>3. S!TypeOK
  <2>1. \A i \in 1..Len(runs) : FALSE
    OBVIOUS
  <2>2. /\ exp \in Exps /\ modSets \in S!Partial(Mods) /\ rig \in S!Partial(Mods)
        /\ running \in BOOLEAN /\ ready \in BOOLEAN /\ remote \in BOOLEAN
        /\ shown \in {"none", "current", "past"} /\ checked \subseteq Widgets
        /\ asked \in {None} /\ crash \in {"none", "AttributeError", "KeyError"}
    BY <1>2 DEF S!NewSwitches
  <2> QED
    BY <1>1, <2>1, <2>2 DEF S!TypeOK
<1>4. ~S!InRun
  BY DEF S!InRun
<1> QED
  BY <1>1, <1>3, <1>4 DEF SettingsIInv, S!SettingsInv, S!ActiveKnown, S!RigKnown, S!Registered

\* a slot that sends the tree s, in a run or not
LEMMA RemoteSends ==
  ASSUME SettingsHyp, SettingsIInv, NEW s \in [DOMAIN sets -> S!Settings], S!SendRemote(s),
         UNCHANGED <<running, shown>>, sets' = s
  PROVE  /\ modSets' \in S!Partial(Mods) /\ rig' \in S!Partial(Mods)
         /\ S!ActiveKnown' /\ S!RigKnown'
         /\ crash' \in {crash, "AttributeError"}
         /\ S!InRun => \A m \in DOMAIN sets :
              \/ rig'[m] = s[m]
              \/ modSets[m] = s[m] /\ rig'[m] = rig[m]
<1> DEFINE D == DOMAIN sets
<1>1. /\ modSets \in S!Partial(Mods) /\ rig \in S!Partial(Mods) /\ D \subseteq Mods
      /\ S!ActiveKnown /\ S!RigKnown
  BY DEF SettingsIInv, S!SettingsInv, S!TypeOK, SettingsHyp, S!SettingsAssumption
<1>2. CASE S!InRun
  <2>1. D \subseteq DOMAIN modSets \cap DOMAIN rig
    BY <1>1, <1>2 DEF S!ActiveKnown
  <2>2. S!SendChanged(s) /\ crash' = crash
    BY <1>2 DEF S!SendRemote, S!SlotSendChanged, S!InRun, S!NoCurrent
  <2>3. /\ modSets' \in S!Partial(Mods) /\ rig' \in S!Partial(Mods)
        /\ DOMAIN modSets' = DOMAIN modSets /\ DOMAIN rig' = DOMAIN rig
        /\ \A m \in D : \/ modSets[m] # s[m] /\ modSets'[m] = s[m] /\ rig'[m] = s[m]
                        \/ modSets[m] = s[m] /\ modSets'[m] = modSets[m] /\ rig'[m] = rig[m]
    BY <1>1, <2>1, <2>2, SendChangedIs
  <2>4. DOMAIN sets' = D
    OBVIOUS
  <2>5. S!ActiveKnown'
    BY <2>1, <2>3, <2>4 DEF S!ActiveKnown
  <2>6. S!RigKnown'
    BY <1>1, <1>2, <2>3, <2>4 DEF S!RigKnown
  <2> QED
    BY <2>2, <2>3, <2>5, <2>6
<1>3. CASE ~S!InRun
  <2>1. UNCHANGED <<modSets, rig>> /\ crash' \in {crash, "AttributeError"} /\ ~S!InRun'
    BY <1>3 DEF S!SendRemote, S!SlotSendChanged, S!NoCurrent, S!InRun
  <2> QED
    BY <1>1, <1>3, <2>1 DEF S!ActiveKnown, S!RigKnown
<1> QED
  BY <1>2, <1>3

\* a step that leaves the tree, or another one of the same modules
LEMMA SettingsKeep ==
  ASSUME SettingsHyp, SettingsIInv, UNCHANGED <<exp, runs, modSets, rig, running, shown>>,
         sets' \in [DOMAIN sets -> S!Settings],
         ready' \in BOOLEAN, remote' \in BOOLEAN, checked' \subseteq Widgets,
         asked' \in {None} \cup [mod : Mods, par : Pars, val : Values],
         crash' \in {"none", "AttributeError", "KeyError"}
  PROVE  SettingsIInv'
<1>1. DOMAIN sets' = DOMAIN sets
  OBVIOUS
<1>2. S!TypeOK'
  <2>1. DOMAIN sets = DOMAIN File[exp]
    BY DEF SettingsIInv, S!SettingsInv, S!TypeOK
  <2>2. /\ exp \in Exps /\ modSets \in S!Partial(Mods) /\ rig \in S!Partial(Mods)
        /\ running \in BOOLEAN /\ shown \in {"none", "current", "past"}
        /\ \A i \in 1..Len(runs) : runs[i].sets \in [DOMAIN File[runs[i].exp] -> S!Settings]
    BY DEF SettingsIInv, S!SettingsInv, S!TypeOK
  <2> QED
    BY <2>1, <2>2 DEF S!TypeOK
<1>3. S!ActiveKnown' /\ S!RigKnown'
  BY <1>1 DEF SettingsIInv, S!SettingsInv, S!ActiveKnown, S!RigKnown, S!InRun
<1> QED
  BY <1>1, <1>2, <1>3 DEF SettingsIInv, S!SettingsInv

\* a step of a remote widget, which leaves the experiment and the measurements
LEMMA SettingsRemote ==
  ASSUME SettingsHyp, SettingsIInv,
         UNCHANGED <<exp, running, ready, shown, remote, runs>>,
         sets' \in [DOMAIN sets -> S!Settings], checked' \subseteq Widgets,
         modSets' \in S!Partial(Mods), rig' \in S!Partial(Mods),
         S!ActiveKnown', S!RigKnown',
         asked' \in {None} \cup [mod : Mods, par : Pars, val : Values],
         crash' \in {"none", "AttributeError", "KeyError"}
  PROVE  SettingsIInv'
<1>1. DOMAIN sets' = DOMAIN sets
  OBVIOUS
<1>2. DOMAIN sets = DOMAIN File[exp]
  BY DEF SettingsIInv, S!SettingsInv, S!TypeOK
<1>3. /\ exp \in Exps /\ ready \in BOOLEAN /\ remote \in BOOLEAN
      /\ running \in BOOLEAN /\ shown \in {"none", "current", "past"}
      /\ \A i \in 1..Len(runs) : runs[i].sets \in [DOMAIN File[runs[i].exp] -> S!Settings]
  BY DEF SettingsIInv, S!SettingsInv, S!TypeOK
<1>4. S!TypeOK'
  BY <1>1, <1>2, <1>3 DEF S!TypeOK
<1> QED
  BY <1>1, <1>4 DEF SettingsIInv, S!SettingsInv

\* another experiment, or a measurement that is opened again
LEMMA SettingsNewTree ==
  ASSUME SettingsHyp, SettingsIInv, ~running, exp' \in Exps, NEW given,
         DOMAIN given = DOMAIN File[exp'], DOMAIN given \subseteq DOMAIN Public,
         \A m \in DOMAIN given, p \in Pars : p \in DOMAIN given[m] => given[m][p] \in Values,
         sets' = S!ApplyExperiment(given), UNCHANGED <<modSets, rig, running, runs, crash>>,
         shown' \in {shown, "past"}, ready' \in BOOLEAN, remote' \in BOOLEAN,
         checked' \subseteq Widgets, asked' = None
  PROVE  SettingsIInv'
<1>1. sets' \in [DOMAIN given -> S!Settings]
  BY ApplyIs DEF SettingsHyp
<1>2. /\ modSets \in S!Partial(Mods) /\ rig \in S!Partial(Mods)
      /\ running \in BOOLEAN /\ shown \in {"none", "current", "past"}
      /\ \A i \in 1..Len(runs) : runs[i].sets \in [DOMAIN File[runs[i].exp] -> S!Settings]
      /\ crash \in {"none", "AttributeError", "KeyError"}
  BY DEF SettingsIInv, S!SettingsInv, S!TypeOK
<1>3. S!TypeOK'
  BY <1>1, <1>2 DEF S!TypeOK
<1>4. ~S!InRun'
  BY DEF S!InRun
<1>5. S!ActiveKnown' /\ S!RigKnown'
  BY <1>4 DEF S!ActiveKnown, S!RigKnown
<1> QED
  BY <1>1, <1>3, <1>5 DEF SettingsIInv, S!SettingsInv

\* A switch or a slider sends the value it is asked for, unless it is known already.
LEMMA ValueSent ==
  ASSUME SettingsHyp, SettingsIInv, NEW w \in Widgets, w.mod \in DOMAIN sets, NEW v \in Values,
         sets' = S!With(w, v), S!SendRemote(S!With(w, v)), crash = "none",
         UNCHANGED <<exp, running, ready, shown, remote, runs>>, checked' \subseteq Widgets,
         asked' = S!Ask(w, v)
  PROVE  SettingsIInv' /\ S!WidgetReaches'
<1> DEFINE s == S!With(w, v)
           D == DOMAIN sets
<1>1. w.mod \in Mods /\ w.par \in Pars /\ w.kind \in {"push", "switch", "slider"}
  BY DEF SettingsHyp, S!SettingsAssumption, S!Widget
<1>2. sets \in [D -> S!Settings]
  BY DEF SettingsIInv, S!SettingsInv, S!TypeOK
<1>3. s \in [D -> S!Settings] /\ s[w.mod][w.par] = v
  BY <1>1, <1>2, WithIs
<1> HIDE DEF s
<1>4. sets' = s /\ S!SendRemote(s)
  BY DEF s
<1>5. /\ modSets' \in S!Partial(Mods) /\ rig' \in S!Partial(Mods)
      /\ S!ActiveKnown' /\ S!RigKnown'
      /\ crash' \in {crash, "AttributeError"}
      /\ S!InRun => \A m \in D : \/ rig'[m] = s[m]
                                 \/ modSets[m] = s[m] /\ rig'[m] = rig[m]
  BY <1>3, <1>4, RemoteSends
<1>6. asked' = [mod |-> w.mod, par |-> w.par, val |-> v]
  BY DEF S!Ask
<1>7. SettingsIInv'
  BY <1>1, <1>3, <1>4, <1>5, <1>6, SettingsRemote
<1>8. ASSUME S!InRun
      PROVE  rig'[w.mod][w.par] = v \/ S!Pulsed(w.mod, w.par, rig'[w.mod][w.par], v)
  <2>1. CASE rig'[w.mod] = s[w.mod]
    BY <1>3, <2>1
  <2>2. CASE modSets[w.mod] = s[w.mod] /\ rig'[w.mod] = rig[w.mod]
    <3>1. \/ rig[w.mod][w.par] = modSets[w.mod][w.par]
          \/ S!Pulsed(w.mod, w.par, rig[w.mod][w.par], modSets[w.mod][w.par])
      BY <1>1, <1>8 DEF SettingsIInv, S!SettingsInv, S!RigKnown
    <3> QED
      BY <1>3, <2>2, <3>1
  <2> QED
    BY <1>5, <1>8, <2>1, <2>2
<1>9. S!WidgetReaches'
  <2>1. S!InRun' => S!InRun
    BY DEF S!InRun
  <2> QED
    BY <1>6, <1>8, <2>1 DEF S!WidgetReaches
<1> QED
  BY <1>7, <1>9

\* A button with a reset value sends its value, unless it is known already, and notes
\* the reset value.
LEMMA PulseSent ==
  ASSUME SettingsHyp, SettingsIInv, NEW w \in Widgets, S!Push(w), w.reset # None
  PROVE  SettingsIInv' /\ S!WidgetReaches'
<1> DEFINE s == S!With(w, w.on)
           D == DOMAIN sets
<1>1. /\ w.mod \in Mods /\ w.par \in Pars /\ w.on \in Values /\ w.reset \in Values
      /\ w.kind = "push" /\ w.mod \in D
  BY DEF SettingsHyp, S!SettingsAssumption, S!Widget, S!Push, S!Usable
<1>2. /\ sets \in [D -> S!Settings] /\ D \subseteq Mods
      /\ modSets \in S!Partial(Mods) /\ rig \in S!Partial(Mods)
  BY DEF SettingsIInv, S!SettingsInv, S!TypeOK, SettingsHyp, S!SettingsAssumption
<1>3. /\ s \in [D -> S!Settings] /\ s[w.mod][w.par] = w.on
  BY <1>1, <1>2, WithIs
<1>4. sets' \in [D -> S!Settings]
  BY <1>1, <1>2, WithIs DEF S!Push
<1>5. /\ asked' = [mod |-> w.mod, par |-> w.par, val |-> w.on]
      /\ crash' \in {"none", "AttributeError", "KeyError"}
      /\ UNCHANGED <<exp, running, ready, shown, remote, runs, checked>>
  BY DEF S!Push, S!Ask
<1>6. checked' \subseteq Widgets
  BY <1>5 DEF SettingsIInv, S!SettingsInv, S!TypeOK
\* what updateSendParameter makes of the entries that are known
<1>7. ASSUME NEW f \in S!Partial(Mods)
      PROVE  /\ S!UpdateSend(f, w.mod, w.par, w.reset) \in S!Partial(Mods)
             /\ DOMAIN S!UpdateSend(f, w.mod, w.par, w.reset) = DOMAIN f
             /\ \A m \in DOMAIN f, p \in Pars :
                  S!UpdateSend(f, w.mod, w.par, w.reset)[m][p] =
                    IF m = w.mod /\ p = w.par THEN w.reset ELSE f[m][p]
  <2>1. f \in [DOMAIN f -> [Pars -> Values]] /\ DOMAIN f \subseteq Mods
    BY PartialIs DEF S!Settings
  <2> DEFINE g == S!UpdateSend(f, w.mod, w.par, w.reset)
  <2>2. CASE w.mod \in DOMAIN f
    <3>1. g = [f EXCEPT ![w.mod] = [f[w.mod] EXCEPT ![w.par] = w.reset]]
      BY <2>2 DEF S!UpdateSend
    <3>2. f[w.mod] \in [Pars -> Values]
      BY <2>1, <2>2
    <3>3. [f[w.mod] EXCEPT ![w.par] = w.reset] \in [Pars -> Values]
      BY <1>1, <3>2
    <3>4. g \in [DOMAIN f -> [Pars -> Values]]
      BY <2>1, <3>1, <3>3
    <3>5. g \in S!Partial(Mods)
      BY <2>1, <3>4 DEF S!Partial, S!Settings
    <3>6. \A m \in DOMAIN f, p \in Pars :
            g[m][p] = IF m = w.mod /\ p = w.par THEN w.reset ELSE f[m][p]
      BY <2>1, <2>2, <3>1, <3>2
    <3> QED
      BY <3>4, <3>5, <3>6
  <2>3. CASE w.mod \notin DOMAIN f
    BY <2>3 DEF S!UpdateSend
  <2> QED
    BY <2>2, <2>3
<1>8. CASE S!InRun
  <2> DEFINE c == S!Changed(s)
             t == S!Sent(s, c)
             f == S!Over(t, modSets)
  <2>1. /\ modSets' = S!UpdateSend(f, w.mod, w.par, w.reset) /\ rig' = S!Over(t, rig)
    BY <1>8 DEF S!Push, S!InRun
  <2>2. c = {m \in D : modSets[m] # s[m]}
    BY <1>3 DEF S!Changed
  <2>3. DOMAIN t = c /\ \A m \in c : t[m] = s[m]
    BY DEF S!Sent
  <2>4. t \in S!Partial(Mods)
    <3>1. t \in [c -> S!Settings]
      BY <1>3, <2>2 DEF S!Sent
    <3> QED
      BY <1>2, <2>2, <3>1 DEF S!Partial
  <2>5. D \subseteq DOMAIN modSets \cap DOMAIN rig
    BY <1>8 DEF SettingsIInv, S!SettingsInv, S!ActiveKnown
  <2> HIDE DEF s, c, t
  <2>6. /\ DOMAIN f = c \cup DOMAIN modSets
        /\ \A m \in c : f[m] = s[m]
        /\ \A m \in DOMAIN modSets \ c : f[m] = modSets[m]
        /\ f \in S!Partial(Mods)
    BY <1>2, <2>3, <2>4, OverSent
  <2>7. /\ DOMAIN rig' = c \cup DOMAIN rig
        /\ \A m \in c : rig'[m] = s[m]
        /\ \A m \in DOMAIN rig \ c : rig'[m] = rig[m]
        /\ rig' \in S!Partial(Mods)
    <3>1. /\ DOMAIN S!Over(t, rig) = c \cup DOMAIN rig
          /\ \A m \in c : S!Over(t, rig)[m] = s[m]
          /\ \A m \in DOMAIN rig \ c : S!Over(t, rig)[m] = rig[m]
          /\ S!Over(t, rig) \in S!Partial(Mods)
      BY <1>2, <2>3, <2>4, OverSent
    <3> QED
      BY <2>1, <3>1
  <2> HIDE DEF f
  <2>8. /\ modSets' \in S!Partial(Mods) /\ DOMAIN modSets' = DOMAIN f
        /\ \A m \in DOMAIN f, p \in Pars :
             modSets'[m][p] = IF m = w.mod /\ p = w.par THEN w.reset ELSE f[m][p]
    BY <1>7, <2>1, <2>6
  <2>9. S!RigKnown
    BY DEF SettingsIInv, S!SettingsInv
  <2>10. rig'[w.mod][w.par] = w.on \/ S!Pulsed(w.mod, w.par, rig'[w.mod][w.par], w.on)
    <3>1. CASE w.mod \in c
      BY <1>3, <2>7, <3>1
    <3>2. CASE w.mod \notin c
      <4>1. modSets[w.mod][w.par] = w.on /\ rig'[w.mod] = rig[w.mod]
        BY <1>1, <1>3, <2>2, <2>5, <2>7, <3>2
      <4>2. \/ rig[w.mod][w.par] = modSets[w.mod][w.par]
            \/ S!Pulsed(w.mod, w.par, rig[w.mod][w.par], modSets[w.mod][w.par])
        BY <1>1, <1>8, <2>9 DEF S!RigKnown
      <4> QED
        BY <4>1, <4>2
    <3> QED
      BY <3>1, <3>2
  \* whichever it is, the rig has the value of a button and the GUI the reset value
  <2>15. S!Pulsed(w.mod, w.par, rig'[w.mod][w.par], w.reset)
    <3>1. w \in S!Pulses(w.mod, w.par)
      BY <1>1 DEF S!Pulses
    <3> QED
      BY <2>10, <3>1 DEF S!Pulsed
  <2>11. DOMAIN sets' = D
    BY <1>4
  <2>12. S!ActiveKnown'
    BY <2>5, <2>6, <2>7, <2>8, <2>11 DEF S!ActiveKnown
  <2>13. S!RigKnown'
    <3> SUFFICES ASSUME NEW m \in D, NEW p \in Pars
                 PROVE  \/ rig'[m][p] = modSets'[m][p]
                        \/ S!Pulsed(m, p, rig'[m][p], modSets'[m][p])
      BY <2>11 DEF S!RigKnown
    <3>1. m \in DOMAIN f /\ m \in DOMAIN rig /\ m \in DOMAIN modSets
      BY <2>5, <2>6
    <3>2. CASE m = w.mod /\ p = w.par
      BY <1>1, <2>8, <2>15, <3>1, <3>2
    <3>3. CASE ~(m = w.mod /\ p = w.par)
      <4>1. modSets'[m][p] = f[m][p]
        BY <2>8, <3>1, <3>3
      <4>2. CASE m \in c
        BY <2>6, <2>7, <4>1, <4>2
      <4>3. CASE m \notin c
        <5>1. modSets'[m][p] = modSets[m][p] /\ rig'[m][p] = rig[m][p]
          BY <2>6, <2>7, <3>1, <4>1, <4>3
        <5> QED
          BY <1>8, <2>9, <5>1 DEF S!RigKnown
      <4> QED
        BY <4>2, <4>3
    <3> QED
      BY <3>2, <3>3
  <2>14. S!WidgetReaches'
    BY <1>5, <2>10 DEF S!WidgetReaches
  <2> QED
    BY <1>1, <1>4, <1>5, <1>6, <2>7, <2>8, <2>12, <2>13, <2>14, SettingsRemote
<1>9. CASE ~S!InRun
  <2>1. modSets' = S!UpdateSend(modSets, w.mod, w.par, w.reset) /\ rig' = rig /\ ~S!InRun'
    BY <1>5, <1>9 DEF S!Push, S!InRun
  <2>2. modSets' \in S!Partial(Mods)
    BY <1>2, <1>7, <2>1
  <2>3. S!ActiveKnown' /\ S!RigKnown' /\ S!WidgetReaches'
    BY <2>1 DEF S!ActiveKnown, S!RigKnown, S!WidgetReaches
  <2> QED
    BY <1>1, <1>2, <1>4, <1>5, <1>6, <2>1, <2>2, <2>3, SettingsRemote
<1> QED
  BY <1>8, <1>9

LEMMA SettingsStep ==
  ASSUME SettingsHyp, SettingsIInv, S!WidgetReaches, [S!Next]_(S!vars)
  PROVE  SettingsIInv' /\ S!WidgetReaches'
<1> DEFINE D == DOMAIN sets
<1>1. /\ sets \in [D -> S!Settings] /\ D = DOMAIN File[exp] /\ D \subseteq DOMAIN Public
      /\ D \subseteq Mods /\ exp \in Exps /\ checked \subseteq Widgets
      /\ modSets \in S!Partial(Mods) /\ rig \in S!Partial(Mods)
      /\ running \in BOOLEAN /\ ready \in BOOLEAN /\ remote \in BOOLEAN
      /\ shown \in {"none", "current", "past"}
      /\ crash \in {"none", "AttributeError", "KeyError"}
      /\ asked \in {None} \cup [mod : Mods, par : Pars, val : Values]
      /\ \A i \in 1..Len(runs) : runs[i].sets \in [DOMAIN File[runs[i].exp] -> S!Settings]
      /\ runs \in Seq(Measurement) /\ (shown = "current" => running)
  BY DEF SettingsIInv, S!SettingsInv, S!TypeOK, SettingsHyp, S!SettingsAssumption
<1>3. ASSUME NEW e \in Exps, S!Apply(e) PROVE SettingsIInv' /\ asked' = None
  <2>1. ~running /\ asked' = None /\ UNCHANGED <<modSets, rig, running, shown, runs>>
    BY <1>3 DEF S!Apply
  <2>2. CASE \A m \in DOMAIN File[e] : S!Registered(m)
    <3>1. /\ exp' = e /\ sets' = S!ApplyExperiment(File[e]) /\ ready' = TRUE
          /\ remote' = TRUE /\ checked' = {} /\ crash' = crash
      BY <1>3, <2>2 DEF S!Apply, S!NewSwitches
    <3>2. /\ DOMAIN File[e] \subseteq DOMAIN Public
          /\ \A m \in DOMAIN File[e], p \in Pars :
               p \in DOMAIN File[e][m] => File[e][m][p] \in Values
      BY <2>2 DEF S!Registered, SettingsHyp, S!SettingsAssumption
    <3> QED
      BY <2>1, <3>1, <3>2, SettingsNewTree
  <2>3. CASE ~\A m \in DOMAIN File[e] : S!Registered(m)
    <3>1. crash' = "KeyError" /\ UNCHANGED <<exp, sets, ready, remote, checked>>
      BY <1>3, <2>3 DEF S!Apply
    <3> QED
      BY <1>1, <2>1, <3>1, SettingsKeep
  <2> QED
    BY <2>2, <2>3
<1>4. ASSUME NEW m \in Mods, NEW p \in Pars, NEW v \in Values, S!Edit(m, p, v)
      PROVE  SettingsIInv' /\ asked' = None
  <2>1. /\ m \in D /\ sets' = [sets EXCEPT ![m] = [sets[m] EXCEPT ![p] = v]] /\ asked' = None
        /\ UNCHANGED <<exp, modSets, rig, running, ready, shown, remote, checked, runs, crash>>
    BY <1>4 DEF S!Edit
  <2>2. sets[m] \in [Pars -> Values]
    BY <1>1, <2>1 DEF S!Settings
  <2>3. [sets[m] EXCEPT ![p] = v] \in S!Settings
    BY <2>2 DEF S!Settings
  <2>4. sets' \in [D -> S!Settings]
    BY <1>1, <2>1, <2>3
  <2> QED
    BY <1>1, <2>1, <2>4, SettingsKeep
<1>5. ASSUME S!Start PROVE SettingsIInv'
  <2>1. /\ ~running /\ running' = TRUE /\ ready' = FALSE /\ asked' = None
        /\ UNCHANGED <<exp, sets, remote, checked, crash>>
    BY <1>5 DEF S!Start
  <2>2. CASE S!DataPoints(sets) # {}
    <3>1. /\ shown' = "current" /\ S!Run(sets)
          /\ runs' \in {runs, Append(runs, [exp |-> exp, sets |-> sets])}
      BY <1>5, <2>2 DEF S!Start, S!GetExperiment
    <3>2. sets \in S!Partial(Mods) /\ sets \in S!Partial(DOMAIN Public)
      BY <1>1 DEF S!Partial
    <3>3. /\ S!Over(sets, modSets) \in S!Partial(Mods) /\ S!Over(sets, rig) \in S!Partial(Mods)
          /\ D \subseteq DOMAIN S!Over(sets, modSets) \cap DOMAIN S!Over(sets, rig)
          /\ \A m \in D : S!Over(sets, modSets)[m] = sets[m] /\ S!Over(sets, rig)[m] = sets[m]
      <4>1. S!Over(sets, modSets) \in S!Partial(Mods) /\ S!Over(sets, rig) \in S!Partial(Mods)
        BY <1>1, <3>2, OverIs
      <4>2. /\ DOMAIN S!Over(sets, modSets) = D \cup DOMAIN modSets
            /\ \A m \in D : S!Over(sets, modSets)[m] = sets[m]
        BY OverIs
      <4>3. /\ DOMAIN S!Over(sets, rig) = D \cup DOMAIN rig
            /\ \A m \in D : S!Over(sets, rig)[m] = sets[m]
        BY OverIs
      <4> QED
        BY <4>1, <4>2, <4>3
    <3>4. modSets' = S!Over(sets, modSets) /\ rig' = S!Over(sets, rig)
      BY <3>1 DEF S!Run
    <3>5. S!ActiveKnown' /\ S!RigKnown'
      BY <2>1, <3>3, <3>4 DEF S!ActiveKnown, S!RigKnown
    <3>6. /\ runs' \in Seq(Measurement)
          /\ \A i \in 1..Len(runs') : runs'[i].sets \in [DOMAIN File[runs'[i].exp] -> S!Settings]
      <4> DEFINE r == [exp |-> exp, sets |-> sets]
      <4>1. r \in Measurement /\ r.sets \in [DOMAIN File[r.exp] -> S!Settings]
        BY <1>1, <3>2 DEF Measurement
      <4> HIDE DEF r
      <4>2. /\ Append(runs, r) \in Seq(Measurement) /\ Len(Append(runs, r)) = Len(runs) + 1
            /\ \A i \in 1..Len(runs) : Append(runs, r)[i] = runs[i]
            /\ Append(runs, r)[Len(runs) + 1] = r
        BY <1>1, <4>1, AppendProperties
      <4>3. Len(runs) \in Nat
        BY <1>1, LenProperties
      <4>4. CASE runs' = runs
        BY <1>1, <4>4
      <4>5. CASE runs' = Append(runs, r)
        <5>1. \A i \in 1..(Len(runs) + 1) : i \in 1..Len(runs) \/ i = Len(runs) + 1
          BY <4>3
        <5> QED
          BY <1>1, <4>1, <4>2, <4>5, <5>1
      <4> QED
        BY <3>1, <4>4, <4>5 DEF r
    <3>7. S!TypeOK'
      <4>1. sets' \in [DOMAIN File[exp'] -> S!Settings] /\ exp' \in Exps
        BY <1>1, <2>1
      <4>2. modSets' \in S!Partial(Mods) /\ rig' \in S!Partial(Mods)
        BY <3>3, <3>4
      <4> QED
        BY <1>1, <2>1, <3>1, <3>6, <4>1, <4>2 DEF S!TypeOK
    <3> QED
      BY <1>1, <2>1, <3>5, <3>6, <3>7 DEF SettingsIInv, S!SettingsInv
  <2>3. CASE S!DataPoints(sets) = {}
    <3>1. UNCHANGED <<modSets, rig, shown, runs>>
      BY <1>5, <2>3 DEF S!Start
    <3>2. ~S!InRun'
      BY <1>1, <2>1, <3>1 DEF S!InRun
    <3>3. S!TypeOK'
      BY <1>1, <2>1, <3>1 DEF S!TypeOK
    <3> QED
      BY <1>1, <2>1, <3>1, <3>2, <3>3
         DEF SettingsIInv, S!SettingsInv, S!ActiveKnown, S!RigKnown
  <2> QED
    BY <2>1, <2>2, <2>3
<1>6. ASSUME S!Stop PROVE SettingsIInv'
  <2>1. /\ running' = FALSE /\ ready' = TRUE /\ asked' = None
        /\ shown' = (IF shown = "current" THEN "past" ELSE shown)
        /\ UNCHANGED <<exp, sets, modSets, rig, remote, checked, runs, crash>>
    BY <1>6 DEF S!Stop
  <2>2. ~S!InRun' /\ shown' \in {"none", "past"}
    BY <1>1, <2>1 DEF S!InRun
  <2>3. S!TypeOK'
    BY <1>1, <2>1, <2>2 DEF S!TypeOK
  <2> QED
    BY <1>1, <2>1, <2>2, <2>3 DEF SettingsIInv, S!SettingsInv, S!ActiveKnown, S!RigKnown
<1>7. ASSUME NEW i \in 1..Len(runs), S!LoadLastMeas(i) PROVE SettingsIInv' /\ asked' = None
  <2>1. /\ ~running /\ exp' = runs[i].exp /\ sets' = S!ApplyExperiment(runs[i].sets)
        /\ ready' = FALSE /\ remote' = FALSE /\ shown' = "past" /\ asked' = None
        /\ UNCHANGED <<modSets, rig, running, checked, runs, crash>>
    BY <1>7 DEF S!LoadLastMeas
  <2>2. runs[i] \in Measurement
    BY <1>1, ElementOfSeq
  <2> DEFINE g == runs[i].sets
  <2>3. /\ exp' \in Exps /\ DOMAIN g = DOMAIN File[exp'] /\ DOMAIN g \subseteq DOMAIN Public
        /\ g \in [DOMAIN g -> S!Settings]
    BY <1>1, <2>1, <2>2, PartialIs DEF Measurement
  <2>4. \A m \in DOMAIN g, p \in Pars : p \in DOMAIN g[m] => g[m][p] \in Values
    BY <2>3 DEF S!Settings
  <2> QED
    BY <1>1, <2>1, <2>3, <2>4, SettingsNewTree
<1>8. ASSUME S!UserSendParameter PROVE SettingsIInv'
  BY <1>8 DEF S!UserSendParameter, SettingsHyp
<1>9. ASSUME S!UserSendChangedParameter PROVE SettingsIInv'
  <2>1. /\ running /\ S!SlotSendChanged(sets) /\ asked' = None
        /\ UNCHANGED <<exp, sets, running, ready, shown, remote, checked, runs>>
    BY <1>9 DEF S!UserSendChangedParameter
  <2>2. S!SendRemote(sets)
    BY <2>1 DEF S!SendRemote
  <2>3. /\ modSets' \in S!Partial(Mods) /\ rig' \in S!Partial(Mods)
        /\ S!ActiveKnown' /\ S!RigKnown' /\ crash' \in {crash, "AttributeError"}
    BY <1>1, <2>1, <2>2, RemoteSends
  <2> QED
    BY <1>1, <2>1, <2>3, SettingsRemote
<1>10. ASSUME NEW w \in Widgets, S!Push(w) PROVE SettingsIInv' /\ S!WidgetReaches'
  <2>1. CASE w.reset # None
    BY <1>10, <2>1, PulseSent
  <2>2. CASE w.reset = None
    <3>1. w.on \in Values /\ w.mod \in D /\ crash = "none" /\ w.kind = "push"
      BY <1>10 DEF S!Push, S!Usable, S!Up, SettingsHyp, S!SettingsAssumption, S!Widget
    <3>2. /\ asked' = S!Ask(w, w.on) /\ S!SendRemote(S!With(w, w.on)) /\ sets' = S!With(w, w.on)
          /\ UNCHANGED <<exp, running, ready, shown, remote, checked, runs>>
      BY <1>10, <2>2 DEF S!Push
    <3> QED
      BY <1>1, <3>1, <3>2, ValueSent
  <2> QED
    BY <2>1, <2>2
<1>11. ASSUME NEW w \in Widgets, S!Switch(w) PROVE SettingsIInv' /\ S!WidgetReaches'
  <2>1. /\ w.on \in Values /\ w.off \in Values
    BY DEF SettingsHyp, S!SettingsAssumption, S!Widget
  <2> DEFINE v == IF w \in checked' THEN w.on ELSE w.off
  <2>2. /\ w.mod \in D /\ crash = "none" /\ w.kind = "switch"
        /\ asked' = S!Ask(w, v) /\ sets' = S!With(w, v) /\ S!SendRemote(sets')
        /\ checked' = (checked \ {w}) \cup ({w} \ checked)
        /\ UNCHANGED <<exp, running, ready, shown, remote, runs>>
    BY <1>11 DEF S!Switch, S!Usable, S!Up, S!SwitchValue
  <2>3. v \in Values
    BY <2>1
  <2> HIDE DEF v
  <2>4. S!SendRemote(S!With(w, v)) /\ checked' \subseteq Widgets
    BY <1>1, <2>2
  <2> QED
    BY <2>2, <2>3, <2>4, ValueSent
<1>12. ASSUME NEW w \in Widgets, NEW v \in Values, S!Slide(w, v)
       PROVE  SettingsIInv' /\ S!WidgetReaches'
  <2>1. /\ w.mod \in D /\ crash = "none" /\ w.kind = "slider"
        /\ asked' = S!Ask(w, v) /\ sets' = S!With(w, v) /\ S!SendRemote(sets')
        /\ UNCHANGED <<exp, running, ready, shown, remote, checked, runs>>
    BY <1>12 DEF S!Slide, S!Usable, S!Up
  <2>2. S!SendRemote(S!With(w, v))
    BY <2>1
  <2> QED
    BY <1>1, <2>1, <2>2, ValueSent
<1>2. CASE UNCHANGED S!vars
  <2>1. UNCHANGED <<exp, sets, modSets, rig, running, ready, shown, remote, checked, runs, asked, crash>>
    BY <1>2 DEF S!vars
  <2>2. SettingsIInv'
    BY <1>1, <2>1, SettingsKeep
  <2>3. S!WidgetReaches'
    BY <2>1 DEF S!WidgetReaches, S!InRun
  <2> QED
    BY <2>2, <2>3
<1> QED
  <2>1. asked' = None => S!WidgetReaches'
    BY DEF S!WidgetReaches
  <2>2. CASE S!Start \/ S!Stop \/ S!UserSendParameter \/ S!UserSendChangedParameter
    <3>1. asked' = None
      BY <2>2 DEF S!Start, S!Stop, S!UserSendParameter, S!UserSendChangedParameter
    <3> QED
      BY <1>5, <1>6, <1>8, <1>9, <2>1, <2>2, <3>1
  <2> QED
    BY <1>3, <1>4, <1>7, <1>10, <1>11, <1>12, <1>2, <2>1, <2>2 DEF S!Next

\* For any modules, experiments and widgets, as long as "Send parameter" is not used:
\* sendChangedParameterExperiment finds every module it looks up, and what the GUI
\* takes the rig to have is what was sent to it; where it is not, the rig has the
\* value of a push button and the GUI a value to which one resets.
THEOREM SettingsAgree ==
  ASSUME S!SettingsAssumption, SendAll = FALSE
  PROVE  Spec => []SettingsInv
<1> DEFINE Kept == part = "settings" => SettingsIInv /\ S!WidgetReaches
<1>1. Init => Kept
  BY SettingsInit DEF Init, SettingsHyp, S!Init, S!WidgetReaches
<1>2. Kept /\ [Next]_vars => Kept'
  BY PartSteps, SettingsStep DEF SettingsHyp
<1>3. Kept => SettingsInv
  BY DEF SettingsInv, SettingsIInv
<1> QED
  BY <1>1, <1>2, <1>3, PTL DEF Spec

\* Under the same conditions what a remote widget sends has arrived at the rig when
\* its slot returns, although only modules that differ from what the GUI remembers
\* are sent, but for one case: a button of the parameter resets to that value, and
\* the rig has the value of such a button.
THEOREM WidgetsReach ==
  ASSUME S!SettingsAssumption, SendAll = FALSE
  PROVE  Spec => []WidgetReaches
<1> DEFINE Kept == part = "settings" => SettingsIInv /\ S!WidgetReaches
<1>1. Init => Kept
  BY SettingsInit DEF Init, SettingsHyp, S!Init, S!WidgetReaches
<1>2. Kept /\ [Next]_vars => Kept'
  BY PartSteps, SettingsStep DEF SettingsHyp
<1>3. Kept => WidgetReaches
  BY DEF WidgetReaches
<1> QED
  BY <1>1, <1>2, <1>3, PTL DEF Spec

-----------------------------------------------------------------------------
(* RemoteWidgets.                                                          *)

\* the instance's own copies of the operators of FiniteSets
LEMMA WidgetsFinite ==
  /\ \A T : W!Cardinality(T) = Cardinality(T)
  /\ \A T : W!IsFiniteSet(T) = IsFiniteSet(T)
<1>1. \A T : W!Cardinality(T) = Cardinality(T)
  BY Zenon DEF W!Cardinality, Cardinality
<1>2. \A T : W!IsFiniteSet(T) = IsFiniteSet(T)
  BY Zenon DEF W!IsFiniteSet, IsFiniteSet
<1> QED
  BY <1>1, <1>2

\* as many widgets with different names as there are entries: one for each
LEMMA ConfiguredIs ==
  ASSUME NEW entries, IsFiniteSet(DOMAIN entries), NEW from \in Nat,
         NEW X \in W!Configured(entries, from)
  PROVE  /\ X \subseteq [id : (from + 1)..(from + Cardinality(DOMAIN entries)),
                         name : DOMAIN entries, val : SectionValues, gp : BOOLEAN]
         /\ \A v, w \in X : v.id = w.id \/ v.name = w.name => v = w
         /\ \A w \in X : entries[w.name].val = w.val
         /\ \A n \in DOMAIN entries : \E w \in X : w.name = n
<1> DEFINE D == DOMAIN entries
           f == [w \in X |-> w.name]
<1>1. /\ X \subseteq [id : (from + 1)..(from + Cardinality(D)), name : D, val : SectionValues, gp : BOOLEAN]
      /\ Cardinality(X) = Cardinality(D)
      /\ \A v, w \in X : v # w => v.id # w.id /\ v.name # w.name
      /\ \A w \in X : entries[w.name] = [val |-> w.val, gp |-> w.gp]
  BY WidgetsFinite DEF W!Configured
<1>2. \A w \in X : w.name \in D
  BY <1>1
<1>3. f \in Injection(X, D)
  BY <1>1, <1>2 DEF Injection, IsInjective
<1>4. f \in Surjection(X, D)
  BY <1>1, <1>3, FS_Injection
<1>5. \A n \in D : \E w \in X : f[w] = n
  BY <1>4 DEF Surjection
<1>6. ASSUME NEW w \in X PROVE entries[w.name].val = w.val
  <2>1. entries[w.name] = [val |-> w.val, gp |-> w.gp]
    BY <1>1
  <2> QED
    BY <2>1
<1> QED
  BY <1>1, <1>5, <1>6

\* the sections of the file and of the program
LEMMA SectionsAre ==
  \A f : f \in W!Sections <=> f \in [DOMAIN f -> W!Config] /\ DOMAIN f \subseteq Names
BY DEF W!Sections

\* the widgets on display have entries of their own, and between measurements
\* every entry has its widget
Listed ==
  /\ \A v, w \in list : v.name = w.name => v = w
  /\ \A w \in list : w.name \in DOMAIN section[sel] /\ section[sel][w.name].val = w.val
  /\ ~past => \A n \in DOMAIN section[sel] : \E w \in list : w.name = n

SectionIInv ==
  /\ W!TypeOK
  /\ \A e \in SectionExps : IsFiniteSet(DOMAIN section[e])
  /\ \A w \in list : w.id \in 1..built
  /\ Listed
  /\ crash # "KeyError"

LEMMA SectionIs == SectionIInv => W!SectionInv
<1> SUFFICES ASSUME SectionIInv PROVE W!SectionInv
  OBVIOUS
<1> DEFINE D == DOMAIN section[sel]
           f == [w \in list |-> w.name]
<1>1. W!Saved
  <2> SUFFICES ASSUME ~past
               PROVE  /\ {<<w.name, w.val>> : w \in list} = {<<n, section[sel][n].val>> : n \in D}
                      /\ Cardinality(list) = Cardinality(D)
    BY WidgetsFinite DEF W!Saved, W!Shown, W!RemoteSource
  <2>1. /\ \A v, w \in list : v.name = w.name => v = w
        /\ \A w \in list : w.name \in D /\ section[sel][w.name].val = w.val
        /\ \A n \in D : \E w \in list : w.name = n
    BY DEF SectionIInv, Listed
  <2>2. f \in Injection(list, D) /\ f \in Surjection(list, D)
    BY <2>1 DEF Injection, IsInjective, Surjection
  <2>3. IsFiniteSet(D)
    BY DEF SectionIInv, W!TypeOK
  <2>4. Cardinality(list) = Cardinality(D)
    BY <2>2, <2>3, FS_Injection
  <2>5. {<<w.name, w.val>> : w \in list} = {<<n, section[sel][n].val>> : n \in D}
    BY <2>1
  <2> QED
    BY <2>4, <2>5
<1> QED
  BY <1>1 DEF SectionIInv, W!SectionInv, W!MenuReturns

LEMMA SectionInit == W!RemoteAssumption /\ W!Init => SectionIInv
<1> SUFFICES ASSUME W!RemoteAssumption, W!Init PROVE SectionIInv
  OBVIOUS
<1> USE WidgetsFinite DEF W!RemoteAssumption, W!Init
<1>1. /\ sel \in SectionExps /\ section = SectionFile /\ IsFiniteSet(DOMAIN SectionFile[sel])
      /\ list \in W!Configured(SectionFile[sel], 0)
  OBVIOUS
<1>2. built \in Nat /\ built <= MaxWidgets /\ built = Cardinality(DOMAIN SectionFile[sel])
  BY <1>1, FS_CardinalityType
<1>3. /\ list \subseteq [id : 1..built, name : DOMAIN SectionFile[sel], val : SectionValues, gp : BOOLEAN]
      /\ \A v, w \in list : v.id = w.id \/ v.name = w.name => v = w
      /\ \A w \in list : SectionFile[sel][w.name].val = w.val
      /\ \A n \in DOMAIN SectionFile[sel] : \E w \in list : w.name = n
  <2> DEFINE conf == SectionFile[sel]
  <2>1. (0 + 1)..(0 + Cardinality(DOMAIN conf)) = 1..built
    BY <1>2
  <2>2. IsFiniteSet(DOMAIN conf) /\ list \in W!Configured(conf, 0) /\ 0 \in Nat
    BY <1>1
  <2> HIDE DEF conf
  <2>3. /\ list \subseteq [id : (0 + 1)..(0 + Cardinality(DOMAIN conf)),
                           name : DOMAIN conf, val : SectionValues, gp : BOOLEAN]
        /\ \A v, w \in list : v.id = w.id \/ v.name = w.name => v = w
        /\ \A w \in list : conf[w.name].val = w.val
        /\ \A n \in DOMAIN conf : \E w \in list : w.name = n
    BY <2>2, ConfiguredIs
  <2> QED
    BY <2>1, <2>3 DEF conf
<1>4. Listed
  BY <1>1, <1>3 DEF Listed
<1>6. W!TypeOK
  <2>1. list \subseteq W!Widget
    <3>1. DOMAIN SectionFile[sel] \subseteq Names
      BY <1>1, SectionsAre
    <3>2. 1..built \subseteq 1..MaxWidgets
      BY <1>2
    <3> QED
      BY <1>3, <3>1, <3>2 DEF W!Widget
  <2>2. built \in 0..MaxWidgets /\ \A v, w \in list : v.id = w.id => v = w
    BY <1>2, <1>3
  <2> QED
    BY <1>1, <2>1, <2>2 DEF W!TypeOK
<1> QED
  BY <1>1, <1>3, <1>4, <1>6 DEF SectionIInv

LEMMA SectionStep ==
  ASSUME W!RemoteAssumption, Unique = TRUE, SectionIInv, [W!Next]_(W!vars)
  PROVE  SectionIInv'
<1> DEFINE D == DOMAIN section[sel]
<1>1. /\ sel \in SectionExps /\ section \in [SectionExps -> W!Sections] /\ MaxWidgets \in Nat
      /\ list \subseteq W!Widget /\ built \in 0..MaxWidgets
      /\ past \in BOOLEAN /\ pad \in BOOLEAN
      /\ bound \subseteq 1..built /\ acted \subseteq bound /\ (~pad => bound = {})
      /\ crash \in {"none", "TypeError"}
  BY DEF SectionIInv, W!TypeOK, W!RemoteAssumption
<1>2. /\ \A v, w \in list : v.id = w.id => v = w
      /\ \A w \in list : w.id \in 1..built
      /\ \A e \in SectionExps : IsFiniteSet(DOMAIN section[e])
  BY DEF SectionIInv, W!TypeOK
<1>3. /\ \A v, w \in list : v.name = w.name => v = w
      /\ \A w \in list : w.name \in D /\ section[sel][w.name].val = w.val
      /\ ~past => \A n \in D : \E w \in list : w.name = n
  BY DEF SectionIInv, Listed
<1>4. section[sel] \in [D -> W!Config] /\ D \subseteq Names /\ IsFiniteSet(D)
  BY <1>1, <1>2, SectionsAre
\* an edit of the section of this experiment
<1>5. ASSUME NEW s \in W!Sections, section' = [section EXCEPT ![sel] = s], sel' = sel
      PROVE  section' \in [SectionExps -> W!Sections] /\ section'[sel'] = s
    BY <1>1, <1>5
<1>6. ASSUME NEW e \in SectionExps, W!Apply(e) PROVE SectionIInv'
  <2> DEFINE conf == section[e]
  <2>1. /\ sel' = e /\ past' = FALSE /\ list' \in W!Configured(conf, built)
        /\ built' = built + Cardinality(DOMAIN conf)
        /\ built + Cardinality(DOMAIN conf) <= MaxWidgets
        /\ crash' \in {"none", "TypeError"} /\ pad' = FALSE /\ bound' = {} /\ acted' = {}
        /\ section' = section
    BY <1>6, WidgetsFinite DEF W!Apply, W!Configure, W!PadStop
  <2>2. IsFiniteSet(DOMAIN conf) /\ Cardinality(DOMAIN conf) \in Nat /\ built \in Nat
    BY <1>1, <1>2, FS_CardinalityType
  <2>3. DOMAIN conf \subseteq Names
    BY <1>1, SectionsAre
  <2>4. conf = section'[sel']
    BY <2>1
  <2> HIDE DEF conf
  <2>5. /\ list' \subseteq [id : (built + 1)..(built + Cardinality(DOMAIN conf)),
                           name : DOMAIN conf, val : SectionValues, gp : BOOLEAN]
        /\ \A v, w \in list' : v.id = w.id \/ v.name = w.name => v = w
        /\ \A w \in list' : conf[w.name].val = w.val
        /\ \A n \in DOMAIN conf : \E w \in list' : w.name = n
    BY <2>1, <2>2, ConfiguredIs
  <2>6. (built + 1)..(built + Cardinality(DOMAIN conf)) \subseteq 1..built' /\ built' \in 0..MaxWidgets
    BY <2>1, <2>2, <1>1
  <2>7. Listed'
    BY <2>4, <2>5 DEF Listed
  <2>8. \A w \in list' : w.id \in 1..built'
    BY <2>5, <2>6
  <2>9. list' \subseteq W!Widget
    <3>1. 1..built' \subseteq 1..MaxWidgets
      BY <1>1, <2>6
    <3> QED
      BY <2>3, <2>5, <2>6, <3>1 DEF W!Widget
  <2>10. W!TypeOK'
    BY <1>1, <2>1, <2>5, <2>6, <2>9 DEF W!TypeOK
  <2> QED
    BY <1>2, <2>1, <2>7, <2>8, <2>10 DEF SectionIInv
<1>7. CASE W!LoadLastMeas
  <2>1. /\ past' = TRUE /\ list' = {} /\ acted' = {}
        /\ UNCHANGED <<sel, section, built, pad, bound, crash>>
    BY <1>7 DEF W!LoadLastMeas
  <2>2. W!TypeOK'
    BY <1>1, <2>1 DEF W!TypeOK
  <2>3. Listed'
    BY <2>1 DEF Listed
  <2> QED
    BY <1>1, <1>2, <2>1, <2>2, <2>3 DEF SectionIInv
<1>8. ASSUME NEW n \in Names, NEW v \in SectionValues, W!RemoteAddWidget(n, v) PROVE SectionIInv'
  <2> DEFINE c == [val |-> v, gp |-> FALSE]
             s == W!With(section[sel], n, c)
             x == [id |-> built + 1, name |-> n, val |-> v, gp |-> FALSE]
  <2>1. /\ built < MaxWidgets /\ n \notin D
        /\ section' = [section EXCEPT ![sel] = s] /\ built' = built + 1
        /\ list' = list \cup {x} /\ acted' = {}
        /\ UNCHANGED <<sel, past, pad, bound, crash>>
    BY <1>8 DEF W!RemoteAddWidget, W!Free, W!AddWidget
  <2>2. c \in W!Config /\ c.val = v
    BY DEF W!Config
  <2>3. DOMAIN s = D \cup {n} /\ s[n] = c /\ \A k \in D : s[k] = section[sel][k]
    BY <2>1 DEF W!With
  <2>4. s \in W!Sections
    <3>1. s \in [D \cup {n} -> W!Config]
      BY <1>4, <2>2 DEF W!With
    <3> QED
      BY <1>4, <2>3, <3>1, SectionsAre
  <2> HIDE DEF s, c
  <2>5. section' \in [SectionExps -> W!Sections] /\ section'[sel'] = s
    BY <2>1, <2>4, <1>5
  <2>6. x \in W!Widget /\ x.id = built + 1 /\ x.name = n /\ x.val = v
    BY <1>1, <2>1 DEF W!Widget
  <2> HIDE DEF x
  <2>7. \A w \in list : w.id # x.id /\ w.name # x.name
    BY <1>1, <1>2, <1>3, <2>1, <2>6
  <2>8. Listed'
    BY <1>3, <2>1, <2>2, <2>3, <2>5, <2>6, <2>7 DEF Listed
  <2>9. \A e \in SectionExps : IsFiniteSet(DOMAIN section'[e])
    <3>1. IsFiniteSet(DOMAIN s)
      BY <1>4, <2>3, FS_AddElement
    <3> QED
      BY <1>1, <1>2, <2>1, <3>1
  <2>10. /\ built' \in 0..MaxWidgets /\ 1..built \subseteq 1..built' /\ x.id \in 1..built'
    BY <1>1, <2>1, <2>6
  <2>11. /\ \A w \in list' : w.id \in 1..built'
         /\ \A u, w \in list' : u.id = w.id => u = w
         /\ list' \subseteq W!Widget
    BY <1>1, <1>2, <2>1, <2>6, <2>7, <2>10
  <2>12. W!TypeOK'
    BY <1>1, <2>1, <2>5, <2>10, <2>11 DEF W!TypeOK
  <2> QED
    BY <1>1, <2>1, <2>8, <2>9, <2>11, <2>12 DEF SectionIInv
<1>9. ASSUME NEW w \in list, W!RemoteRemoveWidget(w) PROVE SectionIInv'
  <2> DEFINE s == W!Without(section[sel], w.name)
  <2>1. /\ section' = [section EXCEPT ![sel] = s] /\ list' = list \ {w} /\ acted' = {}
        /\ UNCHANGED <<sel, built, past, pad, bound, crash>>
    BY <1>3, <1>9 DEF W!RemoteRemoveWidget, W!RemoveWidget
  <2>2. DOMAIN s = D \ {w.name} /\ \A k \in D \ {w.name} : s[k] = section[sel][k]
    BY DEF W!Without
  <2>3. s \in W!Sections
    <3>1. s \in [D \ {w.name} -> W!Config]
      BY <1>4 DEF W!Without
    <3> QED
      BY <1>4, <2>2, <3>1, SectionsAre
  <2> HIDE DEF s
  <2>4. section' \in [SectionExps -> W!Sections] /\ section'[sel'] = s
    BY <2>1, <2>3, <1>5
  <2>5. Listed'
    BY <1>3, <2>1, <2>2, <2>4 DEF Listed
  <2>6. \A e \in SectionExps : IsFiniteSet(DOMAIN section'[e])
    <3>1. IsFiniteSet(DOMAIN s)
      BY <1>4, <2>2, FS_RemoveElement
    <3> QED
      BY <1>1, <1>2, <2>1, <3>1
  <2>7. W!TypeOK'
    BY <1>1, <1>2, <2>1, <2>4 DEF W!TypeOK
  <2> QED
    BY <1>1, <1>2, <2>1, <2>5, <2>6, <2>7 DEF SectionIInv
<1>10. ASSUME NEW w \in list, NEW n \in Names, NEW v \in SectionValues, W!RemoteConfigWidget(w, n, v)
       PROVE  SectionIInv'
  <2> DEFINE c == [val |-> v, gp |-> FALSE]
             s == W!With(W!Without(section[sel], w.name), n, c)
             x == [w EXCEPT !.name = n, !.val = v]
  <2>1. /\ n = w.name \/ n \notin D
        /\ section' = [section EXCEPT ![sel] = s]
        /\ list' = (list \ {w}) \cup {x} /\ acted' = {}
        /\ UNCHANGED <<sel, built, past, pad, bound, crash>>
    BY <1>3, <1>10 DEF W!RemoteConfigWidget, W!Free, W!OldKey, W!EntryLess
  <2>2. c \in W!Config /\ c.val = v
    BY DEF W!Config
  <2>3. /\ DOMAIN s = (D \ {w.name}) \cup {n} /\ s[n] = c
        /\ \A k \in D \ {w.name} : k # n => s[k] = section[sel][k]
    BY DEF W!With, W!Without
  <2>4. s \in W!Sections
    <3>1. s \in [(D \ {w.name}) \cup {n} -> W!Config]
      BY <1>4, <2>2 DEF W!With, W!Without
    <3> QED
      BY <1>4, <2>3, <3>1, SectionsAre
  <2> HIDE DEF s, c
  <2>5. section' \in [SectionExps -> W!Sections] /\ section'[sel'] = s
    BY <2>1, <2>4, <1>5
  <2>6. x \in W!Widget /\ x.id = w.id /\ x.name = n /\ x.val = v
    BY <1>1 DEF W!Widget
  <2> HIDE DEF x
  <2>7. \A u \in list \ {w} : u.id # x.id /\ u.name # x.name /\ u.name \in D \ {w.name}
    BY <1>2, <1>3, <2>1, <2>6
  <2>8. Listed'
    <3>1. \A u, y \in list' : u.name = y.name => u = y
      BY <1>3, <2>1, <2>7
    <3>2. \A u \in list' : u.name \in DOMAIN s /\ s[u.name].val = u.val
      BY <1>3, <2>1, <2>2, <2>3, <2>6, <2>7
    <3>3. ~past => \A k \in DOMAIN s : \E u \in list' : u.name = k
      <4> SUFFICES ASSUME ~past, NEW k \in DOMAIN s PROVE \E u \in list' : u.name = k
        OBVIOUS
      <4>1. CASE k = n
        BY <2>1, <2>6, <4>1
      <4>2. CASE k # n
        BY <1>3, <2>1, <2>3, <4>2
      <4> QED
        BY <4>1, <4>2
    <3> QED
      BY <2>1, <2>5, <3>1, <3>2, <3>3 DEF Listed
  <2>9. \A e \in SectionExps : IsFiniteSet(DOMAIN section'[e])
    <3>0. IsFiniteSet(D \ {w.name})
      BY <1>4, FS_RemoveElement
    <3>1. IsFiniteSet(DOMAIN s)
      BY <2>3, <3>0, FS_AddElement
    <3> QED
      BY <1>1, <1>2, <2>1, <3>1
  <2>10. /\ \A u \in list' : u.id \in 1..built'
         /\ \A u, y \in list' : u.id = y.id => u = y
         /\ list' \subseteq W!Widget
    BY <1>1, <1>2, <2>1, <2>6, <2>7
  <2>11. W!TypeOK'
    BY <1>1, <2>1, <2>5, <2>10 DEF W!TypeOK
  <2> QED
    BY <1>1, <2>1, <2>8, <2>9, <2>10, <2>11 DEF SectionIInv
<1>11. CASE W!SelectGamepad
  <2>1. /\ pad' = TRUE /\ bound' \subseteq {w.id : w \in list} /\ acted' = {}
        /\ UNCHANGED <<sel, section, list, built, past, crash>>
    BY <1>11 DEF W!SelectGamepad
  <2>2. W!TypeOK'
    BY <1>1, <1>2, <2>1 DEF W!TypeOK
  <2> QED
    BY <1>1, <1>2, <1>3, <2>1, <2>2 DEF SectionIInv, Listed
<1>12. CASE W!GamepadEvent \/ UNCHANGED W!vars
  <2>1. /\ acted' \subseteq bound
        /\ UNCHANGED <<sel, section, list, built, past, pad, bound, crash>>
    BY <1>1, <1>12 DEF W!GamepadEvent, W!vars
  <2>2. W!TypeOK'
    BY <1>1, <1>2, <2>1 DEF W!TypeOK
  <2> QED
    BY <1>1, <1>2, <1>3, <2>1, <2>2 DEF SectionIInv, Listed
<1> QED
  BY <1>6, <1>7, <1>8, <1>9, <1>10, <1>11, <1>12 DEF W!Next

\* For any experiments, names and number of widgets, if the user gives no name twice:
\* however widgets are added, edited, removed and the experiment is changed, the
\* Remote section that copyRemoteSource exports has the widgets on display as they
\* are and no other, and the menu of a widget finds its entry.
THEOREM SectionIsShown ==
  ASSUME W!RemoteAssumption, Unique = TRUE
  PROVE  Spec => []SectionInv
<1> DEFINE Kept == part = "widgets" => SectionIInv
<1>1. Init => Kept
  BY SectionInit DEF Init
<1>2. Kept /\ [Next]_vars => Kept'
  BY PartSteps, SectionStep
<1>3. Kept => SectionInv
  BY SectionIs DEF SectionInv
<1> QED
  BY <1>1, <1>2, <1>3, PTL DEF Spec

-----------------------------------------------------------------------------
(* RemoteSlider: whole steps between the ends.                             *)

LEMMA DivIs ==
  ASSUME NEW a \in Int, NEW b \in Nat \ {0}
  PROVE  a \div b \in Int /\ (a \div b) * b <= a
BY SMT

LEMMA DivNat ==
  ASSUME NEW a \in Nat, NEW b \in Nat \ {0}
  PROVE  a \div b \in Nat
BY SMT

LEMMA TimesMono ==
  ASSUME NEW p \in Int, NEW q \in Int, p <= q, NEW b \in Nat
  PROVE  p * b <= q * b
BY SMT

LEMMA DivTimes ==
  ASSUME NEW p \in Int, NEW b \in Nat \ {0}
  PROVE  (p * b) \div b = p
BY SMT

\* What the fields give when updateData does not raise.
ParNames == {q[2] : q \in L!Parameters}
Places == L!ModSet \X (ParNames \cup {""})

Ends == [par : Places, min : Int, max : Int, step : Nat \ {0}, start : Int, pos : Int,
         edited : BOOLEAN]
Whole(s) == s \in Ends /\ s.min <= s.max /\ s.pos \in 0..L!Steps(s)

Fields == {r \in Ranges \cup (Int \X Int \X Int) :
             /\ \A i \in 1..3 : r[i] = Empty \/ r[i] \in Int
             /\ r[1] # Empty /\ r[2] # Empty => r[1] <= r[2]
             /\ r[3] # Empty => r[3] >= 0}

LEMMA StepsNat ==
  ASSUME NEW c, c.min \in Int, c.max \in Int, c.step \in Nat \ {0}, c.min <= c.max
  PROVE  L!Steps(c) \in Nat
<1>1. c.max - c.min \in Nat
  OBVIOUS
<1> QED
  BY <1>1, DivNat DEF L!Steps

\* DoubleSlider.setValue ends on one of the positions.
LEMMA PositionIs ==
  ASSUME NEW c, c.min \in Int, c.max \in Int, c.step \in Nat \ {0}, c.min <= c.max,
         NEW v \in Int
  PROVE  L!Position(c, v) \in 0..L!Steps(c)
<1>1. L!Steps(c) \in Nat
  BY StepsNat
<1>2. CASE v < c.min
  BY <1>1, <1>2 DEF L!Position
<1>3. CASE ~(v < c.min)
  <2>1. (v - c.min) \div c.step \in Nat
    <3>1. v - c.min \in Nat
      BY <1>3
    <3> QED
      BY <3>1, DivNat
  <2> QED
    BY <1>1, <1>3, <2>1 DEF L!Position
<1> QED
  BY <1>2, <1>3

\* The value at a position is between the ends, and setValue finds the position.
LEMMA ValueIs ==
  ASSUME NEW s, Whole(s)
  PROVE  /\ L!Value(s) \in s.min..s.max
         /\ L!Position(s, L!Value(s)) = s.pos
<1>1. /\ s.min \in Int /\ s.max \in Int /\ s.step \in Nat \ {0} /\ s.min <= s.max
      /\ s.pos \in 0..L!Steps(s)
  BY DEF Whole, Ends
<1>2. L!Steps(s) \in Nat
  BY <1>1, StepsNat
<1>3. /\ s.pos \in Nat /\ s.pos <= L!Steps(s)
  BY <1>1, <1>2
<1>4. L!Steps(s) * s.step <= s.max - s.min
  <2>1. \A a \in Int : (a \div s.step) * s.step <= a
    BY <1>1, DivIs
  <2>2. s.max - s.min \in Int
    BY <1>1
  <2> QED
    BY <2>1, <2>2 DEF L!Steps
<1>5. s.pos * s.step <= L!Steps(s) * s.step
  BY <1>1, <1>2, <1>3, TimesMono
<1>6. s.pos * s.step \in Nat
  BY <1>1, <1>3
<1>7. L!Steps(s) * s.step \in Int
  BY <1>1, <1>2
<1>8. L!Value(s) \in s.min..s.max /\ L!Value(s) - s.min = s.pos * s.step
  <2> DEFINE d == s.pos * s.step
             e == L!Steps(s) * s.step
  <2>1. d \in Nat /\ e \in Int /\ d <= e /\ e <= s.max - s.min
    BY <1>4, <1>5, <1>6, <1>7
  <2>2. L!Value(s) = d + s.min
    BY DEF L!Value
  <2> HIDE DEF d, e
  <2>3. L!Value(s) \in s.min..s.max /\ L!Value(s) - s.min = d
    BY <1>1, <2>1, <2>2
  <2> QED
    BY <2>3 DEF d
<1>9. (L!Value(s) - s.min) \div s.step = s.pos
  BY <1>1, <1>3, <1>8, DivTimes
<1>10. ~(L!Value(s) < s.min)
  BY <1>1, <1>8
<1>11. L!Position(s, L!Value(s)) = s.pos
  BY <1>1, <1>2, <1>3, <1>9, <1>10 DEF L!Position
<1> QED
  BY <1>8, <1>11

\* A slider built from what the fields give is whole.
LEMMA SliderIs ==
  ASSUME NEW c, c.par \in Places, c.min \in Int, c.max \in Int,
         c.step \in Nat \ {0}, c.min <= c.max, NEW v \in Int
  PROVE  /\ Whole(L!Slider(c, v)) /\ L!Slider(c, v).par = c.par
         /\ L!Slider(c, v).pos = L!Position(L!Slider(c, v), v)
<1> DEFINE s == L!Slider(c, v)
<1>1. L!Position(c, v) \in 0..L!Steps(c) /\ L!Steps(c) \in Nat
  BY PositionIs, StepsNat
<1>2. /\ s = [par |-> c.par, min |-> c.min, max |-> c.max, step |-> c.step,
              start |-> v, pos |-> L!Position(c, v), edited |-> FALSE]
      /\ L!Position(c, v) \in Int
  BY <1>1 DEF L!Slider
<1> HIDE DEF s
<1>3. s \in Ends /\ s.min <= s.max /\ s.par = c.par
  BY <1>2 DEF Ends
<1>4. L!Steps(s) = L!Steps(c)
  BY <1>2 DEF L!Steps
<1>5. L!Position(s, v) = L!Position(c, v)
  BY <1>2, <1>4 DEF L!Position
<1> QED
  BY <1>1, <1>2, <1>3, <1>4, <1>5 DEF Whole, s

\* A slider that is moved is the same one at another position.
LEMMA MovedIs ==
  ASSUME NEW s, Whole(s), NEW p \in 0..L!Steps(s)
  PROVE  LET t == [s EXCEPT !.pos = p] IN
         /\ Whole(t) /\ t.par = s.par /\ t.pos = p /\ t.edited = s.edited
         /\ \A v : L!Position(t, v) = L!Position(s, v)
<1> DEFINE t == [s EXCEPT !.pos = p]
<1>1. s \in Ends /\ s.min <= s.max /\ L!Steps(s) \in Nat
  BY StepsNat DEF Whole, Ends
<1>2. /\ t \in Ends /\ t.min = s.min /\ t.max = s.max /\ t.step = s.step /\ t.par = s.par
      /\ t.pos = p /\ t.edited = s.edited
  BY <1>1 DEF Ends
<1> HIDE DEF t
<1>3. L!Steps(t) = L!Steps(s)
  BY <1>2 DEF L!Steps
<1>4. \A v : L!Position(t, v) = L!Position(s, v)
  BY <1>2, <1>3 DEF L!Position
<1>5. Whole(t)
  BY <1>1, <1>2, <1>3 DEF Whole
<1> QED
  BY <1>2, <1>4, <1>5 DEF t

\* An edited slider is whole as well.
LEMMA EditedIs ==
  ASSUME NEW s, Whole(s)
  PROVE  LET t == [s EXCEPT !.edited = TRUE] IN Whole(t) /\ t.par = s.par /\ t.edited
<1> DEFINE t == [s EXCEPT !.edited = TRUE]
<1>1. s \in Ends /\ s.min <= s.max /\ s.pos \in 0..L!Steps(s)
  BY DEF Whole
<1>2. /\ t \in Ends /\ t.min = s.min /\ t.max = s.max /\ t.step = s.step /\ t.par = s.par
      /\ t.pos = s.pos /\ t.edited = TRUE
  BY <1>1 DEF Ends
<1> HIDE DEF t
<1>3. L!Steps(t) = L!Steps(s)
  BY <1>2 DEF L!Steps
<1> QED
  BY <1>1, <1>2, <1>3 DEF Whole, t

\* The fields of which the dialog makes a slider.
LEMMA FieldsAre ==
  ASSUME NEW r \in Fields, L!Fails(r) = "none"
  PROVE  r[1] \in Int /\ r[2] \in Int /\ r[3] \in Nat \ {0} /\ r[1] <= r[2]
<1>1. \A i \in 1..3 : r[i] # Empty /\ r[i] \in Int
  BY DEF Fields, L!Fails
<1>2. r[3] # 0
  BY DEF L!Fails
<1>3. /\ r[1] \in Int /\ r[2] \in Int /\ r[3] \in Int
      /\ r[1] # Empty /\ r[2] # Empty /\ r[3] # Empty
  BY <1>1
<1> QED
  BY <1>2, <1>3 DEF Fields

LEMMA ParametersAre ==
  ASSUME L!RemoteSliderAssumption
  PROVE  /\ ModList[1] \in L!ModSet
         /\ \A q \in L!Parameters : q[1] \in L!ModSet /\ q[2] \in ParNames /\ q = <<q[1], q[2]>>
         /\ \A m \in L!ModSet : \A i \in DOMAIN ParLists[m] : <<m, ParLists[m][i]>> \in L!Parameters
         /\ \A m \in L!ModSet : /\ L!FirstOf(ParLists[m]) \in ParNames \cup {""}
                                /\ ParLists[m] # <<>> => <<m, L!FirstOf(ParLists[m])>> \in L!Parameters
<1>1. ModList \in Seq(L!ModSet) /\ ModList # <<>> /\ \A m \in L!ModSet : ParLists[m] \in Seq(ParNames)
  BY DEF L!RemoteSliderAssumption, ParNames
<1>2. ModList[1] \in L!ModSet
  BY <1>1
<1>3. /\ \A q \in L!Parameters : q[1] \in L!ModSet /\ q[2] \in ParNames /\ q = <<q[1], q[2]>>
      /\ \A m \in L!ModSet : \A i \in DOMAIN ParLists[m] : <<m, ParLists[m][i]>> \in L!Parameters
  BY DEF L!Parameters, ParNames
<1>4. \A m \in L!ModSet : /\ L!FirstOf(ParLists[m]) \in ParNames \cup {""}
                          /\ ParLists[m] # <<>> => <<m, L!FirstOf(ParLists[m])>> \in L!Parameters
  <2> SUFFICES ASSUME NEW m \in L!ModSet
               PROVE  /\ L!FirstOf(ParLists[m]) \in ParNames \cup {""}
                      /\ ParLists[m] # <<>> => <<m, L!FirstOf(ParLists[m])>> \in L!Parameters
    OBVIOUS
  <2>1. CASE ParLists[m] = <<>>
    BY <2>1 DEF L!FirstOf
  <2>2. CASE ParLists[m] # <<>>
    <3>1. 1 \in DOMAIN ParLists[m] /\ ParLists[m][1] \in ParNames
      BY <1>1, <2>2
    <3> QED
      BY <1>3, <2>2, <3>1 DEF L!FirstOf
  <2> QED
    BY <2>1, <2>2
<1> QED
  BY <1>2, <1>3, <1>4

LEMMA PlacesAre ==
  ASSUME L!RemoteSliderAssumption
  PROVE  /\ \A q \in L!Parameters : q \in Places
         /\ L!NoSlider.par \in Places
         /\ \A q \in Places : /\ q[1] \in L!ModSet /\ q[2] \in ParNames \cup {""}
                              /\ q = <<q[1], q[2]>>
         /\ \A m \in L!ModSet, p \in ParNames \cup {""} : <<m, p>> \in Places
<1>1. \A m \in L!ModSet, p \in ParNames \cup {""} : <<m, p>> \in Places
  BY DEF Places
<1>2. \A q \in Places : /\ q[1] \in L!ModSet /\ q[2] \in ParNames \cup {""}
                        /\ q = <<q[1], q[2]>>
  <2> DEFINE A == L!ModSet
             B == ParNames \cup {""}
  <2>1. Places = A \X B
    BY DEF Places
  <2> HIDE DEF A, B
  <2>2. \A q \in A \X B : q[1] \in A /\ q[2] \in B /\ q = <<q[1], q[2]>>
    OBVIOUS
  <2>3. \A q \in Places : q[1] \in A /\ q[2] \in B /\ q = <<q[1], q[2]>>
    BY <2>1, <2>2
  <2> QED
    BY <2>3 DEF A, B
<1>3. L!NoSlider.par \in Places
  BY <1>1, ParametersAre DEF L!NoSlider
<1>4. ASSUME NEW q \in L!Parameters PROVE q \in Places
  <2> DEFINE a == q[1]
             b == q[2]
  <2>1. a \in L!ModSet /\ b \in ParNames /\ q = <<a, b>>
    BY ParametersAre
  <2> HIDE DEF a, b
  <2> QED
    BY <1>1, <2>1
<1> QED
  BY <1>1, <1>2, <1>3, <1>4

LEMMA NoSliderIs ==
  ASSUME L!RemoteSliderAssumption
  PROVE  Whole(L!NoSlider) /\ L!NoSlider.edited = FALSE
<1> DEFINE a == <<ModList[1], "">>
<1>1. /\ L!NoSlider = [par |-> a, min |-> 0, max |-> 0, step |-> 1, start |-> 0,
                        pos |-> 0, edited |-> FALSE]
      /\ L!NoSlider.par = a
  BY DEF L!NoSlider
<1>2. a \in Places
  BY <1>1, PlacesAre
<1> HIDE DEF a
<1>3. /\ L!NoSlider \in Ends /\ L!NoSlider.min = 0 /\ L!NoSlider.max = 0
      /\ L!NoSlider.step = 1 /\ L!NoSlider.pos = 0 /\ L!NoSlider.edited = FALSE
  BY <1>1, <1>2 DEF Ends
<1>4. L!Steps(L!NoSlider) \in Nat
  BY <1>3, StepsNat
<1> QED
  BY <1>3, <1>4 DEF Whole

\* The inductive invariant: between its ends the slider is at a position, and the
\* open dialog has fields and a parameter that the module on display has.
DialogWell ==
  /\ dlg \in [edit : BOOLEAN, type : {"closed", "PushButton", "Switch", "Slider"},
              mod : L!ModSet, pars : {ParLists[m] : m \in L!ModSet} \cup {<<>>},
              par : ParNames \cup {""}, range : Fields]
  /\ dlg # L!Closed => /\ dlg.pars = ParLists[dlg.mod]
                       /\ dlg.pars # <<>> => <<dlg.mod, dlg.par>> \in L!Parameters
  /\ dlg.edit => slider # L!NoSlider

SliderWell ==
  /\ pars \in [L!Parameters -> Int] /\ Whole(slider)
  /\ L!SliderHasParameter /\ L!SliderShows
  /\ crash \in {"none", "KeyError", "ValueError", "ZeroDivisionError"}

SliderIInv == DialogWell /\ SliderWell

LEMMA ClosedIs ==
  ASSUME L!RemoteSliderAssumption
  PROVE  /\ L!Closed \in [edit : BOOLEAN, type : {"closed", "PushButton", "Switch", "Slider"},
                          mod : L!ModSet, pars : {ParLists[m] : m \in L!ModSet} \cup {<<>>},
                          par : ParNames \cup {""}, range : Fields]
         /\ L!Closed.edit = FALSE /\ <<0, 1, 1>> \in Fields
         /\ L!Closed.range = <<0, 1, 1>>
<1>1. ModList[1] \in L!ModSet
  BY ParametersAre
<1>2. <<0, 1, 1>> \in Fields
  <2>1. \A i \in 1..3 : <<0, 1, 1>>[i] \in Int
    OBVIOUS
  <2> QED
    BY <2>1 DEF Fields
<1> QED
  BY <1>1, <1>2 DEF L!Closed

LEMMA SliderInit ==
  ASSUME L!RemoteSliderAssumption
  PROVE  L!Init => SliderIInv
<1> SUFFICES ASSUME L!Init PROVE SliderIInv
  OBVIOUS
<1>1. DialogWell
  BY ClosedIs DEF L!Init, DialogWell
<1>2. Whole(slider)
  <2>1. slider = L!NoSlider
    BY DEF L!Init
  <2> QED
    BY Zenon, <2>1, NoSliderIs
<1>3. pars \in [L!Parameters -> Int]
  BY DEF L!Init, L!RemoteSliderAssumption
<1> QED
  BY <1>1, <1>2, <1>3 DEF L!Init, SliderIInv, SliderWell, L!SliderHasParameter, L!SliderShows

\* The slots that only change the dialog.
LEMMA DialogOpens ==
  ASSUME L!RemoteSliderAssumption, SliderIInv, L!OpenAdd \/ L!OpenEdit \/ L!Cancel
  PROVE  DialogWell'
<1>1. CASE L!OpenAdd
  <2> DEFINE m == ModList[1]
  <2>1. /\ dlg' = [L!Closed EXCEPT !.type = "PushButton", !.pars = ParLists[m], !.par = L!FirstOf(ParLists[m])]
        /\ m \in L!ModSet /\ L!Closed.mod = m
    BY <1>1, ParametersAre DEF L!OpenAdd, L!Closed
  <2>2. /\ L!FirstOf(ParLists[m]) \in ParNames \cup {""}
        /\ ParLists[m] # <<>> => <<m, L!FirstOf(ParLists[m])>> \in L!Parameters
    BY <2>1, ParametersAre
  <2> HIDE DEF m
  <2> QED
    BY <2>1, <2>2, ClosedIs DEF DialogWell
<1>2. CASE L!OpenEdit
  <2> DEFINE r == <<slider.min, slider.max, slider.step>>
  <2>1. /\ slider # L!NoSlider /\ slider' = slider
        /\ slider.par \notin L!Parameters => ParLists[slider.par[1]] = <<>>
        /\ dlg' = [edit |-> TRUE, type |-> "Slider", mod |-> slider.par[1],
                   pars |-> ParLists[slider.par[1]], par |-> slider.par[2], range |-> r]
    BY <1>2 DEF L!OpenEdit, SliderIInv, SliderWell, L!SliderHasParameter
  <2>2. r \in Fields
    <3>1. slider.min \in Int /\ slider.max \in Int /\ slider.step \in Nat /\ slider.min <= slider.max
      BY DEF SliderIInv, SliderWell, Whole, Ends
    <3>2. \A i \in 1..3 : r[i] \in Int
      BY <3>1
    <3> QED
      BY <3>1, <3>2 DEF Fields
  <2> HIDE DEF r
  <2>3. /\ slider.par[1] \in L!ModSet /\ slider.par[2] \in ParNames \cup {""}
        /\ slider.par = <<slider.par[1], slider.par[2]>>
    <3>1. slider.par \in Places
      BY DEF SliderIInv, SliderWell, Whole, Ends
    <3> QED
      BY <3>1, PlacesAre
  <2> QED
    BY <2>1, <2>2, <2>3 DEF DialogWell
<1>3. CASE L!Cancel
  BY <1>3, ClosedIs DEF L!Cancel, DialogWell
<1> QED
  BY <1>1, <1>2, <1>3

LEMMA DialogFilled ==
  ASSUME L!RemoteSliderAssumption, SliderIInv,
         \/ \E t \in {"PushButton", "Switch", "Slider"} : L!TypeListChanged(t)
         \/ \E m \in L!ModSet : L!ModuleChanged(m)
         \/ \E p \in ParNames : L!Choose(p)
         \/ \E r \in Ranges : L!Type(r)
  PROVE  DialogWell'
<1>0. DialogWell
  BY DEF SliderIInv
<1>1. ASSUME NEW t \in {"PushButton", "Switch", "Slider"}, L!TypeListChanged(t) PROVE DialogWell'
  <2>1. slider' = slider /\ dlg # L!Closed /\ dlg' = [dlg EXCEPT !.type = t, !.range = <<0, 1, 1>>]
    BY <1>1, ClosedIs DEF L!TypeListChanged
  <2> QED
    BY <1>0, <2>1, ClosedIs DEF DialogWell
<1>2. ASSUME NEW m \in L!ModSet, L!ModuleChanged(m) PROVE DialogWell'
  <2>1. /\ slider' = slider /\ dlg # L!Closed
        /\ dlg' = [dlg EXCEPT !.mod = m, !.pars = ParLists[m], !.par = L!FirstOf(ParLists[m])]
    BY <1>2 DEF L!ModuleChanged, L!Filled
  <2>2. /\ L!FirstOf(ParLists[m]) \in ParNames \cup {""}
        /\ ParLists[m] # <<>> => <<m, L!FirstOf(ParLists[m])>> \in L!Parameters
    BY ParametersAre
  <2> QED
    BY <1>0, <2>1, <2>2 DEF DialogWell
<1>3. ASSUME NEW p \in ParNames, L!Choose(p) PROVE DialogWell'
  <2>1. slider' = slider /\ dlg # L!Closed /\ dlg' = [dlg EXCEPT !.par = p]
    BY <1>3 DEF L!Choose
  <2>2. PICK i \in DOMAIN dlg.pars : dlg.pars[i] = p
    BY <1>3 DEF L!Choose
  <2>3. dlg.mod \in L!ModSet /\ dlg.pars = ParLists[dlg.mod]
    BY <1>0, <2>1 DEF DialogWell
  <2>4. <<dlg.mod, p>> \in L!Parameters
    BY <2>2, <2>3, ParametersAre
  <2> QED
    BY <1>0, <2>1, <2>4 DEF DialogWell
<1>4. ASSUME NEW r \in Ranges, L!Type(r) PROVE DialogWell'
  <2>1. slider' = slider /\ dlg.type = "Slider" /\ dlg' = [dlg EXCEPT !.range = r]
    BY <1>4 DEF L!Type
  <2>2. dlg # L!Closed
    <3>1. L!Closed.type = "closed"
      BY DEF L!Closed
    <3> QED
      BY <2>1, <3>1
  <2>3. r \in Fields
    BY DEF L!RemoteSliderAssumption, Fields
  <2> QED
    BY <1>0, <2>1, <2>2, <2>3 DEF DialogWell
<1> QED
  BY <1>1, <1>2, <1>3, <1>4

\* OK builds a slider from the fields.
LEMMA SliderBuilt ==
  ASSUME L!RemoteSliderAssumption, SliderIInv, L!AcceptAdd \/ L!AcceptEdit
  PROVE  SliderIInv'
<1> DEFINE c == L!GetData
<1>0. /\ dlg.range \in Fields /\ dlg.mod \in L!ModSet /\ pars \in [L!Parameters -> Int]
      /\ slider.start \in Int /\ slider.pos \in Int
      /\ <<dlg.mod, dlg.par>> \in Places
  <2>1. dlg.mod \in L!ModSet /\ dlg.par \in ParNames \cup {""}
    BY DEF SliderIInv, DialogWell
  <2>2. <<dlg.mod, dlg.par>> \in Places
    BY <2>1, PlacesAre
  <2> QED
    BY <2>1, <2>2 DEF SliderIInv, DialogWell, SliderWell, Whole, Ends
<1>1. /\ c.par = <<dlg.mod, dlg.par>> /\ c.min = dlg.range[1]
      /\ c.max = dlg.range[2] /\ c.step = dlg.range[3]
  BY DEF L!GetData
<1> HIDE DEF c
<1>2. L!Fails(dlg.range) \in {"none", "ValueError", "ZeroDivisionError"}
  BY DEF L!Fails
<1>3. dlg' = L!Closed
  BY DEF L!AcceptAdd, L!AcceptEdit
<1>4. DialogWell'
  BY <1>3, ClosedIs DEF DialogWell
<1>5. L!Fails(dlg.range) = "none" =>
        c.min \in Int /\ c.max \in Int /\ c.step \in Nat \ {0} /\ c.min <= c.max
  BY <1>0, <1>1, FieldsAre
<1>6. ASSUME UNCHANGED <<pars, slider>>, crash' \in {"none", "KeyError", "ValueError", "ZeroDivisionError"}
      PROVE  SliderIInv'
  <2>1. SliderWell
    BY DEF SliderIInv
  <2>2. Whole(slider)' /\ L!SliderHasParameter' /\ L!SliderShows'
    BY <1>6, <2>1 DEF SliderWell, Whole, L!SliderHasParameter, L!SliderShows
  <2> QED
    BY <1>4, <1>6, <2>1, <2>2 DEF SliderIInv, SliderWell
<1>7. CASE L!AcceptAdd
  <2>1. CASE slider' = slider
    BY <1>2, <1>6, <1>7, <2>1 DEF L!AcceptAdd, L!Built, SliderIInv, SliderWell
  <2>2. CASE slider' # slider
    <3>1. /\ slider' = L!Slider(c, pars[c.par]) /\ pars' = pars /\ crash' = crash
          /\ c.par \in L!Parameters /\ L!Fails(dlg.range) = "none"
      BY <1>7, <2>2 DEF L!AcceptAdd, L!Built, c
    <3>2. pars[c.par] \in Int
      BY <1>0, <3>1
    <3>3. Whole(slider') /\ slider'.par = c.par /\ slider'.pos = L!Position(slider', pars[c.par])
      BY <1>0, <1>1, <1>5, <3>1, <3>2, SliderIs
    <3>4. L!SliderHasParameter' /\ L!SliderShows'
      BY <3>1, <3>3 DEF L!SliderHasParameter, L!SliderShows, L!Parameters, L!ModSet, L!Position, L!Steps
    <3>5. SliderWell'
      BY <1>0, <3>1, <3>3, <3>4 DEF SliderIInv, SliderWell, Whole
    <3> QED
      BY <1>4, <3>5 DEF SliderIInv
  <2> QED
    BY <2>1, <2>2
<1>8. CASE L!AcceptEdit
  <2>0. c.par \notin L!Parameters => ParLists[c.par[1]] = <<>>
    <3>1. dlg.edit /\ dlg # L!Closed
      BY <1>8, ClosedIs DEF L!AcceptEdit
    <3>2. /\ dlg.pars = ParLists[dlg.mod]
          /\ dlg.pars # <<>> => <<dlg.mod, dlg.par>> \in L!Parameters
      BY <3>1 DEF SliderIInv, DialogWell
    <3>3. c.par[1] = dlg.mod
      BY <1>1
    <3> QED
      BY <1>1, <3>2, <3>3
  <2>1. CASE L!Fails(dlg.range) # "none"
    BY <1>2, <1>6, <1>8, <2>1 DEF L!AcceptEdit
  <2>2. CASE L!Fails(dlg.range) = "none"
    <3> DEFINE s == [L!Slider(c, slider.start) EXCEPT !.edited = TRUE]
    <3>1. /\ slider' = s /\ crash' = crash
          /\ pars' = IF s.pos # slider.pos THEN L!Written(s.par, L!Value(s)) ELSE pars
      BY <1>8, <2>2 DEF L!AcceptEdit, c
    <3>2. Whole(s) /\ s.par = c.par /\ s.edited
      <4>1. Whole(L!Slider(c, slider.start)) /\ L!Slider(c, slider.start).par = c.par
        BY <1>0, <1>1, <1>5, <2>2, SliderIs
      <4> QED
        BY <4>1, EditedIs
    <3> HIDE DEF s
    <3>3. L!Value(s) \in Int
      <4>1. s.min \in Int /\ s.max \in Int /\ L!Value(s) \in s.min..s.max
        BY <3>2, ValueIs DEF Whole, Ends
      <4> QED
        BY <4>1
    <3>4. pars' \in [L!Parameters -> Int]
      BY <1>0, <3>1, <3>3 DEF L!Written
    <3> QED
      BY <1>4, <2>0, <3>1, <3>2, <3>4
      DEF SliderIInv, SliderWell, L!SliderHasParameter, L!SliderShows
  <2> QED
    BY <2>1, <2>2
<1> QED
  BY <1>7, <1>8

\* A slider that is moved writes the value at which it stands; one that follows
\* another widget stands where that widget has written.
LEMMA SliderMoved ==
  ASSUME L!RemoteSliderAssumption, SliderIInv,
         (\E p \in 0..L!Steps(slider) : L!Move(p)) \/ (\E b \in Buttons : L!Press(b))
  PROVE  SliderWell'
<1>0. /\ pars \in [L!Parameters -> Int] /\ Whole(slider) /\ L!SliderHasParameter
      /\ L!SliderShows
      /\ crash \in {"none", "KeyError", "ValueError", "ZeroDivisionError"}
      /\ Whole(slider) => slider.min \in Int /\ slider.max \in Int /\ slider.step \in Nat \ {0}
                          /\ slider.min <= slider.max
  BY DEF SliderIInv, SliderWell, Whole, Ends
<1>1. ASSUME NEW p \in 0..L!Steps(slider), L!Move(p) PROVE SliderWell'
  <2> DEFINE t == [slider EXCEPT !.pos = p]
  <2>1. /\ slider # L!NoSlider /\ slider' = t /\ crash' = crash
        /\ pars' = L!Written(slider.par, L!Value(t))
    BY <1>0, <1>1 DEF L!Move, L!Written, L!Value
  <2>2. Whole(t) /\ t.par = slider.par /\ t.pos = p /\ t.edited = slider.edited
    BY <1>0, MovedIs
  <2> HIDE DEF t
  <2>3. L!Position(t, L!Value(t)) = t.pos
    BY <2>2, ValueIs
  <2>4. L!Value(t) \in Int
    <3>1. t.min \in Int /\ t.max \in Int /\ L!Value(t) \in t.min..t.max
      BY <2>2, ValueIs DEF Whole, Ends
    <3> QED
      BY <3>1
  <2>5. /\ pars' \in [L!Parameters -> Int]
        /\ slider.par \in L!Parameters => pars'[slider.par] = L!Value(t)
    BY <1>0, <2>1, <2>4 DEF L!Written
  <2> QED
    BY <1>0, <2>1, <2>2, <2>3, <2>5 DEF SliderWell, L!SliderHasParameter, L!SliderShows
<1>2. ASSUME NEW b \in Buttons, L!Press(b) PROVE SliderWell'
  <2>0. b.par \in L!Parameters /\ b.on \in Int
    BY DEF L!RemoteSliderAssumption
  <2>1. /\ pars' = [pars EXCEPT ![b.par] = b.on] /\ crash' = crash
        /\ pars' \in [L!Parameters -> Int] /\ slider' = L!Synced(b)
    BY <1>0, <1>2, <2>0 DEF L!Press, L!Written
  <2>2. CASE slider # L!NoSlider /\ slider.par = b.par
    <3> DEFINE q == L!Position(slider, b.on)
               t == [slider EXCEPT !.pos = q]
    <3>1. q \in 0..L!Steps(slider)
      BY <1>0, <2>0, PositionIs
    <3>2. Whole(t) /\ t.par = slider.par /\ t.pos = q /\ L!Position(t, b.on) = q
      BY <1>0, <3>1, MovedIs
    <3>3. slider' = t
      BY <2>1, <2>2 DEF L!Synced
    <3> HIDE DEF t, q
    <3>4. pars'[slider'.par] = b.on
      BY <1>0, <2>0, <2>1, <2>2, <3>2, <3>3
    <3> QED
      BY <1>0, <2>0, <2>1, <2>2, <3>2, <3>3, <3>4
      DEF SliderWell, L!SliderHasParameter, L!SliderShows, Whole
  <2>3. CASE ~(slider # L!NoSlider /\ slider.par = b.par)
    <3>1. slider' = slider
      BY <2>1, <2>3 DEF L!Synced
    <3>2. slider # L!NoSlider /\ ~slider.edited => pars'[slider.par] = pars[slider.par]
      BY <1>0, <2>0, <2>1, <2>3 DEF L!SliderHasParameter
    <3> QED
      BY <1>0, <2>1, <3>1, <3>2 DEF SliderWell, L!SliderHasParameter, L!SliderShows, Whole
  <2> QED
    BY <2>2, <2>3
<1> QED
  BY <1>1, <1>2

LEMMA SliderApplied ==
  ASSUME L!RemoteSliderAssumption, SliderIInv, L!RemoteRemoveWidget \/ L!Apply
  PROVE  SliderWell'
<1>0. /\ pars \in [L!Parameters -> Int] /\ Whole(slider) /\ L!SliderHasParameter
      /\ crash \in {"none", "KeyError", "ValueError", "ZeroDivisionError"}
      /\ slider.min \in Int /\ slider.max \in Int /\ slider.step \in Nat \ {0}
      /\ slider.min <= slider.max
  BY DEF SliderIInv, SliderWell, Whole, Ends
<1>1. CASE L!RemoteRemoveWidget
  <2>1. slider' = L!NoSlider /\ pars' = pars /\ crash' = crash
    BY <1>1 DEF L!RemoteRemoveWidget
  <2>2. Whole(slider')
    BY Zenon, <2>1, NoSliderIs
  <2> QED
    BY <1>0, <2>1, <2>2 DEF SliderWell, L!SliderHasParameter, L!SliderShows, Whole
<1>2. CASE L!Apply /\ slider = L!NoSlider
  BY <1>0, <1>2 DEF L!Apply, SliderWell, L!SliderHasParameter, L!SliderShows, Whole,
                    L!RemoteSliderAssumption
<1>3. CASE L!Apply /\ slider # L!NoSlider /\ slider.par \notin L!Parameters
  BY <1>0, <1>3 DEF L!Apply, SliderWell, L!SliderHasParameter, L!SliderShows, Whole,
                    L!RemoteSliderAssumption
<1>4. CASE L!Apply /\ slider # L!NoSlider /\ slider.par \in L!Parameters
  <2>1. /\ slider.par \in L!Parameters /\ pars' = SliderFile /\ crash' = crash
        /\ slider' = L!Slider(slider, SliderFile[slider.par])
    BY <1>4 DEF L!Apply
  <2>2. SliderFile \in [L!Parameters -> Int] /\ SliderFile[slider.par] \in Int
    BY <2>1 DEF L!RemoteSliderAssumption
  <2>3. /\ Whole(slider') /\ slider'.par = slider.par
        /\ slider'.pos = L!Position(slider', SliderFile[slider.par])
    BY <1>0, <2>1, <2>2, PlacesAre, SliderIs
  <2> QED
    BY <1>0, <2>1, <2>2, <2>3 DEF SliderWell, L!SliderHasParameter, L!SliderShows, Whole
<1> QED
  BY <1>1, <1>2, <1>3, <1>4

LEMMA SliderStep ==
  ASSUME L!RemoteSliderAssumption, SliderIInv, [L!Next]_L!vars
  PROVE  SliderIInv'
<1>1. ASSUME UNCHANGED <<pars, slider, crash>>, DialogWell' PROVE SliderIInv'
  BY <1>1 DEF SliderIInv, SliderWell, Whole, L!SliderHasParameter, L!SliderShows
<1>2. ASSUME dlg = L!Closed, UNCHANGED dlg, SliderWell' PROVE SliderIInv'
  BY <1>2, ClosedIs DEF SliderIInv, DialogWell
<1>3. CASE L!OpenAdd \/ L!OpenEdit \/ L!Cancel
  BY <1>1, <1>3, DialogOpens DEF L!OpenAdd, L!OpenEdit, L!Cancel
<1>4. CASE \/ \E t \in {"PushButton", "Switch", "Slider"} : L!TypeListChanged(t)
           \/ \E m \in L!ModSet : L!ModuleChanged(m)
           \/ \E p \in ParNames : L!Choose(p)
           \/ \E r \in Ranges : L!Type(r)
  BY <1>1, <1>4, DialogFilled DEF L!TypeListChanged, L!ModuleChanged, L!Choose, L!Type
<1>5. CASE L!AcceptAdd \/ L!AcceptEdit
  BY <1>5, SliderBuilt
<1>6. CASE (\E p \in 0..L!Steps(slider) : L!Move(p)) \/ (\E b \in Buttons : L!Press(b))
  BY <1>2, <1>6, SliderMoved DEF L!Move, L!Press
<1>7. CASE L!RemoteRemoveWidget \/ L!Apply
  BY <1>2, <1>7, SliderApplied DEF L!RemoteRemoveWidget, L!Apply
<1>8. CASE UNCHANGED L!vars
  <2>1. UNCHANGED <<pars, slider, crash, dlg>>
    BY <1>8 DEF L!vars
  <2>2. DialogWell'
    BY <2>1 DEF SliderIInv, DialogWell
  <2> QED
    BY <1>1, <2>1, <2>2
<1> QED
  BY <1>3, <1>4, <1>5, <1>6, <1>7, <1>8 DEF L!Next, ParNames

LEMMA SliderHolds ==
  ASSUME L!RemoteSliderAssumption
  PROVE  SliderIInv => L!SliderInv
<1> SUFFICES ASSUME SliderIInv PROVE L!SliderInv
  OBVIOUS
<1>1. /\ slider.pos \in 0..L!Steps(slider) /\ Whole(slider)
      /\ slider.par \in Places /\ slider.edited \in BOOLEAN
  BY DEF SliderIInv, SliderWell, Whole, Ends
<1>3. L!RangeKept
  BY <1>1, ValueIs DEF L!RangeKept
<1>4. /\ dlg.type \in {"closed", "PushButton", "Switch", "Slider"} /\ dlg.mod \in L!ModSet
      /\ dlg.edit => slider # L!NoSlider
  BY DEF SliderIInv, DialogWell
<1>5. L!TypeOK
  BY <1>1, <1>4 DEF L!TypeOK, Places, ParNames, SliderIInv, SliderWell
<1> QED
  BY <1>3, <1>5 DEF L!SliderInv, SliderIInv, SliderWell

\* However a slider is built and edited, it stands between the ends that the user
\* has entered (DoubleSlider.setConfig and setValue) and writes a parameter of the
\* experiment, unless it was edited to be for a module that has none
\* (RemoteWidgetEdit.getData); not edited, it stands where the value of that
\* parameter is or nearest to it, whichever widget has written it
\* (remoteSendParamter, remoteSliderUpdate).
THEOREM SliderStands ==
  ASSUME L!RemoteSliderAssumption
  PROVE  Spec => []SliderInv
<1> DEFINE Kept == part = "slider" => SliderIInv
<1>1. Init => Kept
  BY SliderInit DEF Init
<1>2. Kept /\ [Next]_vars => Kept'
  BY PartSteps, SliderStep
<1>3. Kept => SliderInv
  BY SliderHolds DEF SliderInv
<1> QED
  BY <1>1, <1>2, <1>3, PTL DEF Spec

\* "Gets called when a user interacts with the slider": the dialog's OK and Cancel
\* write no parameter, when it is not opened to edit a slider (remoteAddWidget
\* connects the slider after it has its first value).
THEOREM DialogIsQuiet ==
  Spec => DialogWritesNothing
<1>1. ASSUME L!Next, dlg # L!Closed, ~dlg.edit, dlg' = L!Closed PROVE pars' = pars
  <2>1. CASE L!OpenAdd \/ L!OpenEdit \/ L!Cancel \/ L!AcceptAdd \/ L!AcceptEdit
    BY <1>1, <2>1 DEF L!OpenAdd, L!OpenEdit, L!Cancel, L!AcceptAdd, L!AcceptEdit, L!Built
  <2>2. CASE \/ \E t \in {"PushButton", "Switch", "Slider"} : L!TypeListChanged(t)
             \/ \E m \in L!ModSet : L!ModuleChanged(m)
             \/ \E p \in {q[2] : q \in L!Parameters} : L!Choose(p)
             \/ \E r \in Ranges : L!Type(r)
    BY <2>2 DEF L!TypeListChanged, L!ModuleChanged, L!Choose, L!Type
  <2>3. CASE \/ \E p \in 0..L!Steps(slider) : L!Move(p)
             \/ \E b \in Buttons : L!Press(b)
             \/ L!RemoteRemoveWidget \/ L!Apply
    BY <1>1, <2>3 DEF L!Move, L!Press, L!RemoteRemoveWidget, L!Apply
  <2> QED
    BY <1>1, <2>1, <2>2, <2>3 DEF L!Next
<1>2. [Next]_vars => [part = "slider" => L!DialogWritesNothing]_vars
  <2> SUFFICES ASSUME [Next]_vars, part = "slider", vars' # vars PROVE L!DialogWritesNothing
    OBVIOUS
  <2>1. CASE L!Next
    BY <1>1, <2>1 DEF L!DialogWritesNothing
  <2>2. CASE UNCHANGED L!vars
    BY <2>2 DEF L!vars, L!DialogWritesNothing
  <2> QED
    BY <2>1, <2>2, PartSteps
<1> QED
  BY <1>2, PTL DEF Spec, DialogWritesNothing

-----------------------------------------------------------------------------
(* PlotDocks: trees and charts.                                            *)

LEMMA ChartsAre ==
  ASSUME NEW c
  PROVE  c \in P!Charts <=> c \in [DOMAIN c -> 0..MaxMeas] /\ DOMAIN c \subseteq Labels
BY DEF P!Charts

\* The inductive invariant: the measurements, the tree with its docks and charts, and
\* what the curves show.
RecordWell ==
  /\ applied \in DockExps /\ listed \subseteq Labels
  /\ meas \in Seq(DockExps) /\ Len(meas) <= MaxMeas
  /\ filled \subseteq 1..Len(meas) /\ cur \in 0..Len(meas)
  /\ sampling \in BOOLEAN /\ P!RunIsCurrent /\ (sampling => cur # 0)

ChartsWell ==
  /\ DOMAIN tree \subseteq Titles /\ \A t \in DOMAIN tree : tree[t] \subseteq Labels
  /\ docks \subseteq Titles /\ P!ChartsAreDocks
  /\ \A t \in DOMAIN charts : charts[t] \in P!Charts

PlotsIInv ==
  /\ RecordWell /\ ChartsWell /\ P!CurvesAreRecorded
  /\ exporter \in {"none", "busy", "dead"} /\ crash \in {"none", "KeyError"}

LEMMA PointsAre ==
  ASSUME P!DocksAssumption, RecordWell
  PROVE  /\ \A e \in DockExps : PointsOf[e] \subseteq Labels
         /\ \A i \in 1..Len(meas) : meas[i] \in DockExps /\ P!Points(i) \subseteq Labels
         /\ Len(meas) \in Nat /\ 0..Len(meas) \subseteq 0..MaxMeas
<1>1. \A e \in DockExps : PointsOf[e] \subseteq Labels
  BY DEF P!DocksAssumption
<1>2. Len(meas) \in Nat /\ 0..Len(meas) \subseteq 0..MaxMeas
  BY DEF P!DocksAssumption, RecordWell
<1>3. \A i \in 1..Len(meas) : meas[i] \in DockExps
  BY DEF RecordWell
<1> QED
  BY <1>1, <1>2, <1>3 DEF P!Points

LEMMA DrawnIs ==
  ASSUME NEW c \in P!Charts, NEW i \in 0..MaxMeas, NEW ps, NEW full \in BOOLEAN
  PROVE  P!Drawn(c, i, ps, full) \in P!Charts
<1> DEFINE d == P!Drawn(c, i, ps, full)
<1>1. c \in [DOMAIN c -> 0..MaxMeas] /\ DOMAIN c \subseteq Labels
  BY ChartsAre
<1>2. d \in [DOMAIN c -> 0..MaxMeas] /\ DOMAIN d = DOMAIN c
  BY <1>1 DEF P!Drawn
<1> HIDE DEF d
<1>3. d \in P!Charts
  BY <1>1, <1>2, ChartsAre
<1> QED
  BY <1>3 DEF d

\* updatePlotChart keeps the charts of the docks; when it does not raise, a chart
\* ends with exactly the items.
LEMMA ChartUpdated ==
  ASSUME P!DocksAssumption, RecordWell, ChartsWell, NEW t, NEW ls \in SUBSET Labels,
         P!UpdatePlotChart(t, ls)
  PROVE  /\ DOMAIN charts' = DOMAIN charts
         /\ \A k \in DOMAIN charts' : charts'[k] \in P!Charts
         /\ crash' = crash \/ crash' = "KeyError"
         /\ cur # 0 /\ t \in docks /\ crash' # "KeyError" => DOMAIN charts'[t] = ls
<1>1. DOMAIN charts = docks /\ docks \cap Reserved = {} /\ \A k \in docks : charts[k] \in P!Charts
  BY DEF ChartsWell, P!ChartsAreDocks
<1>2. CASE cur = 0 \/ t \in Reserved \/ t \notin docks
  BY <1>1, <1>2 DEF P!UpdatePlotChart
<1>3. CASE ~(cur = 0 \/ t \in Reserved \/ t \notin docks)
  <2> DEFINE new == ls \ DOMAIN charts[t]
             show == IF cur \in filled THEN cur ELSE 0
             exact == [l \in ls |-> IF l \in new THEN show ELSE charts[t][l]]
             shownOf(some) == [l \in some \cup DOMAIN charts[t] |->
                              IF l \in some THEN show ELSE charts[t][l]]
  <2>1. /\ charts[t] \in [DOMAIN charts[t] -> 0..MaxMeas] /\ DOMAIN charts[t] \subseteq Labels
        /\ show \in 0..MaxMeas
    BY <1>1, <1>3, ChartsAre, PointsAre DEF RecordWell
  <2>2. \/ charts' = P!With(charts, t, exact) /\ crash' = crash
        \/ /\ crash' = "KeyError"
           /\ \E some \in SUBSET (new \cap P!Points(cur)) : charts' = P!With(charts, t, shownOf(some))
    BY <1>3 DEF P!UpdatePlotChart, P!Shown
  <2>3. exact \in P!Charts /\ DOMAIN exact = ls
    <3>1. exact \in [ls -> 0..MaxMeas] /\ DOMAIN exact = ls
      BY <2>1
    <3> HIDE DEF exact
    <3> QED
      BY <3>1, ChartsAre
  <2>4. \A some \in SUBSET (new \cap P!Points(cur)) : shownOf(some) \in P!Charts
    <3> SUFFICES ASSUME NEW some \in SUBSET (new \cap P!Points(cur)) PROVE shownOf(some) \in P!Charts
      OBVIOUS
    <3> DEFINE p == shownOf(some)
    <3>1. /\ p \in [some \cup DOMAIN charts[t] -> 0..MaxMeas]
          /\ DOMAIN p = some \cup DOMAIN charts[t]
          /\ some \cup DOMAIN charts[t] \subseteq Labels
      BY <2>1
    <3> HIDE DEF p
    <3>2. p \in P!Charts
      BY <3>1, ChartsAre
    <3> QED
      BY <3>2 DEF p
  <2> HIDE DEF exact, shownOf, new, show
  <2>5. \E c \in P!Charts : /\ charts' = P!With(charts, t, c)
                            /\ crash' = "KeyError" \/ (crash' = crash /\ DOMAIN c = ls)
    BY <2>2, <2>3, <2>4
  <2>6. PICK c \in P!Charts : /\ charts' = P!With(charts, t, c)
                              /\ crash' = "KeyError" \/ (crash' = crash /\ DOMAIN c = ls)
    BY <2>5
  <2>7. /\ DOMAIN charts' = DOMAIN charts /\ charts'[t] = c
        /\ \A k \in DOMAIN charts : k # t => charts'[k] = charts[k]
    BY <1>1, <1>3, <2>6 DEF P!With
  <2> QED
    BY <1>1, <2>6, <2>7
<1> QED
  BY <1>2, <1>3

\* closedDock takes the charts of the docks that are closed.
LEMMA ChartsClosed ==
  ASSUME ChartsWell, NEW open \in SUBSET docks, P!ClosedDock(open),
         DOMAIN tree' \subseteq DOMAIN tree, open \subseteq DOMAIN tree',
         \A t \in DOMAIN tree' : tree'[t] = tree[t]
  PROVE  ChartsWell'
<1>1. DOMAIN charts = docks /\ docks \cap Reserved = {} /\ \A k \in docks : charts[k] \in P!Charts
  BY DEF ChartsWell, P!ChartsAreDocks
<1>2. docks' = open /\ DOMAIN charts' = open /\ \A k \in open : charts'[k] = charts[k]
  BY <1>1 DEF P!ClosedDock, P!FindAllPlotDocks
<1> QED
  BY <1>1, <1>2 DEF ChartsWell, P!ChartsAreDocks, P!Charts

\* Experiments and measurements: the current measurement is the last one from the
\* start of an experiment on, and nothing else changes that while it runs.
LEMMA MeasurementSteps ==
  ASSUME P!DocksAssumption, PlotsIInv,
         \/ \E e \in DockExps : P!ApplyExperiment(e)
         \/ P!StartExperiment \/ P!Sample \/ P!StopExperiment
         \/ \E i \in 1..Len(meas) : P!LoadLastMeas(i)
  PROVE  RecordWell'
<1>0. /\ applied \in DockExps /\ listed \subseteq Labels /\ meas \in Seq(DockExps) /\ Len(meas) \in Nat
      /\ Len(meas) <= MaxMeas /\ filled \subseteq 1..Len(meas) /\ cur \in 0..Len(meas)
      /\ sampling \in BOOLEAN /\ P!RunIsCurrent /\ (sampling => cur # 0)
      /\ \A e \in DockExps : PointsOf[e] \subseteq Labels
      /\ MaxMeas \in Nat
  BY PointsAre DEF PlotsIInv, RecordWell, P!DocksAssumption
<1>1. ASSUME NEW e \in DockExps, P!ApplyExperiment(e) PROVE RecordWell'
  BY <1>0, <1>1 DEF P!ApplyExperiment, P!ListPoints, RecordWell, P!RunIsCurrent
<1>2. CASE P!StartExperiment
  <2>1. /\ meas' = Append(meas, applied) /\ cur' = Len(meas) + 1 /\ sampling' = TRUE
        /\ applied' = applied /\ filled' = filled /\ Len(meas) < MaxMeas
        /\ listed' \subseteq Labels
    BY <1>0, <1>2 DEF P!StartExperiment, P!ListPoints
  <2>2. meas' \in Seq(DockExps) /\ Len(meas') = Len(meas) + 1 /\ meas'[Len(meas) + 1] = applied
    BY <1>0, <2>1
  <2>3. filled' \subseteq 1..Len(meas') /\ cur' \in 0..Len(meas') /\ Len(meas') <= MaxMeas
    BY <1>0, <2>1, <2>2
  <2> QED
    BY <1>0, <2>1, <2>2, <2>3 DEF RecordWell, P!RunIsCurrent
<1>3. CASE P!Sample
  <2>1. /\ sampling /\ filled' = filled \cup {Len(meas)}
        /\ UNCHANGED <<applied, listed, meas, cur, sampling>>
    BY <1>3 DEF P!Sample
  <2>2. Len(meas) \in 1..Len(meas)
    BY <1>0, <2>1 DEF P!RunIsCurrent
  <2> QED
    BY <1>0, <2>1, <2>2 DEF RecordWell, P!RunIsCurrent
<1>4. CASE P!StopExperiment
  BY <1>0, <1>4 DEF P!StopExperiment, RecordWell, P!RunIsCurrent
<1>5. ASSUME NEW i \in 1..Len(meas), P!LoadLastMeas(i) PROVE RecordWell'
  <2>1. meas[i] \in DockExps
    BY <1>0
  <2> QED
    BY <1>0, <1>5, <2>1 DEF P!LoadLastMeas, P!ListPoints, RecordWell, P!RunIsCurrent
<1> QED
  BY <1>1, <1>2, <1>3, <1>4, <1>5

\* The charts of a start, of loading a measurement and of the plot timer.
LEMMA ChartsRedrawn ==
  ASSUME P!DocksAssumption, PlotsIInv, UNCHANGED <<tree, docks>>,
         \/ \E e \in DockExps : P!ApplyExperiment(e)
         \/ P!StartExperiment \/ P!Sample \/ P!StopExperiment \/ P!UpdateDataPlots
         \/ \E i \in 1..Len(meas) : P!LoadLastMeas(i)
  PROVE  ChartsWell'
<1>0. ChartsWell
  BY DEF PlotsIInv
<1>1. CASE charts' = charts
  BY <1>0, <1>1 DEF ChartsWell, P!ChartsAreDocks, P!Charts
<1>2. ASSUME NEW i \in 0..MaxMeas, NEW full \in BOOLEAN, NEW T,
             \E ps : charts' = [t \in DOMAIN charts |->
                        IF t \in T THEN P!Drawn(charts[t], i, ps, full) ELSE charts[t]]
      PROVE  ChartsWell'
  <2>1. PICK ps : charts' = [t \in DOMAIN charts |->
                     IF t \in T THEN P!Drawn(charts[t], i, ps, full) ELSE charts[t]]
    BY <1>2
  <2>2. \A t \in DOMAIN charts : charts[t] \in P!Charts /\ P!Drawn(charts[t], i, ps, full) \in P!Charts
    BY <1>0, DrawnIs DEF ChartsWell
  <2>3. DOMAIN charts' = DOMAIN charts /\ \A t \in DOMAIN charts' : charts'[t] \in P!Charts
    BY <2>1, <2>2
  <2> QED
    BY <1>0, <2>3 DEF ChartsWell, P!ChartsAreDocks, P!Charts
<1>3. CASE (\E e \in DockExps : P!ApplyExperiment(e)) \/ P!Sample \/ P!StopExperiment
  BY <1>1, <1>3 DEF P!ApplyExperiment, P!Sample, P!StopExperiment, P!plots
<1>4. 0..Len(meas) \subseteq 0..MaxMeas /\ Len(meas) \in Nat /\ MaxMeas \in Nat
  BY PointsAre DEF PlotsIInv, P!DocksAssumption
<1>5. CASE P!StartExperiment
  <2> DEFINE i == Len(meas) + 1
             ps == PointsOf[applied]
             full == FALSE
  <2>1. i \in 0..MaxMeas /\ full \in BOOLEAN
    BY <1>4, <1>5 DEF P!StartExperiment
  <2>2. charts' = [t \in DOMAIN charts |->
           IF t \in DOMAIN tree THEN P!Drawn(charts[t], i, ps, full) ELSE charts[t]]
    BY <1>5 DEF P!StartExperiment, P!UpdatePlots
  <2> HIDE DEF i, ps, full
  <2> QED
    BY <1>2, <2>1, <2>2
<1>6. ASSUME NEW i \in 1..Len(meas), P!LoadLastMeas(i) PROVE ChartsWell'
  <2> DEFINE full == i \in filled
  <2>1. i \in 0..MaxMeas /\ full \in BOOLEAN
    BY <1>4
  <2>2. charts' = [t \in DOMAIN charts |->
           IF t \in DOMAIN tree THEN P!Drawn(charts[t], i, P!Points(i), full) ELSE charts[t]]
    BY <1>6 DEF P!LoadLastMeas, P!UpdatePlots
  <2> HIDE DEF full
  <2> QED
    BY <1>2, <2>1, <2>2
<1>7. CASE P!UpdateDataPlots
  <2> DEFINE i == Len(meas)
  <2>1. charts' = [t \in DOMAIN charts |-> P!Drawn(charts[t], i, P!Points(i), i \in filled)]
    BY <1>7 DEF P!UpdateDataPlots
  <2>2. charts' = [t \in DOMAIN charts |->
           IF t \in DOMAIN charts THEN P!Drawn(charts[t], i, P!Points(i), i \in filled) ELSE charts[t]]
    BY <2>1
  <2>3. i \in 0..MaxMeas /\ (i \in filled) \in BOOLEAN
    BY <1>4
  <2> HIDE DEF i
  <2> QED
    BY <1>2, <2>2, <2>3
<1> QED
  BY <1>3, <1>5, <1>6, <1>7

\* The tree and the docks: a dock and its chart come and go together.
LEMMA TreeSteps ==
  ASSUME P!DocksAssumption, PlotsIInv, NEW t \in Titles,
         \/ P!AddPlotTreeItem(t) \/ P!RemovePlotTreeItem(t)
         \/ P!PlotVectorClicked(t) \/ P!CloseDock(t) \/ P!LoadStandardDockState
  PROVE  ChartsWell'
<1>0. /\ ChartsWell /\ DOMAIN charts = docks /\ docks \subseteq DOMAIN tree \ Reserved
      /\ \A k \in docks : charts[k] \in P!Charts
      /\ DOMAIN tree \subseteq Titles /\ \A k \in DOMAIN tree : tree[k] \subseteq Labels
  BY DEF PlotsIInv, ChartsWell, P!ChartsAreDocks
<1>1. CASE P!AddPlotTreeItem(t)
  <2>1. /\ tree' = P!With(tree, t, {}) /\ docks' = docks /\ charts' = charts
    BY <1>1 DEF P!AddPlotTreeItem
  <2>2. DOMAIN tree' = DOMAIN tree \cup {t} /\ \A k \in DOMAIN tree' : tree'[k] \subseteq Labels
    BY <1>0, <2>1 DEF P!With
  <2> QED
    BY <1>0, <2>1, <2>2 DEF ChartsWell, P!ChartsAreDocks, P!Charts
<1>2. CASE P!RemovePlotTreeItem(t)
  <2>1. tree' = P!Without(tree, t) /\ P!ClosedDock(docks \ {t})
    BY <1>2 DEF P!RemovePlotTreeItem
  <2>2. DOMAIN tree' = DOMAIN tree \ {t} /\ \A k \in DOMAIN tree' : tree'[k] = tree[k]
    BY <2>1 DEF P!Without
  <2> QED
    BY <1>0, <2>1, <2>2, ChartsClosed
<1>3. CASE P!CloseDock(t) \/ P!LoadStandardDockState
  <2>1. tree' = tree /\ \E open \in SUBSET docks : P!ClosedDock(open)
    BY <1>3 DEF P!CloseDock, P!LoadStandardDockState
  <2> QED
    BY <1>0, <2>1, ChartsClosed
<1>4. CASE P!PlotVectorClicked(t)
  <2> DEFINE ls == tree[t] \cap (IF cur = 0 THEN PointsOf[applied] ELSE P!Points(cur))
             c == [l \in ls |-> IF cur \in filled THEN cur ELSE 0]
  <2>1. /\ t \in DOMAIN tree \ Reserved /\ docks' = docks \cup {t} /\ tree' = tree
        /\ charts' = P!With(charts, t, c)
    BY <1>4 DEF P!PlotVectorClicked, P!Shown
  <2>2. c \in P!Charts
    <3>1. c \in [ls -> 0..MaxMeas] /\ DOMAIN c = ls /\ ls \subseteq Labels
      BY <1>0, <2>1, PointsAre DEF PlotsIInv, RecordWell
    <3> HIDE DEF c, ls
    <3> QED
      BY <3>1, ChartsAre
  <2> HIDE DEF c
  <2>3. DOMAIN charts' = docks' /\ \A k \in docks' : charts'[k] \in P!Charts
    BY <1>0, <2>1, <2>2 DEF P!With
  <2> QED
    BY <1>0, <2>1, <2>3 DEF ChartsWell, P!ChartsAreDocks, P!Charts
<1> QED
  BY <1>1, <1>2, <1>3, <1>4

\* The items of a plot: what becomes of the tree, and what its chart is told.
LEMMA ItemsAre ==
  ASSUME P!DocksAssumption, PlotsIInv, NEW t \in Titles,
         \/ \E ls \in SUBSET Labels : P!AddDatapointToTree(t, ls)
         \/ \E l \in Labels : P!RemoveDatapointFromTree(t, l)
  PROVE  \E ls \in SUBSET Labels :
           /\ tree' = P!With(tree, t, ls) /\ P!UpdatePlotChart(t, ls)
           /\ UNCHANGED <<docks, applied, listed, meas, filled, cur, sampling, exporter>>
<1>0. \A k \in DOMAIN tree : tree[k] \subseteq Labels
  BY DEF PlotsIInv, ChartsWell
<1>1. ASSUME NEW ls \in SUBSET Labels, P!AddDatapointToTree(t, ls)
      PROVE  \E all \in SUBSET Labels :
               /\ tree' = P!With(tree, t, all) /\ P!UpdatePlotChart(t, all)
               /\ UNCHANGED <<docks, applied, listed, meas, filled, cur, sampling, exporter>>
  <2> DEFINE all == (IF t \in DOMAIN tree THEN tree[t] ELSE {}) \cup ls
  <2>1. /\ tree' = P!With(tree, t, all) /\ P!UpdatePlotChart(t, all)
        /\ UNCHANGED <<docks, applied, listed, meas, filled, cur, sampling, exporter>>
    BY <1>1 DEF P!AddDatapointToTree, P!record
  <2>2. all \in SUBSET Labels
    BY <1>0
  <2> HIDE DEF all
  <2> QED
    BY <2>1, <2>2
<1>2. ASSUME NEW l \in Labels, P!RemoveDatapointFromTree(t, l)
      PROVE  \E all \in SUBSET Labels :
               /\ tree' = P!With(tree, t, all) /\ P!UpdatePlotChart(t, all)
               /\ UNCHANGED <<docks, applied, listed, meas, filled, cur, sampling, exporter>>
  <2>1. /\ tree' = P!With(tree, t, tree[t] \ {l}) /\ P!UpdatePlotChart(t, tree[t] \ {l})
        /\ UNCHANGED <<docks, applied, listed, meas, filled, cur, sampling, exporter>>
        /\ t \in DOMAIN tree
    BY <1>2 DEF P!RemoveDatapointFromTree, P!record
  <2>2. tree[t] \ {l} \in SUBSET Labels
    BY <1>0, <2>1
  <2> QED
    BY <2>1, <2>2
<1> QED
  BY <1>1, <1>2

\* An edit of a plot keeps the charts of the docks, and ends with its items.
LEMMA ItemsShown ==
  ASSUME P!DocksAssumption, PlotsIInv, NEW t \in Titles,
         \/ \E ls \in SUBSET Labels : P!AddDatapointToTree(t, ls)
         \/ \E l \in Labels : P!RemoveDatapointFromTree(t, l)
  PROVE  /\ ChartsWell'
         /\ UNCHANGED <<applied, listed, meas, filled, cur, sampling, exporter>>
         /\ crash' \in {"none", "KeyError"}
         /\ P!EditShows
<1>0. /\ RecordWell /\ ChartsWell /\ DOMAIN charts = docks /\ docks \subseteq DOMAIN tree \ Reserved
      /\ DOMAIN tree \subseteq Titles /\ \A k \in DOMAIN tree : tree[k] \subseteq Labels
      /\ crash \in {"none", "KeyError"}
  BY DEF PlotsIInv, ChartsWell, P!ChartsAreDocks
<1>1. PICK ls \in SUBSET Labels :
        /\ tree' = P!With(tree, t, ls) /\ P!UpdatePlotChart(t, ls)
        /\ UNCHANGED <<docks, applied, listed, meas, filled, cur, sampling, exporter>>
  BY ItemsAre
<1>2. /\ DOMAIN charts' = DOMAIN charts
      /\ \A k \in DOMAIN charts' : charts'[k] \in P!Charts
      /\ crash' = crash \/ crash' = "KeyError"
      /\ cur # 0 /\ t \in docks /\ crash' # "KeyError" => DOMAIN charts'[t] = ls
  BY <1>0, <1>1, ChartUpdated
<1>3. /\ DOMAIN tree' = DOMAIN tree \cup {t} /\ tree'[t] = ls
      /\ \A k \in DOMAIN tree : k # t => tree'[k] = tree[k]
  BY <1>1 DEF P!With
<1>4. ChartsWell'
  <2>1. DOMAIN tree' \subseteq Titles /\ \A k \in DOMAIN tree' : tree'[k] \subseteq Labels
    BY <1>0, <1>3
  <2>2. P!ChartsAreDocks'
    BY <1>0, <1>1, <1>2, <1>3 DEF P!ChartsAreDocks
  <2>3. docks' \subseteq Titles
    BY <1>0, <1>1
  <2> QED
    BY <1>2, <2>1, <2>2, <2>3 DEF ChartsWell, P!Charts
<1>5. P!EditShows
  <2> SUFFICES ASSUME NEW k \in docks, cur # 0, tree'[k] # tree[k], crash' = "none"
               PROVE  DOMAIN charts'[k] = tree'[k]
    BY DEF P!EditShows
  <2>1. k = t
    BY <1>0, <1>3
  <2> QED
    BY <1>2, <1>3, <2>1
<1> QED
  BY <1>0, <1>1, <1>2, <1>4, <1>5

\* What a step makes of the curves: one that is there stays or turns to the current
\* measurement, if that has samples of its data point; a new one shows it.
Turned(v, l) == v = cur' /\ cur' \in filled' /\ l \in PointsOf[meas'[cur']]
CurvesStep ==
  \A t \in DOMAIN charts' : \A l \in DOMAIN charts'[t] :
    IF t \in DOMAIN charts /\ l \in DOMAIN charts[t]
    THEN charts'[t][l] = charts[t][l] \/ Turned(charts'[t][l], l)
    ELSE Turned(charts'[t][l], l) \/ (cur' \notin filled' /\ charts'[t][l] = 0)

\* The curves that a start, loading a measurement and the plot timer draw.
LEMMA RedrawnTurn ==
  ASSUME NEW ps, NEW full \in BOOLEAN, NEW T,
         charts' = [t \in DOMAIN charts |->
                      IF t \in T THEN P!Drawn(charts[t], cur', ps, full) ELSE charts[t]],
         full => cur' \in filled' /\ ps = PointsOf[meas'[cur']]
  PROVE  CurvesStep
<1> SUFFICES ASSUME NEW t \in DOMAIN charts', NEW l \in DOMAIN charts'[t]
             PROVE  IF t \in DOMAIN charts /\ l \in DOMAIN charts[t]
                    THEN charts'[t][l] = charts[t][l] \/ Turned(charts'[t][l], l)
                    ELSE Turned(charts'[t][l], l) \/ (cur' \notin filled' /\ charts'[t][l] = 0)
  BY DEF CurvesStep
<1>1. t \in DOMAIN charts
  OBVIOUS
<1>2. CASE t \in T
  <2>1. charts'[t] = [k \in DOMAIN charts[t] |-> IF k \in ps /\ full THEN cur' ELSE charts[t][k]]
    BY <1>1, <1>2 DEF P!Drawn
  <2>2. l \in DOMAIN charts[t] /\ charts'[t][l] = IF l \in ps /\ full THEN cur' ELSE charts[t][l]
    BY <2>1
  <2> QED
    BY <1>1, <2>2 DEF Turned
<1>3. CASE t \notin T
  BY <1>1, <1>3
<1> QED
  BY <1>2, <1>3

\* The curves that updatePlotChart leaves, whether it raises or not.
LEMMA ItemsTurn ==
  ASSUME ChartsWell, NEW t, NEW ls, P!UpdatePlotChart(t, ls), UNCHANGED <<cur, filled, meas>>
  PROVE  CurvesStep
<1>1. CASE cur = 0 \/ t \in Reserved \/ t \notin docks
  BY <1>1 DEF P!UpdatePlotChart, CurvesStep
<1>2. CASE ~(cur = 0 \/ t \in Reserved \/ t \notin docks)
  <2> DEFINE new == ls \ DOMAIN charts[t]
             show == IF cur \in filled THEN cur ELSE 0
  <2>1. t \in DOMAIN charts
    BY <1>2 DEF ChartsWell, P!ChartsAreDocks
  <2>2. ASSUME NEW D, NEW some, some \cap DOMAIN charts[t] = {}, some \subseteq P!Points(cur),
               D \subseteq some \cup DOMAIN charts[t],
               charts' = P!With(charts, t,
                           [l \in D |-> IF l \in some THEN show ELSE charts[t][l]])
        PROVE  CurvesStep
    <3>1. /\ DOMAIN charts' = DOMAIN charts
          /\ charts'[t] = [l \in D |-> IF l \in some THEN show ELSE charts[t][l]]
          /\ \A k \in DOMAIN charts : k # t => charts'[k] = charts[k]
      BY <2>1, <2>2 DEF P!With
    <3>2. \A l \in D : \/ l \in DOMAIN charts[t] /\ charts'[t][l] = charts[t][l]
                       \/ /\ l \notin DOMAIN charts[t] /\ charts'[t][l] = show
                          /\ l \in PointsOf[meas[cur]]
      BY <2>2, <3>1 DEF P!Points
    <3> QED
      BY <3>1, <3>2 DEF CurvesStep, Turned
  <2>3. CASE new \subseteq P!Points(cur)
    <3>1. charts' = P!With(charts, t, [l \in ls |-> IF l \in new THEN show ELSE charts[t][l]])
      BY <1>2, <2>3 DEF P!UpdatePlotChart, P!Shown
    <3>2. new \cap DOMAIN charts[t] = {} /\ ls \subseteq new \cup DOMAIN charts[t]
      OBVIOUS
    <3> QED
      BY <2>2, <2>3, <3>1, <3>2
  <2>4. CASE ~(new \subseteq P!Points(cur))
    <3>1. PICK some \in SUBSET (new \cap P!Points(cur)) :
            charts' = P!With(charts, t, [l \in some \cup DOMAIN charts[t] |->
                                           IF l \in some THEN show ELSE charts[t][l]])
      BY <1>2, <2>4 DEF P!UpdatePlotChart, P!Shown
    <3>2. some \cap DOMAIN charts[t] = {} /\ some \subseteq P!Points(cur)
      OBVIOUS
    <3> QED
      BY <2>2, <3>1, <3>2
  <2> QED
    BY <2>3, <2>4
<1> QED
  BY <1>1, <1>2

LEMMA CurvesTurn ==
  ASSUME P!DocksAssumption, PlotsIInv, P!Next
  PROVE  CurvesStep
<1>0. RecordWell /\ ChartsWell /\ Len(meas) \in Nat
  BY PointsAre DEF PlotsIInv
<1>1. CASE charts' = charts
  BY <1>1 DEF CurvesStep
<1>2. CASE \/ \E e \in DockExps : P!ApplyExperiment(e)
           \/ P!Sample \/ P!StopExperiment
           \/ \E t \in Titles : P!AddPlotTreeItem(t)
           \/ \E ls \in SUBSET Labels : P!Export(ls)
           \/ P!ExportThread
  BY <1>1, <1>2 DEF P!ApplyExperiment, P!Sample, P!StopExperiment, P!AddPlotTreeItem,
                    P!Export, P!ExportThread, P!plots
<1>3. CASE P!StartExperiment
  <2>1. charts' = [t \in DOMAIN charts |->
           IF t \in DOMAIN tree THEN P!Drawn(charts[t], cur', PointsOf[applied], FALSE) ELSE charts[t]]
    BY <1>3 DEF P!StartExperiment, P!UpdatePlots
  <2> QED
    BY <2>1, RedrawnTurn
<1>4. ASSUME NEW i \in 1..Len(meas), P!LoadLastMeas(i) PROVE CurvesStep
  <2> DEFINE full == i \in filled
             ps == P!Points(i)
             T == DOMAIN tree
  <2>1. charts' = [t \in DOMAIN charts |->
                     IF t \in T THEN P!Drawn(charts[t], cur', ps, full) ELSE charts[t]]
    BY <1>4 DEF P!LoadLastMeas, P!UpdatePlots
  <2>2. full => cur' \in filled' /\ ps = PointsOf[meas'[cur']]
    BY <1>4 DEF P!LoadLastMeas, P!Points
  <2>3. full \in BOOLEAN
    OBVIOUS
  <2> HIDE DEF full, ps, T
  <2> QED
    BY <2>1, <2>2, <2>3, RedrawnTurn
<1>5. CASE P!UpdateDataPlots
  <2> DEFINE full == Len(meas) \in filled
             ps == P!Points(Len(meas))
             T == DOMAIN charts
  <2>0. Len(meas) = cur'
    BY <1>0, <1>5 DEF P!UpdateDataPlots, P!record, RecordWell, P!RunIsCurrent
  <2>1. charts' = [t \in DOMAIN charts |->
                     IF t \in T THEN P!Drawn(charts[t], cur', ps, full) ELSE charts[t]]
    BY <1>5, <2>0 DEF P!UpdateDataPlots
  <2>2. full => cur' \in filled' /\ ps = PointsOf[meas'[cur']]
    BY <1>5, <2>0 DEF P!UpdateDataPlots, P!record, P!Points
  <2>3. full \in BOOLEAN
    OBVIOUS
  <2> HIDE DEF full, ps, T
  <2> QED
    BY <2>1, <2>2, <2>3, RedrawnTurn
<1>6. CASE \/ \E t \in Titles : P!RemovePlotTreeItem(t) \/ P!CloseDock(t)
           \/ P!LoadStandardDockState
  <2>1. \E open : P!ClosedDock(open)
    BY <1>6 DEF P!RemovePlotTreeItem, P!CloseDock, P!LoadStandardDockState
  <2>2. /\ DOMAIN charts' \subseteq DOMAIN charts
        /\ \A t \in DOMAIN charts' : charts'[t] = charts[t]
    BY <2>1 DEF P!ClosedDock
  <2> QED
    BY <2>2 DEF CurvesStep
<1>7. ASSUME NEW t \in Titles, P!PlotVectorClicked(t) PROVE CurvesStep
  <2> DEFINE ls == tree[t] \cap (IF cur = 0 THEN PointsOf[applied] ELSE P!Points(cur))
             c == [l \in ls |-> IF cur \in filled THEN cur ELSE 0]
  <2>1. /\ t \notin DOMAIN charts /\ charts' = P!With(charts, t, c)
        /\ UNCHANGED <<cur, filled, meas>>
    BY <1>7 DEF P!PlotVectorClicked, P!Shown, P!record
  <2>2. cur \in filled => ls \subseteq PointsOf[meas[cur]]
    BY <1>0 DEF RecordWell, P!Points
  <2>3. /\ DOMAIN charts' = DOMAIN charts \cup {t} /\ charts'[t] = c
        /\ \A k \in DOMAIN charts : charts'[k] = charts[k]
    BY <2>1 DEF P!With
  <2>4. \A l \in DOMAIN c : /\ c[l] = IF cur \in filled THEN cur ELSE 0
                            /\ cur \in filled => l \in PointsOf[meas[cur]]
    BY <2>2
  <2> HIDE DEF c, ls
  <2> QED
    BY <2>1, <2>3, <2>4 DEF CurvesStep, Turned
<1>8. ASSUME NEW t \in Titles,
             \/ \E ls \in SUBSET Labels : P!AddDatapointToTree(t, ls)
             \/ \E l \in Labels : P!RemoveDatapointFromTree(t, l)
      PROVE  CurvesStep
  <2>1. \E ls \in SUBSET Labels : P!UpdatePlotChart(t, ls) /\ UNCHANGED <<cur, filled, meas>>
    BY <1>8, ItemsAre
  <2> QED
    BY <1>0, <2>1, ItemsTurn
<1> QED
  BY <1>2, <1>3, <1>4, <1>5, <1>6, <1>7, <1>8 DEF P!Next

\* Samples and measurements stay, so that what a curve shows stays recorded.
LEMMA CurvesStayRecorded ==
  ASSUME P!DocksAssumption, PlotsIInv, [P!Next]_P!vars
  PROVE  P!CurvesAreRecorded'
<1>0. /\ RecordWell /\ P!CurvesAreRecorded /\ meas \in Seq(DockExps) /\ Len(meas) \in Nat
      /\ filled \subseteq 1..Len(meas)
  BY PointsAre DEF PlotsIInv, RecordWell
<1>1. filled \subseteq filled' /\ \A i \in filled : meas'[i] = meas[i]
  <2>1. CASE P!StartExperiment
    <3>1. filled' = filled /\ meas' = Append(meas, applied)
      BY <2>1 DEF P!StartExperiment
    <3>2. \A i \in 1..Len(meas) : meas'[i] = meas[i]
      BY <1>0, <3>1, AppendProperties DEF RecordWell
    <3> QED
      BY <1>0, <3>1, <3>2
  <2>2. CASE ~P!StartExperiment
    <3>1. filled \subseteq filled' /\ meas' = meas
      BY <2>2 DEF P!Next, P!ApplyExperiment, P!Sample, P!UpdateDataPlots, P!StopExperiment,
         P!LoadLastMeas, P!AddPlotTreeItem, P!RemovePlotTreeItem, P!PlotVectorClicked,
         P!CloseDock, P!AddDatapointToTree, P!RemoveDatapointFromTree,
         P!LoadStandardDockState, P!Export, P!ExportThread, P!plots, P!record, P!vars
    <3> QED
      BY <3>1
  <2> QED
    BY <2>1, <2>2
<1>2. CurvesStep
  <2>1. CASE UNCHANGED P!vars
    BY <2>1 DEF P!vars, CurvesStep
  <2> QED
    BY <2>1, CurvesTurn
<1> SUFFICES ASSUME NEW t \in DOMAIN charts', NEW l \in DOMAIN charts'[t], charts'[t][l] # 0
             PROVE  charts'[t][l] \in filled' /\ l \in PointsOf[meas'[charts'[t][l]]]
  BY DEF P!CurvesAreRecorded, P!Points
<1>3. CASE Turned(charts'[t][l], l)
  BY <1>3 DEF Turned
<1>4. CASE t \in DOMAIN charts /\ l \in DOMAIN charts[t] /\ charts'[t][l] = charts[t][l]
  <2>1. charts[t][l] \in filled /\ l \in PointsOf[meas[charts[t][l]]]
    BY <1>0, <1>4 DEF P!CurvesAreRecorded, P!Points
  <2> QED
    BY <1>1, <1>4, <2>1
<1> QED
  BY <1>2, <1>3, <1>4 DEF CurvesStep

LEMMA PlotsStep ==
  ASSUME P!DocksAssumption, PlotsIInv, [P!Next]_P!vars
  PROVE  PlotsIInv'
<1>0. /\ RecordWell /\ ChartsWell
      /\ exporter \in {"none", "busy", "dead"} /\ crash \in {"none", "KeyError"}
  BY DEF PlotsIInv
<1>8. P!CurvesAreRecorded'
  BY CurvesStayRecorded
<1>1. ASSUME UNCHANGED <<applied, listed, meas, filled, cur, sampling>> PROVE RecordWell'
  BY <1>0, <1>1 DEF RecordWell, P!RunIsCurrent
<1>2. CASE \/ \E e \in DockExps : P!ApplyExperiment(e)
           \/ P!StartExperiment \/ P!Sample \/ P!StopExperiment
           \/ \E i \in 1..Len(meas) : P!LoadLastMeas(i)
  <2>1. UNCHANGED <<tree, docks, exporter, crash>>
    BY <1>2 DEF P!ApplyExperiment, P!StartExperiment, P!Sample, P!StopExperiment,
                P!LoadLastMeas, P!plots
  <2> QED
    BY <1>8, <1>0, <1>2, <2>1, MeasurementSteps, ChartsRedrawn DEF PlotsIInv
<1>3. CASE P!UpdateDataPlots
  <2>1. UNCHANGED <<tree, docks, exporter, crash, applied, listed, meas, filled, cur, sampling>>
    BY <1>3 DEF P!UpdateDataPlots, P!record
  <2> QED
    BY <1>8, <1>0, <1>1, <1>3, <2>1, ChartsRedrawn DEF PlotsIInv
<1>4. ASSUME NEW t \in Titles, P!AddPlotTreeItem(t) \/ P!RemovePlotTreeItem(t)
                               \/ P!PlotVectorClicked(t) \/ P!CloseDock(t)
      PROVE  PlotsIInv'
  <2>1. UNCHANGED <<exporter, crash, applied, listed, meas, filled, cur, sampling>>
    BY <1>4 DEF P!AddPlotTreeItem, P!RemovePlotTreeItem, P!PlotVectorClicked, P!CloseDock, P!record
  <2> QED
    BY <1>8, <1>0, <1>1, <1>4, <2>1, TreeSteps DEF PlotsIInv
<1>5. CASE P!LoadStandardDockState
  <2>1. UNCHANGED <<exporter, crash, applied, listed, meas, filled, cur, sampling>>
    BY <1>5 DEF P!LoadStandardDockState, P!record
  <2>2. First \in Titles
    BY DEF P!DocksAssumption
  <2> QED
    BY <1>8, <1>0, <1>1, <1>5, <2>1, <2>2, TreeSteps DEF PlotsIInv
<1>6. ASSUME NEW t \in Titles,
             \/ \E ls \in SUBSET Labels : P!AddDatapointToTree(t, ls)
             \/ \E l \in Labels : P!RemoveDatapointFromTree(t, l)
      PROVE  PlotsIInv'
  BY <1>8, <1>0, <1>1, <1>6, ItemsShown DEF PlotsIInv
<1>7. CASE (\E ls \in SUBSET Labels : P!Export(ls)) \/ P!ExportThread \/ UNCHANGED P!vars
  <2>1. /\ UNCHANGED <<tree, docks, charts, applied, listed, meas, filled, cur, sampling>>
        /\ exporter' \in {"none", "busy", "dead"} /\ crash' \in {"none", "KeyError"}
    BY <1>0, <1>7 DEF P!Export, P!ExportThread, P!ExportDone, P!ExportDies, P!plots, P!record, P!vars
  <2>2. ChartsWell'
    BY <1>0, <2>1 DEF ChartsWell, P!ChartsAreDocks, P!Charts
  <2> QED
    BY <1>8, <1>1, <2>1, <2>2 DEF PlotsIInv
<1> QED
  BY <1>2, <1>3, <1>4, <1>5, <1>6, <1>7 DEF P!Next

LEMMA PlotsInit ==
  ASSUME P!DocksAssumption
  PROVE  P!Init => PlotsIInv
<1> SUFFICES ASSUME P!Init PROVE PlotsIInv
  OBVIOUS
<1>1. /\ applied \in DockExps /\ listed = PointsOf[applied] /\ PointsOf[applied] \subseteq Labels /\ MaxMeas \in Nat
      /\ tree = <<>> /\ docks = {} /\ charts = <<>> /\ meas = <<>> /\ filled = {} /\ cur = 0
      /\ sampling = FALSE /\ exporter = "none" /\ crash = "none"
  BY DEF P!Init, P!DocksAssumption
<1>2. DOMAIN tree = {} /\ DOMAIN charts = {} /\ meas \in Seq(DockExps) /\ Len(meas) = 0
  BY <1>1
<1>3. RecordWell
  <2>1. ~sampling /\ sampling \in BOOLEAN
    BY <1>1
  <2>2. filled \subseteq 1..Len(meas) /\ cur \in 0..Len(meas) /\ Len(meas) <= MaxMeas
    BY <1>1, <1>2
  <2> QED
    BY <1>1, <1>2, <2>1, <2>2 DEF RecordWell, P!RunIsCurrent
<1>4. ChartsWell /\ P!CurvesAreRecorded
  BY <1>1, <1>2 DEF ChartsWell, P!ChartsAreDocks, P!CurvesAreRecorded
<1> QED
  BY <1>1, <1>3, <1>4 DEF PlotsIInv

\* However a plot window is closed (by its button, with its item of the tree, by
\* the standard layout), its chart goes with it, so that a title can be opened
\* again (closedDock); what a curve shows is of a measurement that has samples of its
\* data point, however late it is drawn; and while an experiment runs, the current
\* measurement and the experiment applied are its own (loadLastMeas).
THEOREM PlotsFollow ==
  ASSUME P!DocksAssumption
  PROVE  Spec => []PlotsInv
<1> DEFINE Kept == part = "docks" => PlotsIInv
<1>1. Init => Kept
  BY PlotsInit DEF Init
<1>2. Kept /\ [Next]_vars => Kept'
  BY PartSteps, PlotsStep
<1>3. Kept => PlotsInv
  <2> SUFFICES ASSUME PlotsIInv PROVE P!PlotsInv
    BY DEF PlotsInv
  <2>1. \A i \in 1..Len(meas) : meas[i] \in DockExps
    BY PointsAre DEF PlotsIInv
  <2>2. P!TypeOK
    BY <2>1 DEF P!TypeOK, PlotsIInv, RecordWell, ChartsWell
  <2> QED
    BY <2>2 DEF P!PlotsInv, PlotsIInv, RecordWell, ChartsWell
<1> QED
  BY <1>1, <1>2, <1>3, PTL DEF Spec

\* Whatever is opened, edited, started and loaded: a curve that is there shows what it
\* did or turns to the current measurement, which in a run is that of the run
\* (updatePlot, updateDataPlots), and a new one shows it as soon as it has samples
\* (updatePlotChart, plotDataVector).
THEOREM CurvesTurnToCurrent ==
  ASSUME P!DocksAssumption
  PROVE  Spec => CurvesFollow
<1> DEFINE Kept == part = "docks" => PlotsIInv
<1>1. Init => Kept
  BY PlotsInit DEF Init
<1>2. Kept /\ [Next]_vars => Kept'
  BY PartSteps, PlotsStep
<1>3. Kept /\ [Next]_vars => [part = "docks" => P!CurvesFollow]_vars
  <2> SUFFICES ASSUME PlotsIInv, [Next]_vars, part = "docks", vars' # vars PROVE P!CurvesFollow
    OBVIOUS
  <2>1. CASE P!Next
    <3>1. CurvesStep
      BY <2>1, CurvesTurn
    <3> QED
      BY <3>1 DEF CurvesStep, Turned, P!CurvesFollow
  <2>2. CASE UNCHANGED P!vars
    BY <2>2 DEF P!vars, P!CurvesFollow
  <2> QED
    BY <2>1, <2>2, PartSteps
<1> QED
  BY <1>1, <1>2, <1>3, PTL DEF Spec, CurvesFollow

\* An edit of a plot whose window is open ends with exactly its items as curves,
\* unless the measurement lacks one of them (updatePlotChart, called by
\* addDatapointToTree and removeDatapointFromTree).
THEOREM EditsAreShown ==
  ASSUME P!DocksAssumption
  PROVE  Spec => EditShows
<1> DEFINE Kept == part = "docks" => PlotsIInv
<1>1. Init => Kept
  BY PlotsInit DEF Init
<1>2. Kept /\ [Next]_vars => Kept'
  BY PartSteps, PlotsStep
<1>3. ASSUME PlotsIInv, P!Next PROVE P!EditShows
  <2> USE <1>3
  <2>0. docks \subseteq DOMAIN tree
    BY DEF PlotsIInv, ChartsWell, P!ChartsAreDocks
  <2>1. CASE tree' = tree
    BY <2>1 DEF P!EditShows
  <2>2. ASSUME NEW t \in Titles, P!AddPlotTreeItem(t) PROVE P!EditShows
    <3>1. t \notin DOMAIN tree /\ \A k \in DOMAIN tree : tree'[k] = tree[k]
      BY <2>2 DEF P!AddPlotTreeItem, P!With
    <3> QED
      BY <2>0, <3>1 DEF P!EditShows
  <2>3. ASSUME NEW t \in Titles, P!RemovePlotTreeItem(t) PROVE P!EditShows
    <3>1. \A k \in DOMAIN tree' : tree'[k] = tree[k]
      BY <2>3 DEF P!RemovePlotTreeItem, P!Without
    <3> QED
      BY <3>1 DEF P!EditShows
  <2>4. ASSUME NEW t \in Titles,
               \/ \E ls \in SUBSET Labels : P!AddDatapointToTree(t, ls)
               \/ \E l \in Labels : P!RemoveDatapointFromTree(t, l)
        PROVE  P!EditShows
    BY <2>4, ItemsShown
  <2>5. CASE \/ \E e \in DockExps : P!ApplyExperiment(e)
             \/ P!StartExperiment \/ P!Sample \/ P!UpdateDataPlots \/ P!StopExperiment
             \/ \E i \in 1..Len(meas) : P!LoadLastMeas(i)
             \/ \E t \in Titles : P!PlotVectorClicked(t) \/ P!CloseDock(t)
             \/ P!LoadStandardDockState
             \/ \E ls \in SUBSET Labels : P!Export(ls)
             \/ P!ExportThread
    <3>1. tree' = tree
      BY <2>5 DEF P!ApplyExperiment, P!StartExperiment, P!Sample, P!UpdateDataPlots,
                  P!StopExperiment, P!LoadLastMeas, P!PlotVectorClicked, P!CloseDock,
                  P!LoadStandardDockState, P!Export, P!ExportThread, P!plots
    <3> QED
      BY <2>1, <3>1
  <2> QED
    BY <2>2, <2>3, <2>4, <2>5 DEF P!Next
<1>4. Kept /\ [Next]_vars => [part = "docks" => P!EditShows]_vars
  <2> SUFFICES ASSUME PlotsIInv, [Next]_vars, part = "docks", vars' # vars PROVE P!EditShows
    OBVIOUS
  <2>1. CASE P!Next
    BY <1>3, <2>1
  <2>2. CASE UNCHANGED P!vars
    BY <2>2 DEF P!vars, P!plots, P!EditShows
  <2> QED
    BY <2>1, <2>2, PartSteps
<1> QED
  BY <1>1, <1>2, <1>4, PTL DEF Spec, EditShows

-----------------------------------------------------------------------------
(* PlotChart: times in a row.                                              *)

\* m times in a row, from a on: what a buffer and its slices are
From(a, m) == [i \in 1..m |-> a + i - 1]

LEMMA LeastIs ==
  ASSUME NEW T, T \subseteq Nat, T # {}
  PROVE  \E x \in T : \A y \in T : x <= y
<1> DEFINE R == {ss \in Nat \X Nat : ss[1] < ss[2]}
<1>1. R = OpToRel(<, Nat)
  BY DEF OpToRel
<1>2. IsWellFoundedOn(R, Nat)
  BY <1>1, NatLessThanWellFounded
<1> HIDE DEF R
<1>3. PICK x \in T : \A y \in T : <<y, x>> \notin R
  BY <1>2, WFMin
<1>4. \A y \in T : ~(y < x)
  BY <1>3 DEF R
<1> QED
  BY <1>4

LEMMA FromIs ==
  ASSUME NEW a \in Nat, NEW m \in Nat
  PROVE  /\ From(a, m) \in Seq(a..(a + m - 1)) /\ From(a, m) \in Seq(Int)
         /\ Len(From(a, m)) = m /\ DOMAIN From(a, m) = 1..m
         /\ \A i \in 1..m : From(a, m)[i] = a + i - 1
         /\ From(a, m) = <<>> <=> m = 0
         /\ \A i \in 0..m : C!Slice(From(a, m), i) = From(a + i, m - i)
         /\ C!ToSet(From(a, m)) = a..(a + m - 1)
<1>1. /\ From(a, m) \in Seq(a..(a + m - 1)) /\ From(a, m) \in Seq(Int)
      /\ Len(From(a, m)) = m /\ DOMAIN From(a, m) = 1..m
      /\ \A i \in 1..m : From(a, m)[i] = a + i - 1
  BY DEF From
<1>2. From(a, m) = <<>> <=> m = 0
  BY <1>1
<1>3. ASSUME NEW i \in 0..m PROVE C!Slice(From(a, m), i) = From(a + i, m - i)
  <2> DEFINE s == SubSeq(From(a, m), i + 1, m)
  <2>1. /\ i + 1 \in Int /\ m \in Int
        /\ \A j \in (i + 1)..m : From(a, m)[j] \in Int
    BY <1>1
  <2>2. /\ s \in Seq(Int) /\ Len(s) = IF i + 1 <= m THEN m - (i + 1) + 1 ELSE 0
        /\ \A j \in 1..(m - (i + 1) + 1) : s[j] = From(a, m)[(i + 1) + j - 1]
    BY <2>1, SubSeqProperties
  <2> HIDE DEF s
  <2>3. Len(s) = m - i /\ \A j \in 1..(m - i) : s[j] = (a + i) + j - 1
    BY <1>1, <2>2
  <2>4. s = From(a + i, m - i)
    BY <2>2, <2>3 DEF From
  <2> QED
    BY <1>1, <2>4 DEF C!Slice, s
<1>4. C!ToSet(From(a, m)) = a..(a + m - 1)
  <2>1. \A t \in a..(a + m - 1) : t - a + 1 \in 1..m /\ From(a, m)[t - a + 1] = t
    BY <1>1
  <2> QED
    BY <1>1, <2>1 DEF C!ToSet
<1> QED
  BY <1>1, <1>2, <1>3, <1>4

LEMMA FromLen ==
  ASSUME NEW a \in Nat, NEW m \in Nat
  PROVE  From(a, m) \in Seq(Int) /\ Len(From(a, m)) = m /\ (From(a, m) = <<>> <=> m = 0)
BY FromIs

-----------------------------------------------------------------------------
(* PlotChart: bisection in a row of times.                                 *)

Cut(v, lo, hi) == IF v < lo THEN lo ELSE IF v > hi THEN hi ELSE v

Pairs(x) == (0..Len(x)) \X (0..Len(x))
Halved(x, v, f) ==
  [r \in Pairs(x) |->
     LET lo == r[1]
         hi == r[2]
         mid == (lo + hi) \div 2
     IN IF lo >= hi THEN lo
        ELSE IF x[mid + 1] < v THEN f[<<mid + 1, hi>>] ELSE f[<<lo, mid>>]]
Halving(x, v) == CHOOSE f : f = Halved(x, v, f)

LEMMA BisectHalves ==
  ASSUME NEW x, NEW v
  PROVE  C!BisectLeft(x, v) = Halving(x, v)[<<0, Len(x)>>]
BY DEF C!BisectLeft, Halving, Halved, Pairs

LEMMA MiddleIs ==
  ASSUME NEW lo \in Int, NEW hi \in Int, lo < hi
  PROVE  LET mid == (lo + hi) \div 2 IN mid \in Int /\ lo <= mid /\ mid < hi
BY SMT

LEMMA HalvedIs ==
  ASSUME NEW k \in Nat, NEW v, NEW f, NEW lo \in 0..k, NEW hi \in 0..k
  PROVE  LET x == From(0, k)
             mid == (lo + hi) \div 2
         IN /\ lo >= hi => Halved(x, v, f)[<<lo, hi>>] = lo
            /\ lo < hi /\ mid < v => Halved(x, v, f)[<<lo, hi>>] = f[<<mid + 1, hi>>]
            /\ lo < hi /\ ~(mid < v) => Halved(x, v, f)[<<lo, hi>>] = f[<<lo, mid>>]
<1> DEFINE x == From(0, k)
           mid == (lo + hi) \div 2
<1>1. <<lo, hi>> \in Pairs(x)
  BY FromIs DEF Pairs
<1>2. Halved(x, v, f)[<<lo, hi>>] =
        IF lo >= hi THEN lo
        ELSE IF x[mid + 1] < v THEN f[<<mid + 1, hi>>] ELSE f[<<lo, mid>>]
  BY <1>1 DEF Halved
<1>3. lo < hi => x[mid + 1] = mid
  <2> SUFFICES ASSUME lo < hi PROVE x[mid + 1] = mid
    OBVIOUS
  <2>1. mid \in Int /\ lo <= mid /\ mid < hi
    BY MiddleIs
  <2> HIDE DEF mid
  <2>2. mid + 1 \in 1..k
    BY <2>1
  <2>3. \A i \in 1..k : x[i] = 0 + i - 1
    BY FromIs
  <2> HIDE DEF x
  <2> QED
    BY <2>1, <2>2, <2>3
<1> HIDE DEF x, mid
<1>4. lo \in Int /\ hi \in Int
  OBVIOUS
<1>5. CASE lo >= hi
  BY <1>2, <1>4, <1>5 DEF x, mid
<1>6. CASE lo < hi
  <2>1. ~(lo >= hi) /\ x[mid + 1] = mid
    BY <1>3, <1>4, <1>6
  <2>2. Halved(x, v, f)[<<lo, hi>>] = IF mid < v THEN f[<<mid + 1, hi>>] ELSE f[<<lo, mid>>]
    BY <1>2, <2>1
  <2> QED
    BY <2>1, <2>2 DEF x, mid
<1> QED
  BY <1>4, <1>5, <1>6

\* bisect_left of the times 0, 1, ...: the search halves its bounds, so it ends
\* between them, where a smaller search ends.
LEMMA BisectIs ==
  ASSUME NEW k \in Nat, NEW v \in Int
  PROVE  C!BisectLeft(From(0, k), v) = Cut(v, 0, k)
<1> DEFINE x == From(0, k)
           End(lo, hi) == IF lo >= hi THEN lo ELSE Cut(v, lo, hi)
           g == [r \in Pairs(x) |-> End(r[1], r[2])]
           f == Halving(x, v)
<1>0. Pairs(x) = (0..k) \X (0..k)
  BY FromIs DEF Pairs
<1>1. \A lo, hi \in 0..k : g[<<lo, hi>>] = End(lo, hi)
  BY <1>0
<1>2. ASSUME NEW lo \in 0..k, NEW hi \in 0..k
      PROVE  Halved(x, v, g)[<<lo, hi>>] = End(lo, hi)
  <2> DEFINE mid == (lo + hi) \div 2
  <2>0. /\ lo >= hi => Halved(x, v, g)[<<lo, hi>>] = lo
        /\ lo < hi /\ mid < v => Halved(x, v, g)[<<lo, hi>>] = g[<<mid + 1, hi>>]
        /\ lo < hi /\ ~(mid < v) => Halved(x, v, g)[<<lo, hi>>] = g[<<lo, mid>>]
    BY HalvedIs
  <2>1. lo < hi => mid \in Int /\ lo <= mid /\ mid < hi
    BY MiddleIs
  <2> HIDE DEF g, mid, x
  <2>2. lo < hi => g[<<mid + 1, hi>>] = End(mid + 1, hi) /\ g[<<lo, mid>>] = End(lo, mid)
    BY <1>1, <2>1
  <2> QED
    BY <2>0, <2>1, <2>2 DEF Cut
<1>3. g = Halved(x, v, g)
  <2>1. \A r \in Pairs(x) : r[1] \in 0..k /\ r[2] \in 0..k /\ r = <<r[1], r[2]>>
    BY <1>0
  <2>2. \A r \in Pairs(x) : g[r] = Halved(x, v, g)[r]
    <3> SUFFICES ASSUME NEW r \in Pairs(x) PROVE g[r] = Halved(x, v, g)[r]
      OBVIOUS
    <3> DEFINE lo == r[1]
               hi == r[2]
    <3>1. lo \in 0..k /\ hi \in 0..k /\ r = <<lo, hi>>
      BY <2>1
    <3> HIDE DEF lo, hi, g, x
    <3> QED
      BY <1>1, <1>2, <3>1
  <2> DEFINE h == Halved(x, v, g)
  <2>3. h = [r \in Pairs(x) |-> h[r]]
    BY DEF Halved
  <2>4. g = [r \in Pairs(x) |-> g[r]]
    OBVIOUS
  <2> HIDE DEF g, h
  <2>5. [r \in Pairs(x) |-> g[r]] = [r \in Pairs(x) |-> h[r]]
    BY <2>2 DEF h
  <2> QED
    BY <2>3, <2>4, <2>5 DEF h
<1>4. f = Halved(x, v, f)
  <2> HIDE DEF g
  <2> QED
    BY Zenon, <1>3 DEF Halving
<1> HIDE DEF g, f
<1>5. \A lo, hi \in 0..k : lo >= hi => f[<<lo, hi>>] = End(lo, hi)
  <2> SUFFICES ASSUME NEW lo \in 0..k, NEW hi \in 0..k, lo >= hi
               PROVE  f[<<lo, hi>>] = lo
    OBVIOUS
  <2> DEFINE mid == (lo + hi) \div 2
  <2>1. /\ lo >= hi => Halved(x, v, f)[<<lo, hi>>] = lo
        /\ lo < hi /\ mid < v => Halved(x, v, f)[<<lo, hi>>] = f[<<mid + 1, hi>>]
        /\ lo < hi /\ ~(mid < v) => Halved(x, v, f)[<<lo, hi>>] = f[<<lo, mid>>]
    BY HalvedIs
  <2> HIDE DEF x
  <2> QED
    BY <1>4, <2>1
<1>6. \A lo, hi \in 0..k : f[<<lo, hi>>] = End(lo, hi)
  <2> DEFINE Bad(lo, hi) == f[<<lo, hi>>] # End(lo, hi)
             T == {n \in Nat : \E lo, hi \in 0..k : Bad(lo, hi) /\ n = hi - lo}
  <2> SUFFICES ASSUME NEW lo0 \in 0..k, NEW hi0 \in 0..k, Bad(lo0, hi0) PROVE FALSE
    OBVIOUS
  <2>0. \A lo, hi \in 0..k : Bad(lo, hi) => hi - lo \in Nat
    <3>1. \A lo, hi \in 0..k : ~(lo >= hi) => hi - lo \in Nat
      OBVIOUS
    <3> HIDE DEF End
    <3> QED
      BY <1>5, <3>1
  <2> HIDE DEF Bad
  <2>1. \A lo, hi \in 0..k : Bad(lo, hi) => hi - lo \in T
    BY Zenon, <2>0
  <2>2. PICK n \in T : \A m \in T : n <= m
    <3>1. T \subseteq Nat /\ T # {}
      BY <2>1
    <3> HIDE DEF T
    <3> QED
      BY <3>1, LeastIs
  <2>3. PICK lo \in 0..k, hi \in 0..k : Bad(lo, hi) /\ n = hi - lo
    OBVIOUS
  <2>4. lo < hi
    BY <1>5, <2>3 DEF Bad
  <2> DEFINE mid == (lo + hi) \div 2
  <2>5. mid \in Int /\ lo <= mid /\ mid < hi
    BY <2>4, MiddleIs
  <2> HIDE DEF mid
  <2>6. ASSUME NEW a \in 0..k, NEW b \in 0..k, b - a < hi - lo PROVE f[<<a, b>>] = End(a, b)
    <3>1. CASE a >= b
      BY <1>5, <3>1
    <3>2. CASE a < b
      <4> SUFFICES ASSUME Bad(a, b) PROVE FALSE
        BY DEF Bad
      <4>1. b - a \in T
        BY <2>1
      <4> HIDE DEF T
      <4> QED
        BY <2>2, <2>3, <2>6, <4>1
    <3> QED
      BY <3>1, <3>2 DEF Bad
  <2> HIDE DEF T
  <2>7. f[<<mid + 1, hi>>] = g[<<mid + 1, hi>>] /\ f[<<lo, mid>>] = g[<<lo, mid>>]
    <3>1. /\ mid + 1 \in 0..k /\ mid \in 0..k
          /\ hi - (mid + 1) < hi - lo /\ mid - lo < hi - lo
      BY <2>5
    <3> QED
      BY <1>1, <2>6, <3>1
  <2>8. /\ mid < v => /\ Halved(x, v, f)[<<lo, hi>>] = f[<<mid + 1, hi>>]
                      /\ Halved(x, v, g)[<<lo, hi>>] = g[<<mid + 1, hi>>]
        /\ ~(mid < v) => /\ Halved(x, v, f)[<<lo, hi>>] = f[<<lo, mid>>]
                         /\ Halved(x, v, g)[<<lo, hi>>] = g[<<lo, mid>>]
    BY <2>4, HalvedIs DEF mid
  <2>9. Halved(x, v, f)[<<lo, hi>>] = End(lo, hi)
    BY <1>2, <2>7, <2>8
  <2> QED
    BY <1>4, <2>3, <2>9 DEF Bad
<1>7. f[<<0, k>>] = Cut(v, 0, k)
  BY <1>6 DEF Cut
<1> QED
  BY <1>7, BisectHalves, FromIs DEF f

-----------------------------------------------------------------------------
(* PlotChart: rows of points.                                              *)

LEMMA WholeIs ==
  ASSUME NEW m \in Nat, NEW s \in Nat \ {0}
  PROVE  m \div s \in Nat /\ s * (m \div s) <= m /\ m < s * (m \div s) + s
BY SMT

LEMMA StepsAre ==
  ASSUME NEW s \in Nat \ {0}, NEW i \in Nat, NEW j \in Nat
  PROVE  /\ s * i \in Nat /\ s * (i + 1) = s * i + s /\ i <= s * i
         /\ i <= j => s * i <= s * j
         /\ s * i < s * j + s => i <= j
BY SMT

LEMMA PieceIs ==
  ASSUME NEW a \in Nat, NEW m \in Nat, NEW i \in 1..m, NEW j \in 1..m, i <= j
  PROVE  SubSeq(From(a, m), i, j) = From(a + i - 1, j - i + 1)
<1> DEFINE s == SubSeq(From(a, m), i, j)
<1>1. /\ i \in Int /\ j \in Int
      /\ \A k \in 1..m : From(a, m)[k] \in Int /\ From(a, m)[k] = a + k - 1
  <2>1. \A k \in 1..m : From(a, m)[k] = a + k - 1
    BY FromIs
  <2> QED
    BY <2>1
<1>2. \A k \in i..j : From(a, m)[k] \in Int
  BY <1>1
<1>3. /\ s \in Seq(Int) /\ Len(s) = IF i <= j THEN j - i + 1 ELSE 0
      /\ \A k \in 1..(j - i + 1) : s[k] = From(a, m)[i + k - 1]
  BY <1>1, <1>2, SubSeqProperties
<1> HIDE DEF s
<1>4. Len(s) = j - i + 1 /\ \A k \in 1..(j - i + 1) : s[k] = (a + i - 1) + k - 1
  BY <1>1, <1>3
<1>5. s = From(a + i - 1, j - i + 1)
  BY <1>3, <1>4 DEF From
<1> QED
  BY <1>5 DEF s

\* n points, s samples apart: the k-th is drawn o samples after the first of the l
\* samples that it stands for
Row(a, s, o, l, n) == [k \in 1..n |-> <<a + s * (k - 1) + o, From(a + s * (k - 1), l)>>]

\* such a row within the m times from a on; b is where its last block begins
RowWell(d, a, m, s, o, l, n) ==
  LET b == s * (n - 1)
  IN /\ d \in Seq((a..(a + m - 1)) \X Seq(a..(a + m - 1)))
     /\ Len(d) = n /\ DOMAIN d = 1..n /\ (d = <<>> <=> n = 0)
     /\ n # 0 => d[n][1] = a + b + o
     /\ \A k \in 1..n : Len(d[k][2]) = l
     /\ l = s => \A t \in a..(a + m - 1) :
          n # 0 /\ t <= a + b + o => \E k \in 1..n : t \in C!ToSet(d[k][2])

LEMMA SpanIs ==
  ASSUME NEW a \in Nat, NEW m \in Nat, NEW c \in Nat, NEW o \in Nat, NEW l \in Nat,
         o < l, c + l <= m
  PROVE  (a + c)..(a + c + l - 1) \subseteq a..(a + m - 1) /\ a + c + o \in a..(a + m - 1)
OBVIOUS

LEMMA RowIs ==
  ASSUME NEW a \in Nat, NEW m \in Nat, NEW s \in Nat \ {0}, NEW o \in Nat, NEW l \in Nat,
         NEW n \in Nat, o < l, n = 0 \/ s * (n - 1) + l <= m
  PROVE  RowWell(Row(a, s, o, l, n), a, m, s, o, l, n)
<1> DEFINE d == Row(a, s, o, l, n)
           p(k) == s * (k - 1)
<1>1. ASSUME NEW k \in 1..n
      PROVE  /\ p(k) \in Nat /\ p(k) + l <= m
             /\ d[k] = <<a + p(k) + o, From(a + p(k), l)>>
             /\ From(a + p(k), l) \in Seq((a + p(k))..(a + p(k) + l - 1))
             /\ Len(From(a + p(k), l)) = l
             /\ C!ToSet(From(a + p(k), l)) = (a + p(k))..(a + p(k) + l - 1)
  <2>1. k - 1 \in Nat /\ n - 1 \in Nat /\ k - 1 <= n - 1
    OBVIOUS
  <2>2. p(k) \in Nat /\ p(k) <= s * (n - 1)
    BY <2>1, StepsAre
  <2>3. s * (n - 1) \in Nat
    BY <2>1, StepsAre
  <2>4. d[k] = <<a + p(k) + o, From(a + p(k), l)>>
    BY DEF Row
  <2> HIDE DEF p
  <2>5. a + p(k) \in Nat /\ p(k) + l <= m
    BY <2>2, <2>3
  <2> QED
    BY <2>2, <2>4, <2>5, FromIs
<1>2. /\ d = [k \in 1..n |-> <<a + p(k) + o, From(a + p(k), l)>>]
      /\ DOMAIN d = 1..n
  BY DEF Row
<1>3. ASSUME NEW k \in 1..n PROVE d[k] \in (a..(a + m - 1)) \X Seq(a..(a + m - 1))
  <2> DEFINE c == p(k)
  <2>0. /\ c \in Nat /\ c + l <= m
        /\ d[k] = <<a + c + o, From(a + c, l)>>
        /\ From(a + c, l) \in Seq((a + c)..(a + c + l - 1))
    BY <1>1
  <2> HIDE DEF c
  <2>1. (a + c)..(a + c + l - 1) \subseteq a..(a + m - 1) /\ a + c + o \in a..(a + m - 1)
    BY <2>0, SpanIs
  <2>2. From(a + c, l) \in Seq(a..(a + m - 1))
    BY <2>0, <2>1
  <2> QED
    BY <2>0, <2>1, <2>2
<1>4. ASSUME l = s, NEW t \in a..(a + m - 1), n # 0, t <= a + p(n) + o
      PROVE  \E k \in 1..n : t \in C!ToSet(d[k][2])
  <2> DEFINE q == (t - a) \div s
  <2>0. t - a \in Nat
    OBVIOUS
  <2>1. q \in Nat /\ s * q <= t - a /\ t - a < s * q + s
    BY <2>0, WholeIs
  <2>2. n - 1 \in Nat
    BY <1>4
  <2> HIDE DEF q
  <2>3. s * q < s * (n - 1) + s
    <3>1. s * q \in Nat /\ s * (n - 1) \in Nat
      BY <2>1, <2>2, StepsAre
    <3> QED
      BY <1>4, <2>1, <3>1
  <2>4. q <= n - 1
    BY <2>1, <2>2, <2>3, StepsAre
  <2>5. q + 1 \in 1..n /\ p(q + 1) = s * q
    BY <2>1, <2>4
  <2> DEFINE c == p(q + 1)
  <2>6. /\ d[q + 1] = <<a + c + o, From(a + c, l)>> /\ c \in Nat
        /\ C!ToSet(From(a + c, l)) = (a + c)..(a + c + l - 1)
    BY <1>1, <2>5
  <2>7. c <= t - a /\ t - a < c + l
    BY <1>4, <2>1, <2>5
  <2> HIDE DEF c, p, d
  <2>8. t \in (a + c)..(a + c + l - 1)
    BY <2>6, <2>7
  <2> QED
    BY <2>5, <2>6, <2>8
<1>5. n # 0 => d[n][1] = a + s * (n - 1) + o
  <2> SUFFICES ASSUME n # 0 PROVE d[n][1] = a + s * (n - 1) + o
    OBVIOUS
  <2>1. n \in 1..n
    OBVIOUS
  <2> QED
    BY <1>1, <2>1
<1>6. \A k \in 1..n : Len(d[k][2]) = l
  BY <1>1
<1> HIDE DEF d
<1>7. d \in Seq((a..(a + m - 1)) \X Seq(a..(a + m - 1))) /\ Len(d) = n /\ (d = <<>> <=> n = 0)
  <2>1. d \in [1..n -> (a..(a + m - 1)) \X Seq(a..(a + m - 1))]
    BY <1>2, <1>3
  <2> QED
    BY <2>1
<1>8. l = s => \A t \in a..(a + m - 1) :
        n # 0 /\ t <= a + s * (n - 1) + o => \E k \in 1..n : t \in C!ToSet(d[k][2])
  BY <1>4
<1> QED
  BY <1>2, <1>5, <1>6, <1>7, <1>8 DEF d, RowWell

\* What _downsample gives for times in a row: a row of points; it is empty only when
\* there are less samples than a block has, and leaves less than a block.
RowOf(d, a, m, ds, s, o, l, n) ==
  /\ d = Row(a, s, o, l, n) /\ o < l /\ (n = 0 \/ s * (n - 1) + l <= m)
  /\ (Method # "subsample" => l = s)
  /\ (n = 0 => m < ds)
  /\ (n # 0 => (m - 1) - (s * (n - 1) + o) <= 2 * (ds - 1) - (ds \div 2))
  /\ (C!Returns(ds) => s = 1 /\ o = 0 /\ l = 1 /\ n = m)
  /\ (~C!Returns(ds) => s = ds /\ 1 < ds)

LEMMA HalfIs ==
  ASSUME NEW ds \in Nat \ {0}
  PROVE  ds \div 2 \in Nat /\ ds \div 2 < ds /\ ds \div 2 <= ds - 1 /\ (1 < ds => 1 <= ds \div 2)
BY SMT

LEMMA FromOne ==
  ASSUME NEW a \in Nat
  PROVE  From(a, 1) = <<a>>
<1>1. From(a, 1) \in Seq(Int) /\ Len(From(a, 1)) = 1 /\ From(a, 1)[1] = a
  <2>1. /\ From(a, 1) \in Seq(Int) /\ Len(From(a, 1)) = 1
        /\ \A i \in 1..1 : From(a, 1)[i] = a + i - 1
    BY FromIs
  <2> QED
    BY <2>1
<1> QED
  BY <1>1

LEMMA RawIs ==
  ASSUME NEW a \in Nat, NEW m \in Nat
  PROVE  C!Raw(From(a, m)) = Row(a, 1, 0, 1, m)
<1> DEFINE x == From(a, m)
<1>1. /\ Len(x) = m
      /\ \A i \in 1..m : x[i] = a + i - 1
  BY FromIs
<1> HIDE DEF x
<1>2. C!Raw(x) = [i \in 1..m |-> <<x[i], <<x[i]>>>>]
  BY <1>1 DEF C!Raw
<1>3. \A i \in 1..m : a + 1 * (i - 1) = x[i] /\ x[i] \in Nat /\ x[i] + 0 = x[i]
  BY <1>1
<1>4. \A i \in 1..m : <<x[i], <<x[i]>>>> = <<a + 1 * (i - 1) + 0, From(a + 1 * (i - 1), 1)>>
  BY <1>3, FromOne
<1> QED
  BY <1>2, <1>4 DEF Row, x

LEMMA RawRow ==
  ASSUME NEW a \in Nat, NEW m \in Nat, NEW ds \in Nat \ {0}
  PROVE  RowOf(C!Raw(From(a, m)), a, m, ds, 1, 0, 1, m) <=> C!Returns(ds)
<1>1. C!Raw(From(a, m)) = Row(a, 1, 0, 1, m)
  BY RawIs
<1>2. 0 <= 2 * (ds - 1) - (ds \div 2)
  BY HalfIs
<1>3. (m - 1) - (1 * (m - 1) + 0) = 0
  BY SMT
<1>4. ~C!Returns(ds) => 1 < ds
  BY DEF C!Returns
<1> QED
  BY <1>1, <1>2, <1>3, <1>4 DEF RowOf

\* every ds-th sample
LEMMA SubsampleRow ==
  ASSUME NEW a \in Nat, NEW m \in Nat, NEW ds \in Nat \ {0},
         ~C!Returns(ds), Method = "subsample"
  PROVE  LET n == (m + ds - 1) \div ds
         IN n \in Nat /\ RowOf(C!Downsample(ds, From(a, m)), a, m, ds, ds, 0, 1, n)
<1> DEFINE x == From(a, m)
           n == (m + ds - 1) \div ds
<1>0. 1 < ds /\ Len(x) = m
  BY FromIs DEF C!Returns
<1>1. C!Downsample(ds, x) = [k \in 1..n |-> Row(a, 1, 0, 1, m)[ds * (k - 1) + 1]]
  BY <1>0, RawIs DEF C!Downsample
<1>2. n \in Nat /\ ds * n <= m + ds - 1 /\ m + ds - 1 < ds * n + ds
  <2>1. m + ds - 1 \in Nat
    OBVIOUS
  <2> QED
    BY <2>1, WholeIs
<1> HIDE DEF n, x
<1>3. ASSUME NEW k \in 1..n
      PROVE  /\ ds * (k - 1) \in Nat /\ ds * (k - 1) <= ds * (n - 1) /\ ds * (k - 1) < m
             /\ ds * n = ds * (n - 1) + ds /\ ds * (n - 1) \in Nat
  <2>1. k - 1 \in Nat /\ n - 1 \in Nat /\ k - 1 <= n - 1 /\ (n - 1) + 1 = n
    BY <1>2
  <2>2. /\ ds * (k - 1) \in Nat /\ ds * (n - 1) \in Nat /\ ds * (k - 1) <= ds * (n - 1)
        /\ ds * ((n - 1) + 1) = ds * (n - 1) + ds
    BY <2>1, StepsAre
  <2>3. ds * n = ds * (n - 1) + ds
    BY <2>1, <2>2
  <2>4. ds * (n - 1) < m
    BY <1>2, <2>2, <2>3
  <2> QED
    BY <2>2, <2>3, <2>4
<1>4. ASSUME NEW k \in 1..n
      PROVE  Row(a, 1, 0, 1, m)[ds * (k - 1) + 1] = <<a + ds * (k - 1) + 0, From(a + ds * (k - 1), 1)>>
  <2> DEFINE b == ds * (k - 1)
  <2>1. b \in Nat /\ b < m
    BY <1>3
  <2> HIDE DEF b
  <2>2. b + 1 \in 1..m /\ 1 * (b + 1 - 1) = b
    BY <2>1
  <2>3. ASSUME NEW i \in 1..m PROVE Row(a, 1, 0, 1, m)[i] = <<a + (i - 1) + 0, From(a + (i - 1), 1)>>
    <3>1. Row(a, 1, 0, 1, m)[i] = <<a + 1 * (i - 1) + 0, From(a + 1 * (i - 1), 1)>>
      BY DEF Row
    <3>2. 1 * (i - 1) = i - 1
      OBVIOUS
    <3> QED
      BY <3>1, <3>2
  <2>4. Row(a, 1, 0, 1, m)[b + 1] = <<a + b + 0, From(a + b, 1)>>
    <3>1. (b + 1) - 1 = b
      BY <2>1
    <3> QED
      BY <2>2, <2>3, <3>1
  <2> QED
    BY <2>4 DEF b
<1>5. C!Downsample(ds, x) = Row(a, ds, 0, 1, n)
  BY <1>1, <1>4 DEF Row
<1>6. n = 0 => m < ds
  BY <1>0, <1>2
<1>7. n # 0 => /\ ds * (n - 1) + 1 <= m
               /\ (m - 1) - (ds * (n - 1) + 0) <= 2 * (ds - 1) - (ds \div 2)
  <2> SUFFICES ASSUME n # 0
               PROVE  /\ ds * (n - 1) + 1 <= m
                      /\ (m - 1) - (ds * (n - 1) + 0) <= 2 * (ds - 1) - (ds \div 2)
    OBVIOUS
  <2> DEFINE b == ds * (n - 1)
  <2>1. n \in 1..n
    BY <1>2
  <2>2. b \in Nat /\ b < m /\ ds * n = b + ds
    BY <1>3, <2>1
  <2>3. m + ds - 1 < b + ds + ds
    BY <1>2, <2>2
  <2>4. ds \div 2 \in Nat /\ ds \div 2 <= ds - 1
    BY HalfIs
  <2> HIDE DEF b
  <2>5. /\ b + 1 <= m
        /\ (m - 1) - (b + 0) <= 2 * (ds - 1) - (ds \div 2)
    BY <2>2, <2>3, <2>4
  <2> QED
    BY <2>5 DEF b
<1>8. RowOf(C!Downsample(ds, x), a, m, ds, ds, 0, 1, n)
  BY <1>0, <1>5, <1>6, <1>7 DEF RowOf
<1> QED
  BY <1>2, <1>8 DEF n, x

\* blocks of ds samples
LEMMA BlocksRow ==
  ASSUME NEW a \in Nat, NEW m \in Nat, NEW ds \in Nat \ {0},
         ~C!Returns(ds), Method # "subsample"
  PROVE  LET n == m \div ds
         IN n \in Nat /\ RowOf(C!Downsample(ds, From(a, m)), a, m, ds, ds, ds \div 2, ds, n)
<1> DEFINE x == From(a, m)
           n == m \div ds
           h == ds \div 2
<1>0. 1 < ds /\ Len(x) = m
  BY FromIs DEF C!Returns
<1>1. C!Downsample(ds, x) =
        [k \in 1..n |-> <<x[ds * (k - 1) + h + 1], SubSeq(x, ds * (k - 1) + 1, ds * k)>>]
  BY <1>0 DEF C!Downsample
<1>2. n \in Nat /\ ds * n <= m /\ m < ds * n + ds
  BY WholeIs
<1>3. h \in Nat /\ h <= ds - 1 /\ h < ds
  BY HalfIs
<1> HIDE DEF n, h
<1>4. ASSUME NEW k \in 1..n
      PROVE  /\ ds * (k - 1) \in Nat /\ ds * k = ds * (k - 1) + ds /\ ds * k <= m
             /\ <<x[ds * (k - 1) + h + 1], SubSeq(x, ds * (k - 1) + 1, ds * k)>> =
                <<a + ds * (k - 1) + h, From(a + ds * (k - 1), ds)>>
  <2> DEFINE b == ds * (k - 1)
  <2>1. k - 1 \in Nat /\ (k - 1) + 1 = k /\ k <= n /\ k \in Nat
    BY <1>2
  <2>2. b \in Nat /\ ds * ((k - 1) + 1) = b + ds /\ ds * k <= ds * n
    BY <1>2, <2>1, StepsAre
  <2>3. ds * k = b + ds
    BY <2>1, <2>2
  <2> HIDE DEF b, x
  <2>4. b + ds <= m /\ b + h + 1 \in 1..m /\ b + 1 \in 1..m /\ b + ds \in 1..m /\ b + 1 <= b + ds
    BY <1>2, <1>3, <2>2, <2>3
  <2>5. x[b + h + 1] = a + (b + h + 1) - 1
    BY <2>4, FromIs DEF x
  <2>6. SubSeq(x, b + 1, b + ds) = From(a + (b + 1) - 1, (b + ds) - (b + 1) + 1)
    BY <2>4, PieceIs DEF x
  <2>7. a + (b + h + 1) - 1 = a + b + h /\ a + (b + 1) - 1 = a + b /\ (b + ds) - (b + 1) + 1 = ds
    BY <1>3, <2>2
  <2>8. <<x[b + h + 1], SubSeq(x, b + 1, b + ds)>> = <<a + b + h, From(a + b, ds)>>
    BY <2>5, <2>6, <2>7
  <2> QED
    BY <2>2, <2>3, <2>4, <2>8 DEF b
<1>5. C!Downsample(ds, x) = Row(a, ds, h, ds, n)
  BY <1>1, <1>4 DEF Row
<1>6. n = 0 => m < ds
  BY <1>2
<1>7. n # 0 => /\ ds * (n - 1) + ds <= m
               /\ (m - 1) - (ds * (n - 1) + h) <= 2 * (ds - 1) - h
  <2> SUFFICES ASSUME n # 0
               PROVE  /\ ds * (n - 1) + ds <= m
                      /\ (m - 1) - (ds * (n - 1) + h) <= 2 * (ds - 1) - h
    OBVIOUS
  <2> DEFINE b == ds * (n - 1)
  <2>1. n \in 1..n
    BY <1>2
  <2>2. b \in Nat /\ ds * n = b + ds
    BY <1>4, <2>1
  <2> HIDE DEF b
  <2>3. b + ds <= m /\ (m - 1) - (b + h) <= 2 * (ds - 1) - h
    BY <1>2, <1>3, <2>2
  <2> QED
    BY <2>3 DEF b
<1>8. RowOf(C!Downsample(ds, x), a, m, ds, ds, h, ds, n)
  BY <1>0, <1>3, <1>5, <1>6, <1>7 DEF RowOf, h
<1> QED
  BY <1>2, <1>8 DEF n, x, h

LEMMA DownsampleRow ==
  ASSUME NEW a \in Nat, NEW m \in Nat, NEW ds \in Nat \ {0}
  PROVE  \E s \in Nat \ {0}, o \in Nat, l \in Nat, n \in Nat :
           RowOf(C!Downsample(ds, From(a, m)), a, m, ds, s, o, l, n)
<1> DEFINE d == C!Downsample(ds, From(a, m))
           Is(s, o, l, n) == RowOf(d, a, m, ds, s, o, l, n)
<1>1. CASE C!Returns(ds)
  <2>1. d = C!Raw(From(a, m))
    <3> DEFINE x == From(a, m)
    <3> HIDE DEF x
    <3>1. C!Downsample(ds, x) = C!Raw(x)
      BY <1>1 DEF C!Downsample
    <3> QED
      BY <3>1 DEF x
  <2>2. Is(1, 0, 1, m)
    BY <1>1, <2>1, RawRow
  <2> QED
    BY <2>2
<1>2. CASE ~C!Returns(ds) /\ Method = "subsample"
  <2> DEFINE n == (m + ds - 1) \div ds
  <2>1. n \in Nat /\ Is(ds, 0, 1, n)
    BY <1>2, SubsampleRow
  <2> HIDE DEF n
  <2> QED
    BY <2>1
<1>3. CASE ~C!Returns(ds) /\ Method # "subsample"
  <2> DEFINE n == m \div ds
             h == ds \div 2
  <2>1. n \in Nat /\ Is(ds, h, ds, n)
    BY <1>3, BlocksRow
  <2>2. h \in Nat
    BY HalfIs
  <2> HIDE DEF n, h
  <2> QED
    BY <2>1, <2>2
<1> QED
  BY <1>1, <1>2, <1>3

LEMMA SeqWider ==
  ASSUME NEW U, NEW O, U \subseteq O
  PROVE  Seq(U) \subseteq Seq(O)
OBVIOUS

LEMMA DownsampleIs ==
  ASSUME NEW a \in Nat, NEW m \in Nat, NEW ds \in Nat \ {0}, NEW k \in Nat, k = a + m
  PROVE  LET d == C!Downsample(ds, From(a, m))
         IN /\ d \in Seq((a..(k - 1)) \X Seq(a..(k - 1)))
            /\ Method # "subsample" /\ d # <<>> =>
                 \A t \in a..(k - 1) : t <= d[Len(d)][1] =>
                   \E i \in 1..Len(d) : t \in C!ToSet(d[i][2])
            /\ (d = <<>> => m < ds)
            /\ (d # <<>> => (k - 1) - d[Len(d)][1] <= 2 * (ds - 1) - (ds \div 2))
<1> DEFINE d == C!Downsample(ds, From(a, m))
<1>1. PICK s \in Nat \ {0}, o \in Nat, l \in Nat, n \in Nat : RowOf(d, a, m, ds, s, o, l, n)
  BY DownsampleRow
<1> HIDE DEF d
<1> DEFINE b == s * (n - 1)
<1>2. /\ d = Row(a, s, o, l, n) /\ o < l /\ (n = 0 \/ b + l <= m)
      /\ (Method # "subsample" => l = s)
      /\ (n = 0 => m < ds)
      /\ (n # 0 => (m - 1) - (b + o) <= 2 * (ds - 1) - (ds \div 2))
  BY <1>1 DEF RowOf
<1>3. /\ d \in Seq((a..(a + m - 1)) \X Seq(a..(a + m - 1)))
      /\ Len(d) = n /\ (d = <<>> <=> n = 0)
      /\ n # 0 => d[n][1] = a + b + o
      /\ l = s => \A t \in a..(a + m - 1) :
           n # 0 /\ t <= a + b + o => \E i \in 1..n : t \in C!ToSet(d[i][2])
  <2>0. o < l /\ (n = 0 \/ b + l <= m)
    BY <1>2
  <2>1. RowWell(Row(a, s, o, l, n), a, m, s, o, l, n)
    BY <2>0, RowIs
  <2>2. RowWell(d, a, m, s, o, l, n)
    BY <1>2, <2>1
  <2> QED
    BY <2>2 DEF RowWell
<1>4. n # 0 => b \in Nat
  <2> SUFFICES ASSUME n # 0 PROVE b \in Nat
    OBVIOUS
  <2>1. n - 1 \in Nat
    OBVIOUS
  <2> QED
    BY <2>1, StepsAre
<1>5. ds \div 2 \in Nat
  BY HalfIs
<1> HIDE DEF b
<1>6. a + m - 1 = k - 1
  OBVIOUS
<1>7. d # <<>> => (k - 1) - d[Len(d)][1] <= 2 * (ds - 1) - (ds \div 2)
  <2> SUFFICES ASSUME n # 0 PROVE (k - 1) - d[n][1] <= 2 * (ds - 1) - (ds \div 2)
    BY <1>3
  <2>1. (k - 1) - (a + b + o) = (m - 1) - (b + o)
    BY <1>4
  <2> QED
    BY <1>2, <1>3, <2>1
<1>8. Method # "subsample" /\ d # <<>> =>
        \A t \in a..(k - 1) : t <= d[Len(d)][1] =>
          \E i \in 1..Len(d) : t \in C!ToSet(d[i][2])
  BY <1>2, <1>3, <1>6
<1> QED
  BY <1>2, <1>3, <1>6, <1>7, <1>8 DEF d

-----------------------------------------------------------------------------
(* PlotChart: the inductive invariant.                                     *)

\* the points of a drawing of the times before k: from its last point back it passes
\* over none
Covering(pts, k) ==
  /\ pts \in Seq((0..(k - 1)) \X Seq(0..(k - 1)))
  /\ Method # "subsample" /\ pts # <<>> =>
       \A t \in 0..(k - 1) : t <= pts[Len(pts)][1] =>
         \E i \in 1..Len(pts) : t \in C!ToSet(pts[i][2])

\* what the last point leaves is an unfinished block and the rest of its own
UpToDate(pts, k, ds) ==
  /\ (ds <= k => pts # <<>>)
  /\ (pts # <<>> => (k - 1) - pts[Len(pts)][1] <= 2 * (ds - 1) - (ds \div 2))

Caches == [ds : 0..MaxStep, pts : Seq(C!Points), alias : BOOLEAN]

\* a cache of k samples; it may be the list of the buffer
CacheWell(c, k) ==
  /\ c \in Caches /\ Covering(c.pts, k)
  /\ c.alias => c.pts = <<>> /\ C!Returns(c.ds)

CurvesWell ==
  /\ curves \in Seq(CurveNames) /\ C!IsInjective(curves) /\ moving \in BOOLEAN
  /\ drawn \in [CurveNames -> Seq(C!Points)]
  /\ \A n \in CurveNames : n \notin C!ToSet(curves) => cache[n] = C!NoCache /\ drawn[n] = <<>>

RecordedWell ==
  /\ received \in [CurveNames -> 0..MaxLen]
  /\ buf = [n \in CurveNames |-> From(0, received[n])]
  /\ cache \in [CurveNames -> Caches]
  /\ \A n \in CurveNames : CacheWell(cache[n], received[n])

ChartIInv == CurvesWell /\ RecordedWell /\ crash \in {"none", "IndexError"}

ChartHyp == C!ChartAssumption /\ Ties = FALSE /\ Restarts = FALSE

LEMMA CoveringTyped ==
  ASSUME C!ChartAssumption, NEW k \in 0..MaxLen, NEW pts, Covering(pts, k)
  PROVE  pts \in Seq(C!Points)
<1>1. (0..(k - 1)) \subseteq C!Times
  BY DEF C!ChartAssumption, C!Times
<1>2. Seq(0..(k - 1)) \subseteq Seq(C!Times)
  BY <1>1
<1>3. (0..(k - 1)) \X Seq(0..(k - 1)) \subseteq C!Points
  BY <1>1, <1>2 DEF C!Points
<1> QED
  BY <1>3 DEF Covering

LEMMA CoveringMore ==
  ASSUME NEW k \in Nat, NEW pts, Covering(pts, k)
  PROVE  Covering(pts, k + 1)
<1> DEFINE B(j) == (0..(j - 1)) \X Seq(0..(j - 1))
<1>0. pts \in Seq(B(k))
  BY DEF Covering
<1>1. (0..(k - 1)) \subseteq 0..((k + 1) - 1)
  OBVIOUS
<1>2. Seq(0..(k - 1)) \subseteq Seq(0..((k + 1) - 1))
  BY <1>1
<1>3. B(k) \subseteq B(k + 1)
  BY <1>1, <1>2
<1>4. pts \in Seq(B(k + 1))
  BY <1>0, <1>3
<1>5. pts # <<>> => pts[Len(pts)][1] \in 0..(k - 1)
  <2> SUFFICES ASSUME pts # <<>> PROVE pts[Len(pts)][1] \in 0..(k - 1)
    OBVIOUS
  <2> HIDE DEF B
  <2>1. pts[Len(pts)] \in B(k)
    BY <1>0
  <2> QED
    BY <2>1 DEF B
<1>6. ASSUME Method # "subsample", pts # <<>>, NEW t \in 0..((k + 1) - 1), t <= pts[Len(pts)][1]
      PROVE  \E i \in 1..Len(pts) : t \in C!ToSet(pts[i][2])
  <2>1. t \in 0..(k - 1)
    BY <1>5, <1>6
  <2> QED
    BY <1>6, <2>1 DEF Covering
<1> QED
  BY <1>4, <1>6 DEF Covering

LEMMA CoveringNone ==
  ASSUME NEW k
  PROVE  Covering(<<>>, k)
BY DEF Covering

LEMMA DownsampleCovers ==
  ASSUME NEW k \in Nat, NEW ds \in Nat \ {0}
  PROVE  LET d == C!Downsample(ds, From(0, k))
         IN Covering(d, k) /\ UpToDate(d, k, ds)
<1> DEFINE d == C!Downsample(ds, From(0, k))
<1>1. /\ d \in Seq((0..(k - 1)) \X Seq(0..(k - 1)))
      /\ Method # "subsample" /\ d # <<>> =>
           \A t \in 0..(k - 1) : t <= d[Len(d)][1] =>
             \E i \in 1..Len(d) : t \in C!ToSet(d[i][2])
      /\ (d = <<>> => k < ds)
      /\ (d # <<>> => (k - 1) - d[Len(d)][1] <= 2 * (ds - 1) - (ds \div 2))
  <2>1. k = 0 + k /\ 0 \in Nat
    OBVIOUS
  <2> QED
    BY <2>1, DownsampleIs
<1> HIDE DEF d
<1>2. Covering(d, k)
  BY <1>1 DEF Covering
<1>3. UpToDate(d, k, ds)
  BY <1>1 DEF UpToDate
<1> QED
  BY <1>2, <1>3 DEF d

\* A cached curve that goes on with the samples after its last one.
LEMMA CoveringOn ==
  ASSUME NEW k \in Nat, NEW ds \in Nat \ {0}, NEW c, Covering(c, k), c # <<>>
  PROVE  LET last == c[Len(c)][1]
             d == C!Downsample(ds, From(last + 1, k - (last + 1)))
         IN last \in 0..(k - 1) /\ Covering(c \o d, k) /\ UpToDate(c \o d, k, ds)
<1> DEFINE last == c[Len(c)][1]
           d == C!Downsample(ds, From(last + 1, k - (last + 1)))
           B == (0..(k - 1)) \X Seq(0..(k - 1))
           cd == c \o d
<1>1. c \in Seq(B) /\ Len(c) \in Nat \ {0} /\ \A i \in 1..Len(c) : c[i] \in B
  BY DEF Covering
<1>2. last \in 0..(k - 1)
  <2> HIDE DEF B
  <2>1. c[Len(c)] \in B
    BY <1>1
  <2> QED
    BY <2>1 DEF B
<1>3. /\ Method # "subsample" => \A t \in 0..(k - 1) : t <= last =>
           \E i \in 1..Len(c) : t \in C!ToSet(c[i][2])
  BY DEF Covering
<1> HIDE DEF last
<1>4. /\ last + 1 \in Nat /\ k - (last + 1) \in Nat /\ k = (last + 1) + (k - (last + 1))
      /\ last \in Int
  BY <1>2
<1>5. /\ d \in Seq(((last + 1)..(k - 1)) \X Seq((last + 1)..(k - 1)))
      /\ Method # "subsample" /\ d # <<>> =>
           \A t \in (last + 1)..(k - 1) : t <= d[Len(d)][1] =>
             \E i \in 1..Len(d) : t \in C!ToSet(d[i][2])
      /\ (d = <<>> => k - (last + 1) < ds)
      /\ (d # <<>> => (k - 1) - d[Len(d)][1] <= 2 * (ds - 1) - (ds \div 2))
  BY <1>4, DownsampleIs
<1> HIDE DEF d
<1>6. d \in Seq(B)
  <2>1. (last + 1)..(k - 1) \subseteq 0..(k - 1)
    BY <1>4
  <2>2. Seq((last + 1)..(k - 1)) \subseteq Seq(0..(k - 1))
    <3> DEFINE U == (last + 1)..(k - 1)
               O == 0..(k - 1)
    <3>1. U \subseteq O
      BY <2>1
    <3> HIDE DEF U, O
    <3>2. Seq(U) \subseteq Seq(O)
      BY <3>1, SeqWider
    <3> QED
      BY <3>2 DEF U, O
  <2>3. ((last + 1)..(k - 1)) \X Seq((last + 1)..(k - 1)) \subseteq B
    BY <2>1, <2>2
  <2> HIDE DEF B
  <2> QED
    BY <1>5, <2>3
<1>7. /\ cd \in Seq(B) /\ Len(cd) = Len(c) + Len(d) /\ Len(d) \in Nat
      /\ \A i \in 1..Len(c) : cd[i] = c[i]
      /\ \A i \in 1..Len(d) : cd[Len(c) + i] = d[i]
  <2> HIDE DEF B
  <2>1. /\ cd \in Seq(B) /\ Len(cd) = Len(c) + Len(d) /\ Len(d) \in Nat
    BY <1>1, <1>6
  <2>2. \A i \in 1..Len(cd) : cd[i] = IF i <= Len(c) THEN c[i] ELSE d[i - Len(c)]
    BY <1>1, <1>6, ConcatProperties
  <2>3. \A i \in 1..Len(d) : /\ Len(c) + i \in 1..Len(cd) /\ ~(Len(c) + i <= Len(c))
                             /\ Len(c) + i - Len(c) = i
    BY <1>1, <2>1
  <2> QED
    BY <1>1, <2>1, <2>2, <2>3
<1>8. d = <<>> => cd = c
  BY <1>1
<1>9. cd # <<>>
  BY <1>1, <1>7
<1>10. d # <<>> => /\ Len(d) \in 1..Len(d) /\ cd[Len(cd)] = d[Len(d)]
                   /\ d[Len(d)][1] \in 0..(k - 1)
  <2> SUFFICES ASSUME d # <<>>
               PROVE  /\ Len(d) \in 1..Len(d) /\ cd[Len(cd)] = d[Len(d)]
                      /\ d[Len(d)][1] \in 0..(k - 1)
    OBVIOUS
  <2> HIDE DEF B, cd
  <2>1. Len(d) \in 1..Len(d) /\ d[Len(d)] \in B
    BY <1>6
  <2>2. d[Len(d)][1] \in 0..(k - 1)
    BY <2>1 DEF B
  <2> QED
    BY <1>7, <2>1, <2>2
<1> HIDE DEF cd, B
<1>11. ASSUME Method # "subsample", NEW t \in 0..(k - 1), t <= cd[Len(cd)][1]
       PROVE  \E i \in 1..Len(cd) : t \in C!ToSet(cd[i][2])
  <2>1. CASE t <= last
    <3>1. PICK i \in 1..Len(c) : t \in C!ToSet(c[i][2])
      BY <1>3, <1>11, <2>1
    <3>2. i \in 1..Len(cd) /\ cd[i] = c[i]
      BY <1>1, <1>7
    <3> QED
      BY <3>1, <3>2
  <2>2. CASE last < t
    <3>1. d # <<>>
      BY <1>4, <1>8, <1>11, <2>2 DEF last
    <3>2. t \in (last + 1)..(k - 1) /\ t <= d[Len(d)][1]
      BY <1>4, <1>10, <1>11, <2>2, <3>1
    <3>3. PICK i \in 1..Len(d) : t \in C!ToSet(d[i][2])
      BY <1>5, <1>11, <3>1, <3>2
    <3>4. Len(c) + i \in 1..Len(cd) /\ cd[Len(c) + i] = d[i]
      BY <1>1, <1>7
    <3> QED
      BY <3>3, <3>4
  <2> QED
    BY <1>4, <2>1, <2>2
<1>12. Covering(cd, k)
  BY <1>7, <1>11 DEF Covering, B
<1>13. (k - 1) - cd[Len(cd)][1] <= 2 * (ds - 1) - (ds \div 2)
  <2>1. CASE d # <<>>
    BY <1>5, <1>10, <2>1
  <2>2. CASE d = <<>>
    <3>1. cd[Len(cd)][1] = last /\ k - (last + 1) < ds
      BY <1>5, <1>8, <2>2 DEF last
    <3>2. ds \div 2 \in Nat /\ ds \div 2 <= ds - 1
      BY HalfIs
    <3> QED
      BY <1>4, <3>1, <3>2
  <2> QED
    BY <2>1, <2>2
<1>14. UpToDate(cd, k, ds)
  BY <1>9, <1>13 DEF UpToDate
<1> QED
  BY <1>2, <1>12, <1>14 DEF cd, d, last

-----------------------------------------------------------------------------
(* PlotChart: one curve.                                                   *)

LEMMA BufIs ==
  ASSUME ChartHyp, RecordedWell, NEW n \in CurveNames
  PROVE  /\ received[n] \in Nat /\ received[n] \in 0..MaxLen /\ MaxLen \in Nat
         /\ buf[n] = From(0, received[n])
         /\ Len(buf[n]) = received[n] /\ (buf[n] = <<>> <=> received[n] = 0)
         /\ cache[n] \in Caches /\ CacheWell(cache[n], received[n])
<1>1. received[n] \in 0..MaxLen /\ MaxLen \in Nat /\ buf[n] = From(0, received[n])
  BY DEF RecordedWell, ChartHyp, C!ChartAssumption
<1>2. received[n] \in Nat
  BY <1>1
<1>3. Len(buf[n]) = received[n] /\ (buf[n] = <<>> <=> received[n] = 0)
  <2>1. 0 \in Nat
    OBVIOUS
  <2> QED
    BY <1>1, <1>2, <2>1, FromLen
<1>4. CacheWell(cache[n], received[n])
  BY DEF RecordedWell
<1> QED
  BY <1>1, <1>2, <1>3, <1>4 DEF CacheWell

LEMMA RawCovers ==
  ASSUME NEW k \in Nat
  PROVE  LET r == C!Raw(From(0, k))
         IN Covering(r, k) /\ (k # 0 => r # <<>> /\ r[Len(r)][1] = k - 1)
<1> DEFINE r == C!Raw(From(0, k))
<1>1. C!Downsample(1, From(0, k)) = r
  <2>1. C!Returns(1)
    BY DEF C!Returns
  <2> DEFINE x == From(0, k)
  <2> HIDE DEF x
  <2>2. C!Downsample(1, x) = C!Raw(x)
    BY <2>1 DEF C!Downsample
  <2> QED
    BY <2>2 DEF x
<1>2. Covering(C!Downsample(1, From(0, k)), k)
  BY DownsampleCovers
<1>3. 1 * (k - 1) = k - 1
  OBVIOUS
<1>4. RowWell(Row(0, 1, 0, 1, k), 0, k, 1, 0, 1, k)
  <2>1. 0 \in Nat /\ 1 \in Nat \ {0} /\ 1 \in Nat /\ 0 < 1 /\ (k = 0 \/ 1 * (k - 1) + 1 <= k)
    BY <1>3
  <2> QED
    BY <2>1, RowIs
<1>5. r = Row(0, 1, 0, 1, k)
  BY RawIs
<1>6. RowWell(r, 0, k, 1, 0, 1, k)
  BY <1>4, <1>5
<1> HIDE DEF r
<1>7. Len(r) = k /\ (r = <<>> <=> k = 0) /\ (k # 0 => r[k][1] = 0 + 1 * (k - 1) + 0)
  BY <1>6 DEF RowWell
<1>8. k # 0 => r # <<>> /\ r[Len(r)][1] = k - 1
  BY <1>3, <1>7
<1>9. Covering(r, k)
  BY <1>1, <1>2
<1> QED
  BY <1>8, <1>9 DEF r

LEMMA CachedCovers ==
  ASSUME ChartHyp, RecordedWell, NEW n \in CurveNames
  PROVE  Covering(C!Cached(n), received[n])
<1>1. CASE cache[n].alias
  <2>1. C!Cached(n) = C!Raw(From(0, received[n]))
    BY <1>1, BufIs DEF C!Cached
  <2>2. Covering(C!Raw(From(0, received[n])), received[n])
    BY BufIs, RawCovers
  <2> QED
    BY <2>1, <2>2
<1>2. CASE ~cache[n].alias
  BY <1>2, BufIs DEF C!Cached, CacheWell
<1> QED
  BY <1>1, <1>2

\* The samples that are not in the cache yet: those after its last point, which is
\* one of the buffer, so that the assertion of _cachedsample holds.
LEMMA FreshIs ==
  ASSUME ChartHyp, RecordedWell, NEW n \in CurveNames, NEW ds, C!Cached(n) # <<>>
  PROVE  LET k == received[n]
             last == C!Last1(C!Cached(n))[1]
         IN /\ last \in 0..(k - 1)
            /\ C!BisectLeft(buf[n], last) = last /\ last < Len(buf[n])
            /\ C!AppendFrom(n, ds) = From(last + 1, k - (last + 1))
<1> DEFINE k == received[n]
           c == C!Cached(n)
           last == C!Last1(c)[1]
<1>1. k \in Nat /\ buf[n] = From(0, k) /\ Len(buf[n]) = k
  BY BufIs
<1>2. Covering(c, k) /\ c # <<>> /\ last = c[Len(c)][1]
  BY CachedCovers DEF C!Last1
<1>3. C!AppendFrom(n, ds) = C!Slice(buf[n], C!BisectLeft(buf[n], last) + 1)
  BY DEF C!AppendFrom
<1> HIDE DEF k, c, last
<1>4. last \in 0..(k - 1)
  <2>1. 1 \in Nat \ {0}
    OBVIOUS
  <2> QED
    BY <1>1, <1>2, <2>1, CoveringOn
<1>5. C!BisectLeft(From(0, k), last) = last
  <2>1. last \in Int /\ Cut(last, 0, k) = last
    BY <1>1, <1>4 DEF Cut
  <2> QED
    BY <1>1, <2>1, BisectIs
<1>6. C!Slice(From(0, k), last + 1) = From(last + 1, k - (last + 1))
  <2>1. last + 1 \in 0..k /\ 0 + (last + 1) = last + 1 /\ 0 \in Nat
    BY <1>1, <1>4
  <2>2. C!Slice(From(0, k), last + 1) = From(0 + (last + 1), k - (last + 1))
    BY <1>1, <2>1, FromIs
  <2> QED
    BY <2>1, <2>2
<1>7. last < k
  BY <1>1, <1>4
<1> QED
  BY <1>1, <1>3, <1>4, <1>5, <1>6, <1>7 DEF k, c, last

LEMMA RaisesIs ==
  ASSUME ChartHyp, RecordedWell, NEW n \in CurveNames, NEW ds
  PROVE  /\ C!Raises(n, ds) \in {"none", "IndexError"}
         /\ moving => C!Raises(n, ds) = "none"
         /\ ~moving /\ C!Hit(n, ds) /\ C!Raises(n, ds) = "none" => C!Cached(n) # <<>>
<1>1. C!Cached(n) # <<>> => ~(C!BisectLeft(buf[n], C!Last1(C!Cached(n))[1]) >= Len(buf[n]))
  <2> DEFINE last == C!Last1(C!Cached(n))[1]
             k == received[n]
  <2> SUFFICES ASSUME C!Cached(n) # <<>> PROVE ~(C!BisectLeft(buf[n], last) >= Len(buf[n]))
    OBVIOUS
  <2>1. last \in 0..(k - 1) /\ C!BisectLeft(buf[n], last) = last /\ last < Len(buf[n])
    BY FreshIs
  <2>2. k \in Nat /\ Len(buf[n]) = k
    BY BufIs
  <2> HIDE DEF last, k
  <2> QED
    BY <2>1, <2>2
<1> QED
  BY <1>1 DEF C!Raises

\* What updateCurves does for a curve when the window does not move.
LEMMA CurveDrawn ==
  ASSUME ChartHyp, RecordedWell, ~moving, NEW ns, NEW n \in CurveNames,
         NEW ds \in 1..MaxStep, C!Raises(n, ds) = "none"
  PROVE  LET k == received[n]
             c == C!NewCache(ns, n, ds)
             d == C!Drawn(ns, n, ds)
         IN /\ C!NewBuf(n, ds) = buf[n]
            /\ CacheWell(c, k) /\ c.ds = ds
            /\ Covering(d, k) /\ UpToDate(d, k, ds)
<1> DEFINE k == received[n]
           c == C!NewCache(ns, n, ds)
           d == C!Drawn(ns, n, ds)
<1>0. /\ k \in Nat /\ k \in 0..MaxLen /\ buf[n] = From(0, k)
      /\ cache[n] \in Caches /\ CacheWell(cache[n], k)
      /\ ds \in Nat \ {0} /\ ds \in 0..MaxStep
  <2>1. ds \in Nat \ {0} /\ ds \in 0..MaxStep
    BY DEF ChartHyp, C!ChartAssumption
  <2> QED
    BY <2>1, BufIs
<1>1. CASE C!Hit(n, ds)
  <2> DEFINE p == C!Cached(n)
             last == p[Len(p)][1]
             e == C!Downsample(ds, From(last + 1, k - (last + 1)))
  <2>1. p # <<>> /\ Covering(p, k) /\ cache[n].ds = ds
    BY <1>1, RaisesIs, CachedCovers DEF C!Hit
  <2>2. C!AppendFrom(n, ds) = From(last + 1, k - (last + 1))
    BY <2>1, FreshIs DEF C!Last1
  <2>3. last \in 0..(k - 1) /\ Covering(p \o e, k) /\ UpToDate(p \o e, k, ds)
    BY <1>0, <2>1, CoveringOn
  <2>4. d = p \o e
    BY <1>1, <2>2 DEF C!Drawn
  <2>5. c = [cache[n] EXCEPT !.pts = IF cache[n].alias THEN <<>> ELSE d]
    BY <1>1 DEF C!NewCache
  <2> HIDE DEF d, c, e
  <2>6. Covering(d, k) /\ UpToDate(d, k, ds) /\ d \in Seq(C!Points)
    BY <1>0, <2>3, <2>4, CoveringTyped DEF ChartHyp
  <2>7. CacheWell(c, k) /\ c.ds = ds
    <3> DEFINE q == IF cache[n].alias THEN <<>> ELSE d
    <3>1. q \in Seq(C!Points) /\ Covering(q, k) /\ (cache[n].alias => q = <<>>)
      BY <2>6, CoveringNone
    <3> HIDE DEF q
    <3>2. c = [cache[n] EXCEPT !.pts = q]
      BY <2>5 DEF q
    <3>3. c \in Caches /\ c.pts = q /\ c.alias = cache[n].alias /\ c.ds = cache[n].ds
      BY <1>0, <3>1, <3>2 DEF Caches
    <3> QED
      BY <1>0, <2>1, <3>1, <3>3 DEF CacheWell
  <2>8. C!NewBuf(n, ds) = buf[n]
    <3>1. CASE cache[n].alias
      <4>1. p = C!Raw(From(0, k))
        BY <1>0, <3>1 DEF C!Cached
      <4>2. k # 0
        BY <1>0, <2>3
      <4>3. last = k - 1
        BY <1>0, <4>1, <4>2, RawCovers
      <4>4. k - (last + 1) = 0 /\ last + 1 = k
        BY <1>0, <4>3
      <4>5. C!AppendFrom(n, ds) = From(k, 0)
        BY <2>2, <4>4
      <4>6. From(k, 0) = <<>>
        BY <1>0, FromLen
      <4>7. buf[n] \in Seq(Int)
        <5>1. 0 \in Nat
          OBVIOUS
        <5> QED
          BY <1>0, <5>1, FromLen
      <4>8. buf[n] \o <<>> = buf[n]
        BY <4>7
      <4> QED
        BY <4>5, <4>6, <4>8 DEF C!NewBuf
    <3>2. CASE ~cache[n].alias
      BY <3>2 DEF C!NewBuf
    <3> QED
      BY <3>1, <3>2
  <2> QED
    BY <2>6, <2>7, <2>8 DEF c, d
<1>2. CASE ~C!Hit(n, ds)
  <2> DEFINE e == C!Downsample(ds, From(0, k))
  <2>1. Covering(e, k) /\ UpToDate(e, k, ds)
    BY <1>0, DownsampleCovers
  <2>2. d = e
    BY <1>0, <1>2 DEF C!Drawn, C!Visible
  <2>3. c = [ds |-> ds, alias |-> C!Returns(ds),
             pts |-> IF C!Returns(ds) THEN <<>> ELSE C!Downsample(ds, buf[n])]
    BY <1>2 DEF C!NewCache
  <2>4. C!NewBuf(n, ds) = buf[n]
    BY <1>2 DEF C!NewBuf
  <2> DEFINE q == IF C!Returns(ds) THEN <<>> ELSE e
             al == C!Returns(ds)
  <2>5. q \in Seq(C!Points) /\ Covering(q, k) /\ (al => q = <<>>) /\ al \in BOOLEAN
    <3>1. e \in Seq(C!Points)
      BY <1>0, <2>1, CoveringTyped DEF ChartHyp
    <3> HIDE DEF e
    <3> QED
      BY <2>1, <3>1, CoveringNone DEF C!Returns
  <2>6. c = [ds |-> ds, alias |-> al, pts |-> q]
    BY <1>0, <2>3
  <2>7. al => C!Returns(ds)
    OBVIOUS
  <2> HIDE DEF c, d, e, q, al
  <2>8. c \in Caches /\ c.pts = q /\ c.alias = al /\ c.ds = ds
    BY <1>0, <2>5, <2>6 DEF Caches
  <2>9. CacheWell(c, k)
    BY <2>5, <2>7, <2>8 DEF CacheWell
  <2> QED
    BY <2>1, <2>2, <2>4, <2>8, <2>9 DEF c, d
<1> QED
  BY <1>1, <1>2

-----------------------------------------------------------------------------
(* PlotChart: the moving window.                                           *)

LEMMA MostIs ==
  ASSUME NEW top \in Nat, NEW T, T \subseteq 0..top, T # {}
  PROVE  C!MaxOf(T) \in T /\ \A t \in T : t <= C!MaxOf(T)
<1> DEFINE O == {top - t : t \in T}
<1>1. O \subseteq Nat /\ O # {}
  <2>1. \A t \in T : t \in 0..top
    OBVIOUS
  <2>2. \A t \in T : top - t \in Nat
    BY <2>1
  <2> QED
    BY <2>2
<1>2. PICK x \in O : \A y \in O : x <= y
  <2> HIDE DEF O
  <2> QED
    BY <1>1, LeastIs
<1>3. PICK m \in T : x = top - m
  OBVIOUS
<1>4. \A t \in T : t <= m
  <2> SUFFICES ASSUME NEW t \in T PROVE t <= m
    OBVIOUS
  <2>1. top - t \in O
    OBVIOUS
  <2>2. top - m <= top - t
    BY <1>2, <1>3, <2>1
  <2>3. t \in Int /\ m \in Int
    OBVIOUS
  <2> QED
    BY <2>2, <2>3
<1> QED
  BY <1>4 DEF C!MaxOf

LEMMA FirstXIs ==
  ASSUME ChartHyp, RecordedWell, NEW ns \in SUBSET CurveNames, \E m \in ns : buf[m] # <<>>
  PROVE  C!FirstX(ns) \in Int
<1> DEFINE T == {C!Last1(buf[n]) : n \in {m \in ns : buf[m] # <<>>}}
<1>1. ASSUME NEW n \in ns, buf[n] # <<>> PROVE C!Last1(buf[n]) \in 0..MaxLen
  <2> DEFINE k == received[n]
  <2>0. n \in CurveNames
    OBVIOUS
  <2>1. k \in Nat /\ k \in 0..MaxLen /\ buf[n] = From(0, k) /\ Len(buf[n]) = k /\ k # 0
        /\ MaxLen \in Nat
    BY <1>1, <2>0, BufIs
  <2> HIDE DEF k
  <2>2. k \in 1..k
    BY <2>1
  <2>3. From(0, k)[k] = 0 + k - 1
    BY <2>1, <2>2, FromIs
  <2> QED
    BY <2>1, <2>3 DEF C!Last1
<1>2. T \subseteq 0..MaxLen /\ T # {}
  BY <1>1
<1>3. MaxLen \in Nat /\ Width \in Nat
  BY DEF ChartHyp, C!ChartAssumption
<1>4. C!MaxOf(T) \in 0..MaxLen
  <2> HIDE DEF T
  <2> QED
    BY <1>2, <1>3, MostIs
<1>5. C!FirstX(ns) = C!MaxOf(T) - Width
  BY DEF C!FirstX
<1> HIDE DEF T
<1> QED
  BY <1>3, <1>4, <1>5

\* What updateCurves does for a curve when the window moves.
LEMMA CurveMoving ==
  ASSUME ChartHyp, RecordedWell, moving, NEW ns \in SUBSET CurveNames,
         \E m \in ns : buf[m] # <<>>, NEW n \in CurveNames, NEW ds \in 1..MaxStep
  PROVE  LET k == received[n]
             f == Cut(C!FirstX(ns), 0, k)
         IN /\ C!NewBuf(n, ds) = buf[n] /\ C!NewCache(ns, n, ds) = cache[n]
            /\ f \in 0..k /\ C!Window(ns, n) = From(f, k - f)
            /\ C!Drawn(ns, n, ds) = C!Downsample(ds, From(f, k - f))
            /\ C!Drawn(ns, n, ds) \in Seq(C!Points)
<1> DEFINE k == received[n]
           x == C!FirstX(ns)
           f == Cut(x, 0, k)
           d == C!Downsample(ds, From(f, k - f))
<1>0. k \in Nat /\ k \in 0..MaxLen /\ buf[n] = From(0, k) /\ ds \in Nat \ {0} /\ MaxLen \in Nat
  <2>1. ds \in Nat \ {0}
    BY DEF ChartHyp, C!ChartAssumption
  <2> QED
    BY <2>1, BufIs
<1>1. x \in Int
  BY FirstXIs
<1>2. C!NewBuf(n, ds) = buf[n] /\ C!NewCache(ns, n, ds) = cache[n]
  BY DEF C!NewBuf, C!NewCache
<1>3. C!BisectLeft(From(0, k), x) = f
  <2> HIDE DEF k, x
  <2> QED
    BY <1>0, <1>1, BisectIs DEF f
<1>4. f \in 0..k
  <2> HIDE DEF k, x
  <2> QED
    BY <1>0, <1>1 DEF Cut
<1>5. C!Window(ns, n) = C!Slice(From(0, k), f)
  BY <1>0, <1>3 DEF C!Window
<1> HIDE DEF k, x, f
<1>6. C!Slice(From(0, k), f) = From(f, k - f)
  <2>1. 0 \in Nat /\ 0 + f = f
    BY <1>0, <1>4
  <2>2. C!Slice(From(0, k), f) = From(0 + f, k - f)
    BY <1>0, <1>4, <2>1, FromIs
  <2> QED
    BY <2>1, <2>2
<1>7. C!Drawn(ns, n, ds) = d
  BY <1>5, <1>6 DEF C!Drawn, C!Visible
<1>8. d \in Seq((f..(k - 1)) \X Seq(f..(k - 1)))
  <2>1. f \in Nat /\ k - f \in Nat /\ k = f + (k - f)
    BY <1>0, <1>4
  <2> QED
    BY <1>0, <2>1, DownsampleIs
<1>9. d \in Seq(C!Points)
  <2> DEFINE O == f..(k - 1)
  <2>1. O \subseteq C!Times
    BY <1>0, <1>4 DEF C!Times
  <2>2. d \in Seq(O \X Seq(O))
    BY <1>8
  <2> HIDE DEF O, d
  <2>3. Seq(O) \subseteq Seq(C!Times)
    BY <2>1, SeqWider
  <2>4. O \X Seq(O) \subseteq C!Points
    BY <2>1, <2>3 DEF C!Points
  <2> QED
    BY <2>2, <2>4, SeqWider
<1> QED
  BY <1>2, <1>4, <1>5, <1>6, <1>7, <1>9 DEF f, k, x

-----------------------------------------------------------------------------
(* PlotChart: updateCurves.                                                *)

\* every curve of "done" has been drawn with its step, the others are as they were
Redrawn(ns, done, step) ==
  /\ done \subseteq ns /\ step \in [ns -> 1..MaxStep] /\ \E n \in ns : buf[n] # <<>>
  /\ \A n \in ns : step[n] \in C!Steps(C!Visible(ns, n))
  /\ \A n \in done : C!Raises(n, step[n]) = "none"
  /\ buf' = [n \in CurveNames |-> IF n \in done THEN C!NewBuf(n, step[n]) ELSE buf[n]]
  /\ cache' = [n \in CurveNames |-> IF n \in done THEN C!NewCache(ns, n, step[n]) ELSE cache[n]]
  /\ drawn' = [n \in CurveNames |-> IF n \in done THEN C!Drawn(ns, n, step[n]) ELSE drawn[n]]
  /\ crash' \in {"none", "IndexError"}
  /\ (crash' = "none" \/ moving => done = ns)

LEMMA UpdateRedraws ==
  ASSUME ChartHyp, RecordedWell, crash \in {"none", "IndexError"},
         NEW order \in Seq(CurveNames), C!UpdateCurves(order)
  PROVE  LET ns == C!ToSet(order)
         IN \/ (\A n \in ns : buf[n] = <<>>) /\ UNCHANGED <<buf, cache, drawn, crash>>
            \/ \E done, step : Redrawn(ns, done, step)
<1> DEFINE ns == C!ToSet(order)
<1>0. /\ ns = {order[i] : i \in 1..Len(order)} /\ Len(order) \in Nat
      /\ \A i \in 1..Len(order) : order[i] \in ns /\ order[i] \in CurveNames
  BY DEF C!ToSet
<1>1. CASE \A n \in ns : buf[n] = <<>>
  BY <1>1 DEF C!UpdateCurves
<1>2. CASE ~\A n \in ns : buf[n] = <<>>
  <2> DEFINE bad(step) == {i \in 1..Len(order) : C!Raises(order[i], step[order[i]]) # "none"}
             upto(step) == IF bad(step) = {} THEN Len(order)
                           ELSE (CHOOSE i \in bad(step) : \A j \in bad(step) : i <= j) - 1
             done(step) == {order[i] : i \in 1..upto(step)}
  <2>1. PICK step \in [ns -> 1..MaxStep] :
          /\ \A n \in ns : step[n] \in C!Steps(C!Visible(ns, n))
          /\ buf' = [n \in CurveNames |->
                       IF n \in done(step) THEN C!NewBuf(n, step[n]) ELSE buf[n]]
          /\ cache' = [n \in CurveNames |->
                         IF n \in done(step) THEN C!NewCache(ns, n, step[n]) ELSE cache[n]]
          /\ drawn' = [n \in CurveNames |->
                         IF n \in done(step) THEN C!Drawn(ns, n, step[n]) ELSE drawn[n]]
          /\ crash' = IF bad(step) = {} THEN "none"
                      ELSE C!Raises(order[upto(step) + 1], step[order[upto(step) + 1]])
    BY Zenon, <1>2 DEF C!UpdateCurves
  <2> DEFINE b == bad(step)
             u == upto(step)
             D == done(step)
  <2>2. \A i \in 1..Len(order) : /\ C!Raises(order[i], step[order[i]]) \in {"none", "IndexError"}
                                 /\ moving => C!Raises(order[i], step[order[i]]) = "none"
    BY <1>0, RaisesIs
  <2>3. CASE b = {}
    <3>1. u = Len(order)
      BY <2>3
    <3>2. D = ns
      BY <1>0, <3>1
    <3>3. \A n \in D : C!Raises(n, step[n]) = "none"
      BY <1>0, <2>3, <3>2
    <3>4. crash' = "none"
      BY <2>1, <2>3
    <3> HIDE DEF D, b, u, ns, bad, upto
    <3>5. Redrawn(ns, D, step)
      BY <1>2, <2>1, <3>2, <3>3, <3>4 DEF Redrawn, D
    <3> QED
      BY <3>5 DEF ns
  <2>4. CASE b # {}
    <3>1. b \subseteq 1..Len(order) /\ ~moving
      BY <2>2, <2>4
    <3>2. PICK m \in b : \A j \in b : m <= j
      <4>1. b \subseteq Nat
        BY <3>1
      <4> HIDE DEF b
      <4> QED
        BY <2>4, <4>1, LeastIs
    <3> DEFINE c == CHOOSE i \in b : \A j \in b : i <= j
    <3>3. c \in b /\ \A j \in b : c <= j
      BY <3>2
    <3>4. u = c - 1
      BY <2>4
    <3> HIDE DEF b, u, c, bad, upto
    <3>5. c \in 1..Len(order) /\ u + 1 = c /\ \A i \in 1..u : i \in 1..Len(order) /\ i \notin b
      <4>1. c \in 1..Len(order)
        BY <3>1, <3>3
      <4>2. \A i \in 1..u : i \in 1..Len(order) /\ ~(c <= i)
        BY <1>0, <3>4, <4>1
      <4> QED
        BY <3>3, <3>4, <4>1, <4>2
    <3>6. D \subseteq ns
      BY <1>0, <3>5 DEF u
    <3>7. \A n \in D : C!Raises(n, step[n]) = "none"
      BY <1>0, <3>5 DEF b, u, bad
    <3>8. crash' = "IndexError"
      <4>1. crash' = C!Raises(order[u + 1], step[order[u + 1]])
        BY <2>1, <2>4 DEF u, b
      <4> QED
        BY <2>2, <3>3, <3>5, <4>1 DEF b, bad
    <3> HIDE DEF D, b, u, ns, bad, upto
    <3>9. Redrawn(ns, D, step)
      BY <1>2, <2>1, <3>1, <3>6, <3>7, <3>8 DEF Redrawn, D
    <3> QED
      BY <3>9 DEF ns
  <2> QED
    BY <2>3, <2>4
<1> QED
  BY <1>1, <1>2

LEMMA CurveKept ==
  ASSUME ChartHyp, RecordedWell, NEW ns \in SUBSET CurveNames, NEW done, NEW step,
         Redrawn(ns, done, step), NEW n \in done
  PROVE  /\ n \in CurveNames /\ step[n] \in 1..MaxStep
         /\ C!NewBuf(n, step[n]) = buf[n]
         /\ CacheWell(C!NewCache(ns, n, step[n]), received[n])
         /\ C!Drawn(ns, n, step[n]) \in Seq(C!Points)
<1>1. /\ n \in CurveNames /\ step[n] \in 1..MaxStep /\ C!Raises(n, step[n]) = "none"
      /\ \E m \in ns : buf[m] # <<>>
  BY DEF Redrawn
<1> DEFINE ds == step[n]
<1> HIDE DEF ds
<1>2. ds \in 1..MaxStep /\ C!Raises(n, ds) = "none"
  BY <1>1 DEF ds
<1>3. received[n] \in 0..MaxLen /\ CacheWell(cache[n], received[n])
  BY <1>1, BufIs
<1>4. CASE moving
  BY <1>1, <1>2, <1>3, <1>4, CurveMoving DEF ds
<1>5. CASE ~moving
  <2>1. /\ C!NewBuf(n, ds) = buf[n] /\ CacheWell(C!NewCache(ns, n, ds), received[n])
        /\ Covering(C!Drawn(ns, n, ds), received[n])
    BY <1>1, <1>2, <1>5, CurveDrawn
  <2>2. C!Drawn(ns, n, ds) \in Seq(C!Points)
    BY <1>3, <2>1, CoveringTyped DEF ChartHyp
  <2> QED
    BY <1>1, <2>1, <2>2 DEF ds
<1> QED
  BY <1>4, <1>5

\* Drawing keeps what has been recorded, whichever curves it reaches.
LEMMA UpdateKeeps ==
  ASSUME ChartHyp, RecordedWell, crash \in {"none", "IndexError"},
         drawn \in [CurveNames -> Seq(C!Points)],
         NEW order \in Seq(CurveNames), C!UpdateCurves(order), received' = received
  PROVE  /\ RecordedWell' /\ crash' \in {"none", "IndexError"}
         /\ drawn' \in [CurveNames -> Seq(C!Points)]
         /\ \A n \in CurveNames : n \notin C!ToSet(order) =>
              cache'[n] = cache[n] /\ drawn'[n] = drawn[n]
<1> DEFINE ns == C!ToSet(order)
<1>0. ns \in SUBSET CurveNames
  BY DEF C!ToSet
<1>1. CASE UNCHANGED <<buf, cache, drawn, crash>>
  BY <1>1 DEF RecordedWell
<1>2. ASSUME NEW done, NEW step, Redrawn(ns, done, step)
      PROVE  /\ RecordedWell' /\ crash' \in {"none", "IndexError"}
             /\ drawn' \in [CurveNames -> Seq(C!Points)]
             /\ \A n \in CurveNames : n \notin ns => cache'[n] = cache[n] /\ drawn'[n] = drawn[n]
  <2> HIDE DEF ns
  <2>1. \A n \in done : /\ C!NewBuf(n, step[n]) = buf[n]
                        /\ CacheWell(C!NewCache(ns, n, step[n]), received[n])
                        /\ C!Drawn(ns, n, step[n]) \in Seq(C!Points)
    BY <1>0, <1>2, CurveKept
  <2>2. /\ done \subseteq ns
        /\ buf' = [n \in CurveNames |-> IF n \in done THEN C!NewBuf(n, step[n]) ELSE buf[n]]
        /\ cache' = [n \in CurveNames |->
                       IF n \in done THEN C!NewCache(ns, n, step[n]) ELSE cache[n]]
        /\ drawn' = [n \in CurveNames |->
                       IF n \in done THEN C!Drawn(ns, n, step[n]) ELSE drawn[n]]
        /\ crash' \in {"none", "IndexError"}
    BY <1>2 DEF Redrawn
  <2>3. buf = [n \in CurveNames |-> From(0, received[n])]
    BY DEF RecordedWell
  <2>4. buf' = [n \in CurveNames |-> From(0, received'[n])]
    <3>1. buf' = [n \in CurveNames |-> buf[n]]
      BY <2>1, <2>2
    <3> QED
      BY <2>3, <3>1
  <2>5. \A n \in CurveNames : CacheWell(cache[n], received[n])
    BY DEF RecordedWell
  <2>6. \A n \in CurveNames : CacheWell(cache'[n], received'[n])
    BY <2>1, <2>2, <2>5
  <2>7. RecordedWell'
    <3>1. cache' \in [CurveNames -> Caches]
      BY <2>2, <2>6 DEF CacheWell
    <3> QED
      BY <2>4, <2>6, <3>1 DEF RecordedWell
  <2>8. drawn' \in [CurveNames -> Seq(C!Points)]
    BY <2>1, <2>2
  <2>9. \A n \in CurveNames : n \notin ns => cache'[n] = cache[n] /\ drawn'[n] = drawn[n]
    BY <2>2
  <2> QED
    BY <2>2, <2>7, <2>8, <2>9
<1> QED
  BY <1>1, <1>2, UpdateRedraws

LEMMA NoCacheWell ==
  ASSUME ChartHyp, NEW k
  PROVE  CacheWell(C!NoCache, k)
<1>1. C!NoCache \in Caches /\ C!NoCache.pts = <<>> /\ C!NoCache.alias = FALSE
  BY DEF C!NoCache, Caches, ChartHyp, C!ChartAssumption
<1> QED
  BY <1>1, CoveringNone DEF CacheWell

LEMMA FromGrows ==
  ASSUME NEW k \in Nat
  PROVE  Append(From(0, k), k) = From(0, k + 1)
<1> DEFINE x == From(0, k)
           y == From(0, k + 1)
           z == Append(x, k)
<1>1. /\ x \in Seq(Int) /\ Len(x) = k /\ y \in Seq(Int) /\ Len(y) = k + 1
      /\ \A i \in 1..k : x[i] = 0 + i - 1
      /\ \A i \in 1..(k + 1) : y[i] = 0 + i - 1
  <2>1. 0 \in Nat /\ k + 1 \in Nat
    OBVIOUS
  <2>2. /\ x \in Seq(Int) /\ Len(x) = k
        /\ \A i \in 1..k : x[i] = 0 + i - 1
    BY <2>1, FromIs
  <2>3. /\ y \in Seq(Int) /\ Len(y) = k + 1
        /\ \A i \in 1..(k + 1) : y[i] = 0 + i - 1
    BY <2>1, FromIs
  <2> QED
    BY <2>2, <2>3
<1> HIDE DEF x, y
<1>2. /\ z \in Seq(Int) /\ Len(z) = k + 1 /\ z[k + 1] = k
      /\ \A i \in 1..k : z[i] = x[i]
  BY <1>1
<1> HIDE DEF z
<1>3. \A i \in 1..(k + 1) : z[i] = y[i]
  <2>1. \A i \in 1..(k + 1) : i \in 1..k \/ i = k + 1
    OBVIOUS
  <2> QED
    BY <1>1, <1>2, <2>1
<1>4. z = y
  BY <1>1, <1>2, <1>3
<1> QED
  BY <1>4 DEF x, y, z

\* A frame brings the next time.
LEMMA ValueAdded ==
  ASSUME ChartHyp, ChartIInv, NEW n \in CurveNames, C!AddValue(n)
  PROVE  ChartIInv'
<1> DEFINE k == received[n]
<1>1. /\ k \in Nat /\ k \in 0..MaxLen /\ MaxLen \in Nat /\ buf[n] = From(0, k)
      /\ Len(buf[n]) = k /\ (buf[n] = <<>> <=> k = 0)
  BY BufIs DEF ChartIInv
<1>2. k # 0 => C!Last1(buf[n]) = k - 1
  <2> SUFFICES ASSUME k # 0 PROVE C!Last1(buf[n]) = k - 1
    OBVIOUS
  <2> HIDE DEF k
  <2>1. k \in 1..k /\ 0 \in Nat
    BY <1>1
  <2>2. From(0, k)[k] = 0 + k - 1
    BY <1>1, <2>1, FromIs
  <2> QED
    BY <1>1, <2>2 DEF C!Last1
<1>3. /\ buf' = [buf EXCEPT ![n] = Append(buf[n], k)] /\ k < MaxLen
      /\ received' = [received EXCEPT ![n] = k + 1]
      /\ UNCHANGED <<curves, moving, cache, drawn, crash>>
  <2>1. PICK t \in 0..MaxLen :
          /\ \/ buf[n] = <<>> /\ t = 0
             \/ buf[n] # <<>> /\ t = C!Last1(buf[n]) + 1
             \/ buf[n] # <<>> /\ t = C!Last1(buf[n]) /\ Ties
             \/ t = 0 /\ Restarts
          /\ buf' = [buf EXCEPT ![n] = Append(@, t)]
    BY DEF C!AddValue
  <2>2. t = k
    BY <1>1, <1>2, <2>1 DEF ChartHyp
  <2>3. /\ k < MaxLen /\ received' = [received EXCEPT ![n] = k + 1]
        /\ UNCHANGED <<curves, moving, cache, drawn, crash>>
    BY DEF C!AddValue
  <2> QED
    BY <2>1, <2>2, <2>3
<1>4. Append(buf[n], k) = From(0, k + 1)
  BY <1>1, FromGrows
<1>5. received \in [CurveNames -> 0..MaxLen] /\ buf = [m \in CurveNames |-> From(0, received[m])]
  BY DEF ChartIInv, RecordedWell
<1>6. received' \in [CurveNames -> 0..MaxLen]
  BY <1>1, <1>3, <1>5
<1>7. buf' = [m \in CurveNames |-> From(0, received'[m])]
  <2>1. \A m \in CurveNames : received'[m] = IF m = n THEN k + 1 ELSE received[m]
    BY <1>3, <1>5
  <2>2. buf' = [m \in CurveNames |-> IF m = n THEN From(0, k + 1) ELSE From(0, received[m])]
    BY <1>3, <1>4, <1>5
  <2> QED
    BY <2>1, <2>2
<1>8. \A m \in CurveNames : CacheWell(cache'[m], received'[m])
  <2>1. \A m \in CurveNames : CacheWell(cache[m], received[m])
    BY DEF ChartIInv, RecordedWell
  <2>2. CacheWell(cache[n], k + 1)
    <3>1. CacheWell(cache[n], k) /\ Covering(cache[n].pts, k)
      BY <2>1 DEF CacheWell
    <3>2. Covering(cache[n].pts, k + 1)
      BY <1>1, <3>1, CoveringMore
    <3> QED
      BY <3>1, <3>2 DEF CacheWell
  <2>3. \A m \in CurveNames : received'[m] = IF m = n THEN k + 1 ELSE received[m]
    BY <1>3, <1>5
  <2> QED
    BY <1>3, <2>1, <2>2, <2>3
<1>9. RecordedWell'
  BY <1>3, <1>6, <1>7, <1>8 DEF ChartIInv, RecordedWell
<1>10. CurvesWell' /\ crash' = crash
  BY <1>3 DEF ChartIInv, CurvesWell, C!ToSet
<1> QED
  BY <1>9, <1>10 DEF ChartIInv

LEMMA CurveGone ==
  ASSUME CurvesWell, NEW i \in DOMAIN curves, curves' = C!RemoveAt(curves, i)
  PROVE  /\ curves' \in Seq(CurveNames) /\ C!IsInjective(curves)'
         /\ \A n : n \in C!ToSet(curves) /\ n # curves[i] => n \in C!ToSet(curves')
<1> DEFINE m == Len(curves)
           p == SubSeq(curves, 1, i - 1)
           q == SubSeq(curves, i + 1, m)
           c == p \o q
<1>1. curves \in Seq(CurveNames) /\ m \in Nat /\ DOMAIN curves = 1..m /\ i \in 1..m
  BY DEF CurvesWell
<1>2. \A a, b \in 1..m : curves[a] = curves[b] => a = b
  BY <1>1 DEF CurvesWell, C!IsInjective
<1>3. /\ p \in Seq(CurveNames) /\ Len(p) = i - 1
      /\ \A j \in 1..(i - 1) : p[j] = curves[j]
  <2>1. 1 \in Int /\ i - 1 \in Int /\ \A j \in 1..(i - 1) : curves[j] \in CurveNames
    BY <1>1
  <2>2. /\ p \in Seq(CurveNames) /\ Len(p) = IF 1 <= i - 1 THEN (i - 1) - 1 + 1 ELSE 0
        /\ \A j \in 1..((i - 1) - 1 + 1) : p[j] = curves[1 + j - 1]
    BY <2>1, SubSeqProperties
  <2> HIDE DEF p
  <2>3. \A j \in 1..(i - 1) : 1 + j - 1 = j
    OBVIOUS
  <2> QED
    BY <1>1, <2>2, <2>3
<1>4. /\ q \in Seq(CurveNames) /\ Len(q) = m - i
      /\ \A j \in 1..(m - i) : q[j] = curves[i + j]
  <2>1. i + 1 \in Int /\ m \in Int /\ \A j \in (i + 1)..m : curves[j] \in CurveNames
    BY <1>1
  <2>2. /\ q \in Seq(CurveNames) /\ Len(q) = IF i + 1 <= m THEN m - (i + 1) + 1 ELSE 0
        /\ \A j \in 1..(m - (i + 1) + 1) : q[j] = curves[(i + 1) + j - 1]
    BY <2>1, SubSeqProperties
  <2> HIDE DEF q
  <2>3. \A j \in 1..(m - i) : (i + 1) + j - 1 = i + j
    BY <1>1
  <2> QED
    BY <1>1, <2>2, <2>3
<1> HIDE DEF p, q
<1>5. /\ c \in Seq(CurveNames) /\ Len(c) = m - 1
      /\ \A j \in 1..(m - 1) : c[j] = curves[IF j < i THEN j ELSE j + 1]
  <2>1. /\ c \in Seq(CurveNames) /\ Len(c) = Len(p) + Len(q)
        /\ \A j \in 1..(Len(p) + Len(q)) : c[j] = IF j <= Len(p) THEN p[j] ELSE q[j - Len(p)]
    BY <1>3, <1>4, ConcatProperties
  <2> HIDE DEF c, m
  <2>2. Len(p) + Len(q) = m - 1
    BY <1>1, <1>3, <1>4
  <2>3. ASSUME NEW j \in 1..(m - 1) PROVE c[j] = curves[IF j < i THEN j ELSE j + 1]
    <3>1. CASE j < i
      <4>1. j \in 1..(i - 1) /\ j <= Len(p)
        BY <1>1, <1>3, <3>1
      <4> QED
        BY <1>3, <2>1, <2>2, <3>1, <4>1
    <3>2. CASE ~(j < i)
      <4>1. /\ j - Len(p) \in 1..(m - i) /\ ~(j <= Len(p))
            /\ i + (j - Len(p)) = j + 1
        BY <1>1, <1>3, <3>2
      <4>2. q[j - Len(p)] = curves[j + 1]
        BY <1>4, <4>1
      <4> QED
        BY <2>1, <2>2, <3>2, <4>1, <4>2
    <3> QED
      BY <3>1, <3>2
  <2> QED
    BY <2>1, <2>2, <2>3
<1>6. curves' = c
  BY DEF C!RemoveAt, p, q
<1> HIDE DEF c, m
<1>7. DOMAIN c = 1..(m - 1)
  BY <1>1, <1>5
<1>8. \A a, b \in DOMAIN c : c[a] = c[b] => a = b
  <2> SUFFICES ASSUME NEW a \in 1..(m - 1), NEW b \in 1..(m - 1), c[a] = c[b] PROVE a = b
    BY <1>7
  <2> DEFINE s == IF a < i THEN a ELSE a + 1
             t == IF b < i THEN b ELSE b + 1
  <2>1. s \in 1..m /\ t \in 1..m /\ s # i /\ t # i
    BY <1>1
  <2>2. curves[s] = curves[t]
    BY <1>5
  <2>3. s = t
    BY <1>2, <2>1, <2>2
  <2> QED
    BY <1>1, <2>3
<1>9. ASSUME NEW n \in C!ToSet(curves), n # curves[i] PROVE n \in C!ToSet(c)
  <2>1. PICK j \in 1..m : curves[j] = n
    BY <1>1 DEF C!ToSet
  <2> DEFINE s == IF j < i THEN j ELSE j - 1
  <2>2. j # i
    BY <1>9, <2>1
  <2>3. s \in 1..(m - 1) /\ (IF s < i THEN s ELSE s + 1) = j
    BY <1>1, <2>2
  <2>4. c[s] = n
    BY <1>5, <2>1, <2>3
  <2> HIDE DEF s
  <2> QED
    BY <1>7, <2>3, <2>4 DEF C!ToSet
<1> QED
  BY <1>5, <1>6, <1>8, <1>9 DEF C!IsInjective

LEMMA CurveAdded ==
  ASSUME CurvesWell, NEW n \in CurveNames, n \notin C!ToSet(curves),
         curves' = Append(curves, n)
  PROVE  /\ curves' \in Seq(CurveNames) /\ C!IsInjective(curves)'
         /\ \A m : m \in C!ToSet(curves) \/ m = n => m \in C!ToSet(curves')
<1> DEFINE k == Len(curves)
           c == Append(curves, n)
<1>1. /\ curves \in Seq(CurveNames) /\ k \in Nat /\ DOMAIN curves = 1..k
      /\ \A a, b \in 1..k : curves[a] = curves[b] => a = b
      /\ \A a \in 1..k : curves[a] # n
  <2>1. curves \in Seq(CurveNames) /\ k \in Nat /\ DOMAIN curves = 1..k
    BY DEF CurvesWell
  <2> QED
    BY <2>1 DEF CurvesWell, C!IsInjective, C!ToSet
<1>2. /\ c \in Seq(CurveNames) /\ Len(c) = k + 1 /\ DOMAIN c = 1..(k + 1) /\ c[k + 1] = n
      /\ \A a \in 1..k : c[a] = curves[a]
  BY <1>1
<1> HIDE DEF c, k
<1>3. \A a \in 1..(k + 1) : a \in 1..k \/ a = k + 1
  BY <1>1
<1>4. \A a, b \in 1..(k + 1) : c[a] = c[b] => a = b
  BY <1>1, <1>2, <1>3
<1>5. \A m : m \in C!ToSet(curves) \/ m = n => m \in C!ToSet(c)
  <2>1. \A a \in 1..k : a \in DOMAIN c
    BY <1>1, <1>2
  <2>2. k + 1 \in DOMAIN c
    BY <1>1, <1>2
  <2> QED
    BY <1>1, <1>2, <2>1, <2>2 DEF C!ToSet
<1> QED
  BY <1>2, <1>4, <1>5 DEF c, C!IsInjective

LEMMA ChartStep ==
  ASSUME ChartHyp, ChartIInv, [C!Next]_(C!vars)
  PROVE  ChartIInv'
<1>0. /\ CurvesWell /\ RecordedWell /\ crash \in {"none", "IndexError"}
      /\ curves \in Seq(CurveNames) /\ moving \in BOOLEAN
      /\ drawn \in [CurveNames -> Seq(C!Points)]
      /\ \A n \in CurveNames : n \notin C!ToSet(curves) => cache[n] = C!NoCache /\ drawn[n] = <<>>
  BY DEF ChartIInv, CurvesWell
<1>1. ASSUME NEW n \in CurveNames, C!AddValue(n) PROVE ChartIInv'
  BY <1>1, ValueAdded
<1>2. ASSUME NEW n \in CurveNames, C!AddCurve(n) PROVE ChartIInv'
  <2>1. /\ n \notin C!ToSet(curves) /\ curves' = Append(curves, n)
        /\ received' = received /\ moving' = moving /\ C!UpdateCurves(<<n>>)
    BY <1>2 DEF C!AddCurve
  <2>2. <<n>> \in Seq(CurveNames) /\ C!ToSet(<<n>>) = {n}
    <3>1. <<n>> \in Seq(CurveNames) /\ DOMAIN <<n>> = {1} /\ <<n>>[1] = n
      OBVIOUS
    <3> QED
      BY <3>1 DEF C!ToSet
  <2>3. /\ RecordedWell' /\ crash' \in {"none", "IndexError"}
        /\ drawn' \in [CurveNames -> Seq(C!Points)]
        /\ \A m \in CurveNames : m \notin {n} => cache'[m] = cache[m] /\ drawn'[m] = drawn[m]
    BY <1>0, <2>1, <2>2, UpdateKeeps
  <2>4. /\ curves' \in Seq(CurveNames) /\ C!IsInjective(curves)'
        /\ \A m : m \in C!ToSet(curves) \/ m = n => m \in C!ToSet(curves')
    BY <1>0, <2>1, CurveAdded
  <2>5. CurvesWell'
    BY <1>0, <2>1, <2>3, <2>4 DEF CurvesWell
  <2> QED
    BY <2>3, <2>5 DEF ChartIInv
<1>3. ASSUME NEW n \in CurveNames, C!RemoveCurve(n) PROVE ChartIInv'
  <2>1. PICK i \in DOMAIN curves : curves[i] = n /\ curves' = C!RemoveAt(curves, i)
    BY <1>3 DEF C!RemoveCurve
  <2>2. /\ cache' = [cache EXCEPT ![n] = C!NoCache] /\ drawn' = [drawn EXCEPT ![n] = <<>>]
        /\ UNCHANGED <<buf, received, moving, crash>>
    BY <1>3 DEF C!RemoveCurve
  <2>3. /\ curves' \in Seq(CurveNames) /\ C!IsInjective(curves)'
        /\ \A m : m \in C!ToSet(curves) /\ m # n => m \in C!ToSet(curves')
    BY <1>0, <2>1, CurveGone
  <2>4. drawn' \in [CurveNames -> Seq(C!Points)]
    BY <1>0, <2>2
  <2>5. \A m \in CurveNames : m \notin C!ToSet(curves') => cache'[m] = C!NoCache /\ drawn'[m] = <<>>
    <3> SUFFICES ASSUME NEW m \in CurveNames, m \notin C!ToSet(curves')
                 PROVE  cache'[m] = C!NoCache /\ drawn'[m] = <<>>
      OBVIOUS
    <3>0. m \in DOMAIN drawn
      BY <1>0
    <3>1. m = n \/ m \notin C!ToSet(curves)
      BY <2>3
    <3>2. m \in DOMAIN cache
      BY <1>0 DEF RecordedWell
    <3> QED
      BY <1>0, <2>2, <3>0, <3>1, <3>2
  <2>6. \A m \in CurveNames : CacheWell(cache'[m], received'[m])
    BY <1>0, <2>2, NoCacheWell DEF RecordedWell
  <2>7. cache' \in [CurveNames -> Caches]
    <3>1. C!NoCache \in Caches
      BY NoCacheWell DEF CacheWell
    <3> QED
      BY <1>0, <2>2, <3>1 DEF RecordedWell
  <2>8. CurvesWell' /\ RecordedWell'
    BY <1>0, <2>2, <2>3, <2>4, <2>5, <2>6, <2>7 DEF CurvesWell, RecordedWell
  <2> QED
    BY <1>0, <2>2, <2>8 DEF ChartIInv
<1>4. CASE C!Update
  <2>1. C!UpdateCurves(curves) /\ UNCHANGED <<received, curves, moving>>
    BY <1>4 DEF C!Update
  <2>2. /\ RecordedWell' /\ crash' \in {"none", "IndexError"}
        /\ drawn' \in [CurveNames -> Seq(C!Points)]
        /\ \A n \in CurveNames : n \notin C!ToSet(curves) =>
             cache'[n] = cache[n] /\ drawn'[n] = drawn[n]
    BY <1>0, <2>1, UpdateKeeps
  <2>3. CurvesWell'
    BY <1>0, <2>1, <2>2 DEF CurvesWell
  <2> QED
    BY <2>2, <2>3 DEF ChartIInv
<1>5. ASSUME NEW on \in BOOLEAN, C!SetEnableMovingWindow(on) PROVE ChartIInv'
  BY <1>0, <1>5 DEF C!SetEnableMovingWindow, ChartIInv, CurvesWell, RecordedWell
<1>6. CASE C!NewBuffers
  <2>1. /\ buf' = [n \in CurveNames |-> <<>>] /\ received' = [n \in CurveNames |-> 0]
        /\ cache' = [n \in CurveNames |-> C!NoCache]
        /\ UNCHANGED <<curves, moving, drawn, crash>>
    BY <1>6 DEF C!NewBuffers
  <2>2. From(0, 0) = <<>>
    BY FromLen
  <2>3. received' \in [CurveNames -> 0..MaxLen]
    BY <2>1 DEF ChartHyp, C!ChartAssumption
  <2>4. RecordedWell'
    <3>1. C!NoCache \in Caches
      BY NoCacheWell DEF CacheWell
    <3> QED
      BY <2>1, <2>2, <2>3, <3>1, NoCacheWell DEF RecordedWell
  <2>5. CurvesWell'
    BY <1>0, <2>1 DEF CurvesWell
  <2> QED
    BY <1>0, <2>1, <2>4, <2>5 DEF ChartIInv
<1>7. CASE UNCHANGED C!vars
  BY <1>0, <1>7 DEF C!vars, ChartIInv, CurvesWell, RecordedWell
<1> QED
  BY <1>1, <1>2, <1>3, <1>4, <1>5, <1>6, <1>7 DEF C!Next

LEMMA ChartInit ==
  ASSUME ChartHyp
  PROVE  C!Init => ChartIInv
<1> SUFFICES ASSUME C!Init PROVE ChartIInv
  OBVIOUS
<1>1. /\ buf = [n \in CurveNames |-> <<>>] /\ received = [n \in CurveNames |-> 0]
      /\ cache = [n \in CurveNames |-> C!NoCache] /\ drawn = [n \in CurveNames |-> <<>>]
      /\ curves = <<>> /\ moving \in BOOLEAN /\ crash = "none"
  BY DEF C!Init, C!NewChart
<1>2. From(0, 0) = <<>>
  BY FromLen
<1>3. received \in [CurveNames -> 0..MaxLen]
  BY <1>1 DEF ChartHyp, C!ChartAssumption
<1>4. RecordedWell
  <2>1. C!NoCache \in Caches
    BY NoCacheWell DEF CacheWell
  <2> QED
    BY <1>1, <1>2, <1>3, <2>1, NoCacheWell DEF RecordedWell
<1>5. CurvesWell
  BY <1>1 DEF CurvesWell, C!IsInjective
<1> QED
  BY <1>1, <1>4, <1>5 DEF ChartIInv

\* Drawing never changes what has been recorded, although the cache may be the very
\* list of the buffer (_downsample, _cachedsample); a curve that has gone leaves no
\* cache, and the assertion of _cachedsample holds.
THEOREM RecordStands ==
  ASSUME C!ChartAssumption, Ties = FALSE, Restarts = FALSE
  PROVE  Spec => []RecordInv
<1> DEFINE Kept == part = "chart" => ChartIInv
<1>0. ChartHyp
  BY DEF ChartHyp
<1>1. Init => Kept
  BY <1>0, ChartInit DEF Init
<1>2. Kept /\ [Next]_vars => Kept'
  BY <1>0, PartSteps, ChartStep
<1>3. Kept => RecordInv
  <2> SUFFICES ASSUME ChartIInv PROVE C!TypeOK /\ C!RecordKept
    BY DEF RecordInv
  <2>1. \A n \in CurveNames :
          /\ received[n] \in Nat /\ received[n] \in 0..MaxLen /\ buf[n] = From(0, received[n])
          /\ Len(buf[n]) = received[n]
          /\ cache[n] \in Caches /\ CacheWell(cache[n], received[n])
    BY <1>0, BufIs DEF ChartIInv
  <2>2. \A n \in CurveNames : buf[n] \in Seq(C!Times)
    <3> SUFFICES ASSUME NEW n \in CurveNames PROVE buf[n] \in Seq(C!Times)
      OBVIOUS
    <3> DEFINE k == received[n]
    <3>1. k \in Nat /\ k \in 0..MaxLen /\ buf[n] = From(0, k) /\ 0 \in Nat
      BY <2>1
    <3> HIDE DEF k
    <3>2. From(0, k) \in Seq(0..(0 + k - 1))
      BY <3>1, FromIs
    <3>3. 0..(0 + k - 1) \subseteq C!Times
      BY <1>0, <3>1 DEF C!Times, ChartHyp, C!ChartAssumption
    <3> QED
      BY <3>1, <3>2, <3>3, SeqWider
  <2>3. buf \in [CurveNames -> Seq(C!Times)]
    BY <2>2 DEF ChartIInv, RecordedWell
  <2>4. \A n \in CurveNames :
          /\ cache[n].ds \in 0..MaxStep /\ cache[n].pts \in Seq(C!Points)
          /\ cache[n].alias \in BOOLEAN /\ cache[n].alias => cache[n].pts = <<>>
    BY <2>1 DEF Caches, CacheWell
  <2>5. C!TypeOK
    BY <2>3, <2>4 DEF C!TypeOK, ChartIInv, CurvesWell, RecordedWell
  <2> QED
    BY <2>1, <2>5 DEF C!RecordKept
<1> QED
  BY <1>1, <1>2, <1>3, PTL DEF Spec

-----------------------------------------------------------------------------
(* PlotChart: what is drawn.                                               *)

LEMMA BufTimes ==
  ASSUME ChartHyp, RecordedWell, NEW n \in CurveNames
  PROVE  /\ \A i \in 1..Len(buf[n]) : buf[n][i] = i - 1
         /\ \A i \in 1..Len(buf[n]) : i - 1 \in 0..(received[n] - 1)
         /\ buf[n] # <<>> => C!Last1(buf[n]) = received[n] - 1
         /\ C!ToSet(buf[n]) = 0..(received[n] - 1)
<1> DEFINE k == received[n]
<1>1. k \in Nat /\ buf[n] = From(0, k) /\ Len(buf[n]) = k /\ (buf[n] = <<>> <=> k = 0) /\ 0 \in Nat
  BY BufIs
<1> HIDE DEF k
<1>2. \A i \in 1..k : From(0, k)[i] = 0 + i - 1
  BY <1>1, FromIs
<1>3. \A i \in 1..k : buf[n][i] = i - 1
  BY <1>1, <1>2
<1>4. buf[n] # <<>> => C!Last1(buf[n]) = k - 1
  <2> SUFFICES ASSUME k # 0 PROVE C!Last1(buf[n]) = k - 1
    BY <1>1
  <2>1. k \in 1..k
    BY <1>1
  <2> QED
    BY <1>1, <1>3, <2>1 DEF C!Last1
<1>5. C!ToSet(From(0, k)) = 0..(0 + k - 1)
  BY <1>1, FromIs
<1>6. C!ToSet(buf[n]) = 0..(k - 1)
  BY <1>1, <1>5
<1>7. \A i \in 1..Len(buf[n]) : i - 1 \in 0..(k - 1)
  BY <1>1
<1> QED
  BY <1>1, <1>3, <1>4, <1>6, <1>7 DEF k

LEMMA InSet ==
  ASSUME NEW T, NEW s \in Seq(T)
  PROVE  /\ \A i \in 1..Len(s) : s[i] \in C!ToSet(s)
         /\ \A p \in C!ToSet(s) : p \in T /\ \E i \in 1..Len(s) : p = s[i]
BY DEF C!ToSet

\* A turn of updateCurves that has come to its end.
LEMMA AllRedrawn ==
  ASSUME ChartHyp, ChartIInv, C!Update, crash' = "none" \/ moving,
         \E n \in C!ToSet(curves) : buf[n] # <<>>
  PROVE  \E step : Redrawn(C!ToSet(curves), C!ToSet(curves), step)
<1>1. /\ RecordedWell /\ crash \in {"none", "IndexError"} /\ curves \in Seq(CurveNames)
      /\ C!UpdateCurves(curves)
  BY DEF ChartIInv, CurvesWell, C!Update
<1>2. PICK done, step : Redrawn(C!ToSet(curves), done, step)
  BY <1>1, UpdateRedraws
<1>3. done = C!ToSet(curves)
  BY <1>2 DEF Redrawn
<1> QED
  BY <1>2, <1>3

\* ... for a curve, when the window does not move
LEMMA CurveStands ==
  ASSUME ChartHyp, ChartIInv, C!Update, crash' = "none", ~moving,
         NEW n \in C!ToSet(curves), buf[n] # <<>>
  PROVE  /\ n \in CurveNames /\ cache'[n].ds \in Nat \ {0}
         /\ Covering(drawn'[n], received[n]) /\ UpToDate(drawn'[n], received[n], cache'[n].ds)
<1> DEFINE ns == C!ToSet(curves)
<1>1. PICK step : Redrawn(ns, ns, step)
  BY AllRedrawn
<1>2. n \in CurveNames /\ RecordedWell
  BY DEF ChartIInv, CurvesWell, C!ToSet
<1> HIDE DEF ns
<1>3. /\ step[n] \in 1..MaxStep /\ C!Raises(n, step[n]) = "none"
      /\ cache'[n] = C!NewCache(ns, n, step[n]) /\ drawn'[n] = C!Drawn(ns, n, step[n])
  BY <1>1, <1>2 DEF Redrawn, ns
<1>4. step[n] \in Nat \ {0}
  BY <1>3 DEF ChartHyp, C!ChartAssumption
<1> DEFINE ds == step[n]
<1> HIDE DEF ds
<1>5. /\ C!NewCache(ns, n, ds).ds = ds
      /\ Covering(C!Drawn(ns, n, ds), received[n]) /\ UpToDate(C!Drawn(ns, n, ds), received[n], ds)
  BY <1>2, <1>3, CurveDrawn DEF ds
<1> QED
  BY <1>2, <1>3, <1>4, <1>5 DEF ds

LEMMA NothingSkipped ==
  ASSUME ChartHyp, ChartIInv
  PROVE  C!SkipsNothing
<1> SUFFICES ASSUME NEW n \in C!ToSet(curves), C!Update, Method # "subsample", ~moving,
                    crash' = "none", drawn'[n] # <<>>, buf[n] # <<>>,
                    NEW i \in 1..Len(buf[n]), buf[n][i] <= C!Last1(drawn'[n])[1]
             PROVE  \E p \in C!ToSet(drawn'[n]) : buf[n][i] \in C!ToSet(p[2])
  BY DEF C!SkipsNothing
<1> DEFINE d == drawn'[n]
           t == buf[n][i]
<1>1. Covering(d, received[n]) /\ n \in CurveNames
  BY CurveStands
<1>2. t \in 0..(received[n] - 1)
  BY <1>1, BufTimes DEF ChartIInv
<1>3. t <= d[Len(d)][1] /\ d # <<>>
  BY DEF C!Last1
<1> HIDE DEF d, t
<1>4. PICK j \in 1..Len(d) : t \in C!ToSet(d[j][2])
  BY <1>1, <1>2, <1>3 DEF Covering
<1>5. d[j] \in C!ToSet(d)
  BY <1>1, InSet DEF Covering
<1> QED
  BY <1>4, <1>5 DEF d, t

LEMMA PaceKept ==
  ASSUME ChartHyp, ChartIInv
  PROVE  C!KeepsPace
<1> SUFFICES ASSUME NEW n \in C!ToSet(curves), C!Update, ~moving, crash' = "none",
                    Len(buf[n]) >= cache'[n].ds, buf[n] # <<>>
             PROVE  /\ drawn'[n] # <<>>
                    /\ C!Last1(buf[n]) - C!Last1(drawn'[n])[1] <=
                         2 * (cache'[n].ds - 1) - (cache'[n].ds \div 2)
  BY DEF C!KeepsPace
<1> DEFINE d == drawn'[n]
           ds == cache'[n].ds
           k == received[n]
<1>1. UpToDate(d, k, ds) /\ n \in CurveNames /\ ds \in Nat \ {0}
  BY CurveStands
<1>2. C!Last1(buf[n]) = k - 1 /\ Len(buf[n]) = k /\ k \in Nat
  BY <1>1, BufTimes, BufIs DEF ChartIInv
<1> HIDE DEF d, ds, k
<1>3. ds <= k
  BY <1>1, <1>2 DEF ds
<1>4. d # <<>> /\ (k - 1) - d[Len(d)][1] <= 2 * (ds - 1) - (ds \div 2)
  BY <1>1, <1>3 DEF UpToDate
<1> QED
  BY <1>2, <1>4 DEF d, ds, C!Last1

LEMMA WindowExact ==
  ASSUME ChartHyp, ChartIInv
  PROVE  C!WindowIsExact
<1> DEFINE ns == C!ToSet(curves)
           recent(n) == {t \in C!ToSet(buf[n]) : t >= C!FirstX(ns)}
           shownOf(n) == UNION {C!ToSet(p[2]) : p \in C!ToSet(drawn'[n])}
<1> SUFFICES ASSUME NEW n \in ns, C!Update, moving, \E m \in ns : buf[m] # <<>>
             PROVE  /\ shownOf(n) \subseteq recent(n)
                    /\ (\A p \in C!ToSet(drawn'[n]) : Len(p[2]) = 1)
                         /\ (drawn'[n] = <<>> => Len(C!Window(ns, n)) < 2)
                         /\ Method # "subsample" => shownOf(n) = recent(n)
  BY Zenon DEF C!WindowIsExact
<1> DEFINE k == received[n]
           x == C!FirstX(ns)
           f == Cut(x, 0, k)
           m == k - f
           d == drawn'[n]
<1>0. ns \in SUBSET CurveNames /\ n \in CurveNames /\ RecordedWell
  BY DEF ChartIInv, CurvesWell, C!ToSet
<1>1. PICK step : Redrawn(ns, ns, step)
  BY AllRedrawn
<1> DEFINE ds == step[n]
<1>2. /\ ds \in 1..MaxStep /\ ds \in C!Steps(C!Visible(ns, n)) /\ d = C!Drawn(ns, n, ds)
  <2> HIDE DEF ns
  <2> QED
    BY <1>0, <1>1 DEF Redrawn
<1> HIDE DEF ds
<1>3. ds \in Nat \ {0} /\ x \in Int /\ k \in Nat
  <2>1. ds \in Nat \ {0}
    BY <1>2 DEF ChartHyp, C!ChartAssumption
  <2>2. x \in Int
    <3> HIDE DEF ns
    <3> QED
      BY <1>0, FirstXIs
  <2>3. k \in Nat
    BY <1>0, BufIs
  <2> QED
    BY <2>1, <2>2, <2>3
<1>4. /\ f \in 0..k /\ C!Window(ns, n) = From(f, m)
      /\ d = C!Downsample(ds, From(f, m))
  <2> HIDE DEF ns
  <2> QED
    BY <1>0, <1>2, CurveMoving
<1>5. C!Visible(ns, n) = From(f, m)
  BY <1>4 DEF C!Visible
<1>6. C!ToSet(buf[n]) = 0..(k - 1)
  BY <1>0, BufTimes
<1>7. recent(n) = f..(k - 1)
  <2>1. recent(n) = {t \in 0..(k - 1) : t >= x}
    BY <1>6
  <2> HIDE DEF x, k, recent
  <2>2. \A t \in Int : t \in 0..(k - 1) /\ t >= x <=> t \in f..(k - 1)
    BY <1>3 DEF Cut
  <2> QED
    BY <1>3, <2>1, <2>2
<1> DEFINE Block == (f..(k - 1)) \X Seq(f..(k - 1))
<1> HIDE DEF k, x, f, ns
<1>8. f \in Nat /\ m \in Nat /\ k = f + m /\ f + m - 1 = k - 1
  BY <1>3, <1>4
<1>9. PICK s \in Nat \ {0}, o \in Nat, l \in Nat, h \in Nat : RowOf(d, f, m, ds, s, o, l, h)
  <2> DEFINE e == C!Downsample(ds, From(f, m))
  <2>1. \E s \in Nat \ {0}, o \in Nat, l \in Nat, h \in Nat : RowOf(e, f, m, ds, s, o, l, h)
    BY <1>3, <1>8, DownsampleRow
  <2>2. d = e
    BY <1>4
  <2> HIDE DEF d, e, m
  <2> QED
    BY <2>1, <2>2
<1>10. RowWell(d, f, m, s, o, l, h)
  <2>1. d = Row(f, s, o, l, h) /\ o < l /\ (h = 0 \/ s * (h - 1) + l <= m)
    BY <1>9 DEF RowOf
  <2>2. RowWell(Row(f, s, o, l, h), f, m, s, o, l, h)
    BY <1>8, <2>1, RowIs
  <2> QED
    BY <2>1, <2>2
<1>11. d \in Seq(Block) /\ Len(d) = h /\ (d = <<>> <=> h = 0)
  BY <1>8, <1>10 DEF RowWell
<1>12. \A i \in 1..h : Len(d[i][2]) = l
  BY <1>10 DEF RowWell
<1> HIDE DEF d
<1>13. \A p \in C!ToSet(d) : p[2] \in Seq(f..(k - 1))
  <2>1. \A p \in C!ToSet(d) : p \in Block
    BY <1>11, InSet
  <2> QED
    BY <2>1
<1>14. UNION {C!ToSet(p[2]) : p \in C!ToSet(d)} \subseteq f..(k - 1)
  <2>1. \A p \in C!ToSet(d) : C!ToSet(p[2]) \subseteq f..(k - 1)
    <3> SUFFICES ASSUME NEW p \in C!ToSet(d) PROVE C!ToSet(p[2]) \subseteq f..(k - 1)
      OBVIOUS
    <3> DEFINE O == f..(k - 1)
               q == p[2]
    <3>1. q \in Seq(O)
      BY <1>13
    <3> HIDE DEF O, q
    <3>2. C!ToSet(q) \subseteq O
      BY <3>1, InSet
    <3> QED
      BY <3>2 DEF O, q
  <2> QED
    BY <2>1
<1>15. ASSUME \A p \in C!ToSet(d) : Len(p[2]) = 1, d = <<>> => m < 2, Method # "subsample"
       PROVE  f..(k - 1) \subseteq UNION {C!ToSet(p[2]) : p \in C!ToSet(d)}
  <2>0. l = s
    BY <1>9, <1>15 DEF RowOf
  <2>1. C!Returns(ds)
    <3> SUFFICES ASSUME ~C!Returns(ds) PROVE FALSE
      OBVIOUS
    <3>1. s = ds /\ 1 < ds
      BY <1>9 DEF RowOf
    <3>2. CASE h = 0
      <4>1. m < 2
        BY <1>11, <1>15, <3>2
      <4>2. C!Steps(From(f, m)) = {1}
        <5>1. Len(From(f, m)) < 2
          BY <1>8, <4>1, FromLen
        <5> QED
          BY <5>1 DEF C!Steps
      <4> QED
        BY <1>2, <1>5, <3>1, <4>2
    <3>3. CASE h # 0
      <4>1. 1 \in 1..h /\ 1 \in 1..Len(d)
        BY <1>11, <3>3
      <4>2. d[1] \in C!ToSet(d)
        BY <1>11, <4>1, InSet
      <4>3. Len(d[1][2]) = l
        BY <1>12, <4>1
      <4> QED
        <5>1. Len(d[1][2]) = 1
          BY <1>15, <4>2
        <5>2. l = 1
          BY <4>3, <5>1
        <5>3. 1 < l
          BY <2>0, <3>1
        <5> QED
          BY <5>2, <5>3
    <3> QED
      BY <3>2, <3>3
  <2>2. s = 1 /\ o = 0 /\ h = m
    BY <1>9, <2>1 DEF RowOf
  <2>3. ASSUME NEW t \in f..(k - 1) PROVE \E i \in 1..h : t \in C!ToSet(d[i][2])
    <3>1. m # 0 /\ t <= f + 1 * (m - 1) + 0
      BY <1>8
    <3>2. \A u \in f..(f + m - 1) :
            m # 0 /\ u <= f + 1 * (m - 1) + 0 => \E i \in 1..m : u \in C!ToSet(d[i][2])
      BY <1>10, <2>0, <2>2 DEF RowWell
    <3> QED
      BY <1>8, <2>2, <3>1, <3>2
  <2>4. \A i \in 1..h : d[i] \in C!ToSet(d)
    BY <1>11, InSet
  <2> QED
    BY <2>3, <2>4
<1>16. Len(C!Window(ns, n)) = m
  BY <1>4, <1>8, FromLen
<1> HIDE DEF m, recent
<1>17. shownOf(n) = UNION {C!ToSet(p[2]) : p \in C!ToSet(d)}
  BY DEF d
<1> HIDE DEF shownOf
<1>18. shownOf(n) \subseteq recent(n)
  BY <1>7, <1>14, <1>17
<1>19. ASSUME \A p \in C!ToSet(drawn'[n]) : Len(p[2]) = 1,
              drawn'[n] = <<>> => Len(C!Window(ns, n)) < 2, Method # "subsample"
       PROVE  shownOf(n) = recent(n)
  <2>1. f..(k - 1) \subseteq UNION {C!ToSet(p[2]) : p \in C!ToSet(d)}
    BY <1>15, <1>16, <1>19 DEF d
  <2> QED
    BY <1>7, <1>17, <1>18, <2>1
<1> QED
  BY <1>18, <1>19

\* What updateCurves draws is the measurement: from the cache no sample is passed
\* over, whatever the zoom has been (_cachedsample), and at most an unfinished block
\* is missing (_downsample); in the moving window there are samples of the last
\* Width only.
THEOREM DrawingIsRecord ==
  ASSUME C!ChartAssumption, Ties = FALSE, Restarts = FALSE
  PROVE  Spec => DrawsRecord
<1> DEFINE Kept == part = "chart" => ChartIInv
<1>0. ChartHyp
  BY DEF ChartHyp
<1>1. Init => Kept
  BY <1>0, ChartInit DEF Init
<1>2. Kept /\ [Next]_vars => Kept'
  BY <1>0, PartSteps, ChartStep
<1>3. Kept /\ [Next]_vars =>
        [part = "chart" => C!SkipsNothing /\ C!KeepsPace /\ C!WindowIsExact]_vars
  BY <1>0, NothingSkipped, PaceKept, WindowExact
<1> QED
  BY <1>1, <1>2, <1>3, PTL DEF Spec, DrawsRecord

-----------------------------------------------------------------------------
(* Animation: pictures and their names.                                    *)

LEMMA PicturesFinite ==
  \A T : V!Cardinality(T) = Cardinality(T)
BY Zenon DEF V!Cardinality, Cardinality

\* Every experiment names a visualizer, and no visualizer lacks its library: then
\* the one that was loaded before never stays.
AllDrawn == (VtkAvailable \/ Vtk = {}) /\ \A e \in PictureExps : Visu[e] # <<>>

\* The inductive invariant: what is displayed and what runs, the pictures that are
\* there, and, while a run is quiet, that the visualizer is named after it.
Runs == [exp : PictureExps, at : 1..MaxTime, quiet : BOOLEAN]
Pictures == [exp : PictureExps, stamp : 1..MaxTime, n : 0..MaxFrames, run : Runs]

ShownWell ==
  /\ selected \in PictureExps /\ displayed \in V!Classes \cup {"none"} /\ vis \in V!Vises
  /\ option \in BOOLEAN /\ (vis.save => option)
  /\ AllDrawn => V!DrawnIsShown

FilesWell ==
  /\ now \in 1..MaxTime /\ saved \in 0..MaxFrames
  /\ files \subseteq Pictures /\ IsFiniteSet(files) /\ Cardinality(files) = saved
  /\ vis.count <= saved
  /\ \A f \in files : f.stamp = vis.stamp => f.n < vis.count

RunWell ==
  /\ run = V!NoRun \/ run \in Runs
  /\ crash \in {"none", "AttributeError", "TypeError"}
  /\ V!FramesNamed /\ V!SaveReturns
  /\ run # V!NoRun /\ run.quiet /\ vis.save => vis.path = run.exp /\ vis.stamp = run.at

PicturesIInv == ShownWell /\ FilesWell /\ RunWell

LEMMA VisesAre ==
  ASSUME V!AnimationAssumption
  PROVE  /\ V!NoVis \in V!Vises /\ V!NoVis.count = 0 /\ V!NoVis.stamp = 0
         /\ V!NoVis.save = FALSE /\ V!NoVis.of = "none"
         /\ \A c \in V!Classes, o \in BOOLEAN :
              LET v == [V!NoVis EXCEPT !.of = c, !.save = o] IN
              v \in V!Vises /\ v.of = c /\ v.save = o /\ v.count = 0 /\ v.stamp = 0
         /\ \A e \in PictureExps : Visu[e] \in Seq(V!Classes)
         /\ \A e \in PictureExps : \A i \in DOMAIN Visu[e] : Visu[e][i] \in V!Classes
<1>1. \A e \in PictureExps : Visu[e] \in Seq(V!Classes)
  BY DEF V!AnimationAssumption
<1>2. \A e \in PictureExps : \A i \in DOMAIN Visu[e] : Visu[e][i] \in V!Classes
  BY DEF V!Classes
<1>3. 0 \in 0..MaxTime /\ 0 \in 0..MaxFrames
  BY DEF V!AnimationAssumption
<1>4. /\ V!NoVis = [of |-> "none", save |-> FALSE, path |-> "none", stamp |-> 0, count |-> 0]
      /\ V!NoVis \in V!Vises
  BY <1>3 DEF V!NoVis, V!Vises
<1>5. \A c \in V!Classes, o \in BOOLEAN :
        LET v == [V!NoVis EXCEPT !.of = c, !.save = o] IN
        v \in V!Vises /\ v.of = c /\ v.save = o /\ v.count = 0 /\ v.stamp = 0
  BY <1>3, <1>4 DEF V!Vises
<1> QED
  BY <1>1, <1>2, <1>4, <1>5

\* A change of visualizer or option ends the quiet of a run.
LEMMA RunDisturbed ==
  ASSUME RunWell, V!Up, run' = V!Disturbed, files' = files,
         crash' \in {"none", "AttributeError"}
  PROVE  RunWell'
<1>1. V!FramesNamed'
  BY DEF RunWell, V!FramesNamed
<1>2. CASE run = V!NoRun
  <2>1. run' = V!NoRun
    BY <1>2 DEF V!Disturbed, V!Idle
  <2> QED
    BY <1>1, <2>1 DEF RunWell, V!NoRun, V!SaveReturns, Runs
<1>3. CASE run # V!NoRun
  <2>1. run \in Runs /\ run' = [run EXCEPT !.quiet = FALSE]
    BY <1>3 DEF RunWell, V!Disturbed, V!Idle
  <2>2. run' \in Runs /\ run'.quiet = FALSE
    BY <2>1 DEF Runs
  <2> QED
    BY <1>1, <2>2 DEF RunWell, V!NoRun, V!SaveReturns, Runs
<1> QED
  BY <1>2, <1>3

\* Loading a visualizer, or failing to, leaves no picture in its way.
LEMMA VisualizerSet ==
  ASSUME V!AnimationAssumption, PicturesIInv, NEW c \in V!Classes, V!SetVisualizer(c),
         V!Up, run' = V!Disturbed, option' = option, selected' \in PictureExps,
         UNCHANGED <<now, files, saved>>
  PROVE  PicturesIInv'
<1>0. /\ vis \in V!Vises /\ option \in BOOLEAN /\ saved \in 0..MaxFrames /\ MaxFrames \in Nat
      /\ files \subseteq Pictures /\ vis.count <= saved
      /\ \A f \in files : f.stamp = vis.stamp => f.n < vis.count
  BY DEF PicturesIInv, ShownWell, FilesWell, V!AnimationAssumption
<1>1. /\ vis' \in V!Vises /\ vis'.save = option
      /\ AllDrawn => vis'.of = c
      /\ \/ vis'.count = vis.count /\ vis'.stamp = vis.stamp
         \/ vis'.count = 0 /\ vis'.stamp = 0
  <2>1. CASE c \in Vtk /\ ~VtkAvailable
    <3>1. vis' = [vis EXCEPT !.save = option] /\ ~AllDrawn
      BY <2>1 DEF V!SetVisualizer, AllDrawn
    <3> QED
      BY <1>0, <3>1 DEF V!Vises
  <2>2. CASE ~(c \in Vtk /\ ~VtkAvailable)
    <3>1. vis' = [V!NoVis EXCEPT !.of = c, !.save = option]
      BY <2>2 DEF V!SetVisualizer, V!Loaded
    <3> QED
      BY <1>0, <3>1, VisesAre
  <2> QED
    BY <2>1, <2>2
<1>2. displayed' = c /\ crash' \in {"none", "AttributeError"}
  BY DEF V!SetVisualizer, V!Up
<1>3. ShownWell'
  BY <1>0, <1>1, <1>2 DEF ShownWell, V!DrawnIsShown, V!Classes, V!Vises, AllDrawn
<1>4. FilesWell'
  <2>1. \A f \in files : f.stamp # 0
    BY <1>0 DEF Pictures
  <2>2. vis'.count <= saved /\ \A f \in files : f.stamp = vis'.stamp => f.n < vis'.count
    BY <1>0, <1>1, <2>1
  <2> QED
    BY <2>2 DEF PicturesIInv, FilesWell, Pictures, Runs
<1>5. RunWell'
  BY <1>2, RunDisturbed DEF PicturesIInv
<1> QED
  BY <1>3, <1>4, <1>5 DEF PicturesIInv

\* A start names the visualizer after the run, and gives it a second that no
\* picture has.
LEMMA VisualizerStarted ==
  ASSUME V!AnimationAssumption, Fast = FALSE, PicturesIInv, V!StartExperiment
  PROVE  PicturesIInv'
<1>0. /\ selected \in PictureExps /\ vis \in V!Vises /\ option \in BOOLEAN /\ (vis.save => option)
      /\ now \in 1..MaxTime /\ saved \in 0..MaxFrames /\ MaxTime \in Nat /\ MaxFrames \in Nat
      /\ files \subseteq Pictures /\ vis.count <= saved
      /\ \A f \in files : f.stamp = vis.stamp => f.n < vis.count
      /\ V!FramesNamed /\ crash = "none"
  BY DEF PicturesIInv, ShownWell, FilesWell, RunWell, V!AnimationAssumption,
         V!StartExperiment, V!Up
<1>1. /\ \A f \in files : f.stamp # now
      /\ run' = [exp |-> selected, at |-> now, quiet |-> TRUE]
      /\ vis' = IF vis = V!NoVis THEN vis ELSE V!Stamped(V!Named(vis))
      /\ UNCHANGED <<selected, displayed, option, now, files, saved, crash>>
  BY DEF V!StartExperiment
<1>2. /\ vis' \in V!Vises /\ vis'.of = vis.of /\ vis'.save = vis.save
      /\ vis'.save => vis'.path = selected /\ vis'.stamp = now
      /\ \/ vis'.count = vis.count /\ vis'.stamp = vis.stamp
         \/ vis'.count = 0 /\ vis'.stamp = now
  <2>1. CASE vis = V!NoVis
    BY <1>0, <1>1, <2>1, VisesAre
  <2>2. CASE vis # V!NoVis /\ vis.save
    <3>1. vis' = [vis EXCEPT !.path = selected, !.count = 0, !.stamp = now]
      BY <1>0, <1>1, <2>2 DEF V!Stamped, V!Named, V!Vises
    <3>2. selected \in PictureExps \cup {"none"} /\ now \in 0..MaxTime /\ 0 \in 0..MaxFrames
      BY <1>0
    <3>3. /\ vis' \in V!Vises /\ vis'.of = vis.of /\ vis'.save = vis.save
          /\ vis'.path = selected /\ vis'.stamp = now /\ vis'.count = 0
      BY <1>0, <3>1, <3>2 DEF V!Vises
    <3> QED
      BY <3>3
  <2>3. CASE vis # V!NoVis /\ ~vis.save
    <3>1. vis' = [vis EXCEPT !.path = selected]
      BY <1>0, <1>1, <2>3 DEF V!Stamped, V!Named, V!Vises
    <3>2. /\ vis' \in V!Vises /\ vis'.of = vis.of /\ vis'.save = vis.save
          /\ vis'.count = vis.count /\ vis'.stamp = vis.stamp
      BY <1>0, <3>1 DEF V!Vises
    <3> QED
      BY <2>3, <3>2
  <2> QED
    BY <2>1, <2>2, <2>3
<1>3. ShownWell'
  BY <1>1, <1>2 DEF PicturesIInv, ShownWell, V!DrawnIsShown, AllDrawn, V!Classes, V!Vises
<1>4. FilesWell'
  <2>1. vis'.count <= saved /\ \A f \in files : f.stamp = vis'.stamp => f.n < vis'.count
    BY <1>0, <1>1, <1>2
  <2> QED
    BY <1>1, <2>1 DEF PicturesIInv, FilesWell, Pictures, Runs
<1>5. RunWell'
  <2>1. run' \in Runs /\ run'.exp = selected /\ run'.at = now
    BY <1>0, <1>1 DEF Runs
  <2>2. V!FramesNamed' /\ V!SaveReturns'
    BY <1>0, <1>1 DEF V!FramesNamed, V!SaveReturns
  <2> QED
    BY <1>0, <1>1, <1>2, <2>1, <2>2 DEF RunWell, Runs
<1> QED
  BY <1>3, <1>4, <1>5 DEF PicturesIInv

\* A frame that is saved has a name of its own.
LEMMA VisualizerUpdated ==
  ASSUME V!AnimationAssumption, PicturesIInv, V!Update
  PROVE  PicturesIInv'
<1>0. /\ vis \in V!Vises /\ option \in BOOLEAN /\ (vis.save => option)
      /\ now \in 1..MaxTime /\ saved \in 0..MaxFrames /\ MaxTime \in Nat /\ MaxFrames \in Nat
      /\ files \subseteq Pictures /\ IsFiniteSet(files) /\ Cardinality(files) = saved
      /\ vis.count <= saved
      /\ \A f \in files : f.stamp = vis.stamp => f.n < vis.count
      /\ run \in Runs /\ saved < MaxFrames /\ crash = "none"
      /\ vis.count \in 0..MaxFrames /\ vis.save \in BOOLEAN
      /\ "none" \notin PictureExps
  <2>1. run \in Runs /\ saved < MaxFrames /\ crash = "none"
    BY DEF PicturesIInv, RunWell, V!Update, V!Idle, V!Up
  <2> QED
    BY <2>1 DEF PicturesIInv, ShownWell, FilesWell, V!AnimationAssumption, V!Vises
<1>1. UNCHANGED <<selected, displayed, option, run, now>>
  BY DEF V!Update
<1>2. ASSUME UNCHANGED <<vis, files, saved>>, crash' \in {"none", "TypeError"},
             run.quiet => crash' = "none"
      PROVE  PicturesIInv'
  <2>1. ShownWell'
    BY <1>1, <1>2 DEF PicturesIInv, ShownWell, V!DrawnIsShown, AllDrawn, V!Classes, V!Vises
  <2>2. FilesWell'
    BY <1>1, <1>2 DEF PicturesIInv, FilesWell, Pictures, Runs
  <2>3. RunWell'
    BY <1>1, <1>2 DEF PicturesIInv, RunWell, Runs, V!NoRun, V!FramesNamed, V!SaveReturns
  <2> QED
    BY <2>1, <2>2, <2>3 DEF PicturesIInv
<1>3. CASE ~vis.save
  BY <1>0, <1>2, <1>3 DEF V!Update
<1>4. CASE vis.save /\ (vis.path = "none" \/ vis.stamp = 0)
  <2>2. ~run.quiet
    <3> SUFFICES ASSUME run.quiet PROVE FALSE
      OBVIOUS
    <3>1. run # V!NoRun
      BY DEF V!Update, V!Idle
    <3>2. vis.path = run.exp /\ vis.stamp = run.at
      BY <1>4, <3>1 DEF PicturesIInv, RunWell
    <3> QED
      BY <1>0, <1>4, <3>2 DEF Runs
  <2>3. UNCHANGED <<vis, files, saved>> /\ crash' = "TypeError"
    BY <1>4 DEF V!Update
  <2> QED
    BY <1>2, <2>2, <2>3
<1>5. CASE vis.save /\ ~(vis.path = "none" \/ vis.stamp = 0)
  <2> DEFINE g == [exp |-> vis.path, stamp |-> vis.stamp, n |-> vis.count, run |-> run]
             other == {f \in files : [exp |-> f.exp, stamp |-> f.stamp, n |-> f.n]
                                     # [exp |-> vis.path, stamp |-> vis.stamp, n |-> vis.count]}
  <2>1. /\ files' = other \cup {g} /\ saved' = saved + 1
        /\ vis' = [vis EXCEPT !.count = vis.count + 1] /\ crash' = crash
    BY <1>5 DEF V!Update
  <2>2. other = files
    <3> SUFFICES ASSUME NEW f \in files
                 PROVE  [exp |-> f.exp, stamp |-> f.stamp, n |-> f.n]
                        # [exp |-> vis.path, stamp |-> vis.stamp, n |-> vis.count]
      OBVIOUS
    <3>1. f.n \in 0..MaxFrames /\ (f.stamp = vis.stamp => f.n # vis.count)
      BY <1>0 DEF Pictures
    <3> QED
      BY <3>1
  <2>3. g \notin files /\ g \in Pictures /\ g.stamp = vis.stamp /\ g.n = vis.count
        /\ g.run = run /\ g.exp = vis.path
    <3>1. vis.path \in PictureExps /\ vis.stamp \in 1..MaxTime
      BY <1>0, <1>5 DEF V!Vises
    <3>2. g \in Pictures /\ g.stamp = vis.stamp /\ g.n = vis.count /\ g.run = run /\ g.exp = vis.path
      BY <1>0, <3>1 DEF Pictures
    <3> HIDE DEF g
    <3> QED
      BY <1>0, <3>2
  <2> HIDE DEF g, other
  <2>4. /\ files' = files \cup {g} /\ IsFiniteSet(files') /\ Cardinality(files') = saved'
    BY <1>0, <2>1, <2>2, <2>3, FS_AddElement
  <2>5. /\ vis' \in V!Vises /\ vis'.of = vis.of /\ vis'.save = vis.save /\ vis'.path = vis.path
        /\ vis'.stamp = vis.stamp /\ vis'.count = vis.count + 1
    BY <1>0, <2>1 DEF V!Vises
  <2>6. ShownWell'
    BY <1>1, <2>5 DEF PicturesIInv, ShownWell, V!DrawnIsShown, AllDrawn, V!Classes, V!Vises
  <2>7. FilesWell'
    <3>1. \A f \in files' : f.stamp = vis'.stamp => f.n < vis'.count
      <4> SUFFICES ASSUME NEW f \in files', f.stamp = vis.stamp PROVE f.n < vis.count + 1
        BY <2>5
      <4>1. CASE f = g
        BY <1>0, <2>3, <4>1
      <4>2. CASE f \in files
        <5>1. f.n \in 0..MaxFrames
          BY <1>0, <4>2 DEF Pictures
        <5> QED
          BY <1>0, <4>2, <5>1
      <4> QED
        BY <2>4, <4>1, <4>2
    <3>2. files' \subseteq Pictures /\ saved' \in 0..MaxFrames /\ vis'.count <= saved'
      BY <1>0, <2>1, <2>3, <2>4, <2>5
    <3> QED
      BY <1>0, <1>1, <2>4, <3>1, <3>2 DEF FilesWell, Pictures, Runs
  <2>8. RunWell'
    <3>0. run # V!NoRun
      BY DEF V!Update, V!Idle
    <3>1. V!FramesNamed'
      <4> SUFFICES ASSUME NEW f \in files', f.run.quiet
                   PROVE  f.run.exp = f.exp /\ f.run.at = f.stamp
        BY DEF V!FramesNamed
      <4>1. CASE f = g
        <5>1. vis.path = run.exp /\ vis.stamp = run.at
          BY <1>5, <2>3, <3>0, <4>1 DEF PicturesIInv, RunWell
        <5> QED
          BY <2>3, <4>1, <5>1
      <4>2. CASE f \in files
        BY <4>2 DEF PicturesIInv, RunWell, V!FramesNamed
      <4> QED
        BY <2>4, <4>1, <4>2
    <3>2. run' # V!NoRun /\ run'.quiet /\ vis'.save => vis'.path = run'.exp /\ vis'.stamp = run'.at
      BY <1>1, <2>5 DEF PicturesIInv, RunWell
    <3> QED
      BY <1>0, <1>1, <2>1, <3>1, <3>2 DEF RunWell, V!SaveReturns, V!NoRun, Runs
  <2> QED
    BY <2>6, <2>7, <2>8 DEF PicturesIInv
<1> QED
  BY <1>3, <1>4, <1>5

LEMMA PicturesStep ==
  ASSUME V!AnimationAssumption, Fast = FALSE, PicturesIInv, [V!Next]_V!vars
  PROVE  PicturesIInv'
<1>1. ASSUME NEW e \in PictureExps, V!Apply(e) PROVE PicturesIInv'
  <2>1. V!Up /\ selected' = e /\ run' = V!Disturbed /\ UNCHANGED <<option, now, files, saved>>
    BY <1>1 DEF V!Apply
  <2>2. CASE Visu[e] = <<>>
    <3>1. displayed' = "none" /\ vis' = vis /\ crash' = crash /\ ~AllDrawn
      BY <1>1, <2>2 DEF V!Apply, AllDrawn
    <3>2. ShownWell'
      BY <2>1, <3>1 DEF PicturesIInv, ShownWell, V!DrawnIsShown, AllDrawn, V!Classes, V!Vises
    <3>3. FilesWell'
      BY <2>1, <3>1 DEF PicturesIInv, FilesWell, Pictures, Runs
    <3>4. RunWell'
      BY <2>1, <3>1, RunDisturbed DEF PicturesIInv, V!Up
    <3> QED
      BY <3>2, <3>3, <3>4 DEF PicturesIInv
  <2>3. CASE Visu[e] # <<>>
    <3>1. Visu[e] \in Seq(V!Classes) /\ Visu[e][1] \in V!Classes
      <4>1. Visu[e] \in Seq(V!Classes)
        BY VisesAre
      <4> QED
        BY <2>3, <4>1
    <3>2. V!SetVisualizer(Visu[e][1])
      BY <1>1, <2>3 DEF V!Apply
    <3> QED
      BY <2>1, <3>1, <3>2, VisualizerSet
  <2> QED
    BY <2>2, <2>3
<1>2. ASSUME NEW c \in V!Classes, V!VisualizerChanged(c) PROVE PicturesIInv'
  <2>1. /\ V!Up /\ V!SetVisualizer(c) /\ run' = V!Disturbed
        /\ UNCHANGED <<selected, option, now, files, saved>>
    BY <1>2 DEF V!VisualizerChanged
  <2>2. selected' \in PictureExps
    BY <2>1 DEF PicturesIInv, ShownWell
  <2> QED
    BY <2>1, <2>2, VisualizerSet
<1>3. CASE V!CheckSaveAnimation
  <2>0. vis \in V!Vises /\ option \in BOOLEAN
    BY DEF PicturesIInv, ShownWell
  <2>1. /\ V!Up /\ run' = V!Disturbed /\ option' = ~option /\ vis' = V!Checked(vis, ~option)
        /\ UNCHANGED <<selected, displayed, now, files, saved, crash>>
    BY <1>3 DEF V!CheckSaveAnimation
  <2>2. /\ vis' \in V!Vises /\ vis'.of = vis.of /\ vis'.count = vis.count
        /\ vis'.stamp = vis.stamp /\ (vis'.save => option')
    <3>1. CASE vis = V!NoVis
      BY <2>0, <2>1, <3>1, VisesAre DEF V!Checked
    <3>2. CASE vis # V!NoVis
      <4>1. vis' = [vis EXCEPT !.save = ~option] /\ (~option) \in BOOLEAN
        BY <2>0, <2>1, <3>2 DEF V!Checked
      <4>2. /\ vis' \in V!Vises /\ vis'.of = vis.of /\ vis'.count = vis.count
            /\ vis'.stamp = vis.stamp /\ vis'.save = (~option)
        BY <2>0, <4>1 DEF V!Vises
      <4> QED
        BY <2>1, <4>2
    <3> QED
      BY <3>1, <3>2
  <2>3. ShownWell'
    BY <2>0, <2>1, <2>2 DEF PicturesIInv, ShownWell, V!DrawnIsShown, AllDrawn, V!Classes, V!Vises
  <2>4. FilesWell'
    BY <2>1, <2>2 DEF PicturesIInv, FilesWell, Pictures, Runs
  <2>5. RunWell'
    BY <2>1, RunDisturbed DEF PicturesIInv, V!Up
  <2> QED
    BY <2>3, <2>4, <2>5 DEF PicturesIInv
<1>4. CASE V!StopExperiment \/ V!Tick \/ UNCHANGED V!vars
  <2>1. /\ UNCHANGED <<selected, displayed, vis, option, files, saved, crash>>
        /\ run' = run \/ (run' = V!NoRun /\ crash = "none")
        /\ now' \in 1..MaxTime
    <3>1. now \in 1..MaxTime /\ MaxTime \in Nat
      BY DEF PicturesIInv, FilesWell, V!AnimationAssumption
    <3> QED
      BY <1>4, <3>1 DEF V!StopExperiment, V!Tick, V!vars, V!setup, V!Up
  <2>2. ShownWell'
    BY <2>1 DEF PicturesIInv, ShownWell, V!DrawnIsShown, AllDrawn, V!Classes, V!Vises
  <2>3. FilesWell'
    BY <2>1 DEF PicturesIInv, FilesWell, Pictures, Runs
  <2>4. RunWell'
    BY <2>1 DEF PicturesIInv, RunWell, Runs, V!NoRun, V!FramesNamed, V!SaveReturns
  <2> QED
    BY <2>2, <2>3, <2>4 DEF PicturesIInv
<1> QED
  BY <1>1, <1>2, <1>3, <1>4, VisualizerStarted, VisualizerUpdated DEF V!Next

LEMMA PicturesInit ==
  ASSUME V!AnimationAssumption
  PROVE  V!Init => PicturesIInv
<1> SUFFICES ASSUME V!Init PROVE PicturesIInv
  OBVIOUS
<1>0. /\ selected \in PictureExps /\ option = FALSE /\ run = V!NoRun /\ now = 1 /\ files = {} /\ saved = 0
      /\ MaxTime \in Nat \ {0} /\ MaxFrames \in Nat
  BY DEF V!Init, V!AnimationAssumption
<1>1. /\ vis \in V!Vises /\ vis.save = FALSE /\ vis.count = 0
      /\ displayed \in V!Classes \cup {"none"} /\ crash \in {"none", "AttributeError"}
      /\ AllDrawn => vis.of = displayed
  <2>1. CASE Visu[selected] = <<>>
    BY <2>1, VisesAre DEF V!Init
  <2>2. CASE Visu[selected] # <<>>
    <3>1. displayed \in V!Classes
      <4>1. Visu[selected] \in Seq(V!Classes) /\ displayed = Visu[selected][1]
        BY <1>0, <2>2, VisesAre DEF V!Init
      <4> QED
        BY <2>2, <4>1
    <3>2. CASE displayed \in Vtk /\ ~VtkAvailable
      <4>1. vis = V!NoVis /\ crash = "AttributeError" /\ ~AllDrawn
        BY <2>2, <3>2 DEF V!Init, AllDrawn
      <4> QED
        BY <3>1, <4>1, VisesAre
    <3>3. CASE ~(displayed \in Vtk /\ ~VtkAvailable)
      <4>1. vis = [V!NoVis EXCEPT !.of = displayed] /\ crash = "none"
        BY <2>2, <3>3 DEF V!Init
      <4>2. V!NoVis = [of |-> "none", save |-> FALSE, path |-> "none", stamp |-> 0,
                       count |-> 0]
        BY DEF V!NoVis
      <4>3. vis = [of |-> displayed, save |-> FALSE, path |-> "none", stamp |-> 0, count |-> 0]
        BY <4>1, <4>2
      <4>4. vis \in V!Vises
        BY <3>1, <4>3 DEF V!Vises, V!AnimationAssumption
      <4> QED
        BY <3>1, <4>1, <4>3, <4>4
    <3> QED
      BY <3>2, <3>3
  <2> QED
    BY <2>1, <2>2
<1>2. ShownWell
  BY <1>0, <1>1 DEF ShownWell, V!DrawnIsShown
<1>3. FilesWell
  BY <1>0, <1>1, FS_EmptySet DEF FilesWell
<1>4. RunWell
  BY <1>0, <1>1 DEF RunWell, V!FramesNamed, V!SaveReturns
<1> QED
  BY <1>2, <1>3, <1>4 DEF PicturesIInv

\* No picture is written over, and the visualizer that is updated is the one that
\* the box shows (setVisualizer); as long as visualizer and option are left alone
\* during a run, a picture is named after the run that it shows and saving it does
\* not fail (startAnimation, setExpName, saveIfChecked).  Two experiments are not
\* started within a second, whose number is the name of the pictures.
THEOREM PicturesKept ==
  ASSUME V!AnimationAssumption, Fast = FALSE, AllDrawn
  PROVE  Spec => []PicturesInv
<1> DEFINE Kept == part = "pictures" => PicturesIInv
<1>1. Init => Kept
  BY PicturesInit DEF Init
<1>2. Kept /\ [Next]_vars => Kept'
  BY PartSteps, PicturesStep
<1>3. Kept => PicturesInv
  <2> SUFFICES ASSUME PicturesIInv PROVE V!PicturesInv
    BY DEF PicturesInv
  <2>1. V!FramesKept
    BY PicturesFinite DEF V!FramesKept, PicturesIInv, FilesWell
  <2>2. run \in [exp : PictureExps \cup {"none"}, at : 0..MaxTime, quiet : BOOLEAN]
    <3>1. MaxTime \in Nat /\ (run = V!NoRun \/ run \in Runs)
      BY DEF V!AnimationAssumption, PicturesIInv, RunWell
    <3>2. V!NoRun \in [exp : PictureExps \cup {"none"}, at : 0..MaxTime, quiet : BOOLEAN]
      BY <3>1 DEF V!NoRun
    <3>3. ASSUME NEW r \in Runs
          PROVE  r \in [exp : PictureExps \cup {"none"}, at : 0..MaxTime, quiet : BOOLEAN]
      BY <3>1, <3>3 DEF Runs
    <3> QED
      BY <3>1, <3>2, <3>3
  <2>3. V!TypeOK
    BY <2>2 DEF V!TypeOK, PicturesIInv, ShownWell, FilesWell, RunWell, Pictures, Runs
  <2> QED
    BY <2>1, <2>3 DEF V!PicturesInv, PicturesIInv, ShownWell, RunWell
<1> QED
  BY <1>1, <1>2, <1>3, PTL DEF Spec

-----------------------------------------------------------------------------
(* Menus: the ports in the order of comports().                            *)

LEMMA PortsFinite ==
  \A T : K!Cardinality(T) = Cardinality(T)
BY Zenon DEF K!Cardinality, Cardinality

LEMMA PlaceIs ==
  ASSUME K!MenusAssumption
  PROVE  /\ \A p \in K!Ports : K!Place(p) \in 1..Len(AllPorts) /\ AllPorts[K!Place(p)] = p
         /\ \A p, q \in K!Ports : K!Place(p) = K!Place(q) => p = q
         /\ IsFiniteSet(K!Ports) /\ Len(AllPorts) \in Nat
<1>0. AllPorts \in Seq(K!Ports)
  BY DEF K!MenusAssumption
<1>1. DOMAIN AllPorts = 1..Len(AllPorts) /\ Len(AllPorts) \in Nat
  BY <1>0
<1>2. \A p \in K!Ports : K!Place(p) \in 1..Len(AllPorts) /\ AllPorts[K!Place(p)] = p
  <2> SUFFICES ASSUME NEW p \in K!Ports
               PROVE  K!Place(p) \in 1..Len(AllPorts) /\ AllPorts[K!Place(p)] = p
    OBVIOUS
  <2>1. \E i \in DOMAIN AllPorts : AllPorts[i] = p
    BY DEF K!Ports
  <2>2. K!Place(p) \in DOMAIN AllPorts /\ AllPorts[K!Place(p)] = p
    BY <2>1 DEF K!Place
  <2> QED
    BY <1>1, <2>2
<1>3. \A p, q \in K!Ports : K!Place(p) = K!Place(q) => p = q
  BY <1>2
<1>4. IsFiniteSet(K!Ports)
  <2> DEFINE f == [p \in K!Ports |-> K!Place(p)]
  <2>1. f \in Injection(K!Ports, 1..Len(AllPorts))
    BY <1>2, <1>3 DEF Injection, IsInjective
  <2>2. IsFiniteSet(1..Len(AllPorts))
    BY <1>1, FS_Interval
  <2> HIDE DEF f
  <2> QED
    BY <2>1, <2>2, FS_Injection
<1> QED
  BY <1>1, <1>2, <1>3, <1>4

\* There is an n-th port, as many as there are, and they are different: the number
\* of ports before a port is an injection into as many numbers, so it takes each.
LEMMA NthIs ==
  ASSUME K!MenusAssumption, NEW Q \in SUBSET K!Ports
  PROVE  /\ IsFiniteSet(Q) /\ Cardinality(Q) \in Nat
         /\ \A n \in 1..Cardinality(Q) : K!Nth(Q, n) \in Q
         /\ \A n, m \in 1..Cardinality(Q) : K!Nth(Q, n) = K!Nth(Q, m) => n = m
<1> DEFINE Before(p) == {q \in Q : K!Place(q) < K!Place(p)}
           c == Cardinality(Q)
           r(p) == Cardinality(Before(p))
           f == [p \in Q |-> r(p)]
<1>1. IsFiniteSet(Q) /\ c \in Nat
  BY PlaceIs, FS_Subset, FS_CardinalityType
<1>2. \A p \in Q : K!Place(p) \in Int
  BY PlaceIs
<1>3. ASSUME NEW p \in Q PROVE IsFiniteSet(Before(p)) /\ r(p) \in 0..(c - 1) /\ r(p) \in Int
  <2>1. IsFiniteSet(Q \ {p}) /\ Cardinality(Q \ {p}) = c - 1
    BY <1>1, FS_RemoveElement
  <2>2. Before(p) \in SUBSET (Q \ {p})
    BY <1>2
  <2>3. IsFiniteSet(Before(p)) /\ r(p) <= c - 1
    BY <2>1, <2>2, FS_Subset
  <2>4. r(p) \in Nat
    BY <2>3, FS_CardinalityType
  <2> HIDE DEF r, c
  <2> QED
    BY <1>1, <2>3, <2>4
<1>4. ASSUME NEW p \in Q, NEW q \in Q, K!Place(p) < K!Place(q) PROVE r(p) < r(q)
  <2>1. Before(p) \cup {p} \in SUBSET Before(q) /\ p \notin Before(p)
    BY <1>2, <1>4
  <2>2. Cardinality(Before(p) \cup {p}) = r(p) + 1
    BY <1>3, <2>1, FS_AddElement
  <2>3. Cardinality(Before(p) \cup {p}) <= r(q)
    BY <1>3, <2>1, FS_Subset
  <2>4. r(p) \in Int /\ r(q) \in Int
    BY <1>3
  <2> QED
    BY <2>2, <2>3, <2>4
<1>5. \A p, q \in Q : r(p) = r(q) => p = q
  <2> SUFFICES ASSUME NEW p \in Q, NEW q \in Q, p # q PROVE r(p) # r(q)
    OBVIOUS
  <2>1. K!Place(p) # K!Place(q) /\ K!Place(p) \in Int /\ K!Place(q) \in Int
    BY <1>2, PlaceIs
  <2>2. r(p) \in Int /\ r(q) \in Int
    BY <1>3
  <2>3. CASE K!Place(p) < K!Place(q)
    <3>1. r(p) < r(q)
      BY <1>4, <2>3
    <3> QED
      BY <2>2, <3>1
  <2>4. CASE K!Place(q) < K!Place(p)
    <3>1. r(q) < r(p)
      BY <1>4, <2>4
    <3> QED
      BY <2>2, <3>1
  <2> QED
    BY <2>1, <2>3, <2>4
<1>6. \A k \in 0..(c - 1) : \E p \in Q : r(p) = k
  <2> DEFINE T == 0..(c - 1)
  <2>1. \A p \in Q : r(p) \in T
    BY <1>3
  <2> HIDE DEF r
  <2>2. f \in Injection(Q, T)
    BY <1>5, <2>1 DEF Injection, IsInjective
  <2>3. IsFiniteSet(T) /\ Cardinality(T) = c
    <3>1. 0 \in Int /\ c - 1 \in Int
      BY <1>1
    <3> HIDE DEF c
    <3>2. IsFiniteSet(T) /\ Cardinality(T) = IF 0 > c - 1 THEN 0 ELSE (c - 1) - 0 + 1
      BY <3>1, FS_Interval
    <3> QED
      BY <1>1, <3>2
  <2>4. f \in Surjection(Q, T)
    BY <2>2, <2>3, FS_Injection
  <2> QED
    BY <2>4 DEF Surjection
<1>7. ASSUME NEW n \in 1..c PROVE K!Nth(Q, n) \in Q /\ r(K!Nth(Q, n)) = n - 1
  <2>1. n - 1 \in 0..(c - 1)
    BY <1>1
  <2>2. \E p \in Q : r(p) = n - 1
    BY <1>6, <2>1
  <2>3. K!Nth(Q, n) = CHOOSE p \in Q : r(p) = n - 1
    BY PortsFinite DEF K!Nth
  <2> HIDE DEF r
  <2> QED
    BY <2>2, <2>3
<1>8. \A n, m \in 1..c : K!Nth(Q, n) = K!Nth(Q, m) => n = m
  <2> SUFFICES ASSUME NEW n \in 1..c, NEW m \in 1..c, K!Nth(Q, n) = K!Nth(Q, m) PROVE n = m
    OBVIOUS
  <2>0. r(K!Nth(Q, n)) = n - 1 /\ r(K!Nth(Q, m)) = m - 1
    BY <1>7
  <2> HIDE DEF r, c
  <2>1. n - 1 = m - 1 /\ n \in Int /\ m \in Int
    BY <1>1, <2>0
  <2> QED
    BY <2>1
<1> QED
  BY <1>1, <1>7, <1>8

\* The inductive invariant: a port that was not given is an Arduino's; until the
\* window is there nothing is chosen.
PortNames == K!Ports \cup {""}

MenusTypes ==
  /\ up \in BOOLEAN /\ plugged \subseteq K!Ports
  /\ port \in [K!Conns -> PortNames] /\ chosen \in [K!Conns -> PortNames]
  /\ menu \in [of : K!Conns \cup {0}, entries : SUBSET K!Ports]
  /\ menu.entries # {} => menu.of \in K!Conns
  /\ tcpPort \in K!Texts /\ timer \in K!Texts
  /\ crash \in {"none", "IndexError", "TypeError", "no port number", "no timer time"}

PortsWell ==
  /\ \A c \in K!Conns : port[c] \in Arduinos \cup {chosen[c]}
  /\ K!ChosenKept /\ K!PortsDistinct
  /\ ~up => port = Preset /\ chosen = Preset

MenusIInv == MenusTypes /\ PortsWell

LEMMA MenusAre ==
  ASSUME K!MenusAssumption
  PROVE  /\ Preset \in [K!Conns -> PortNames] /\ "" \notin K!Ports /\ Arduinos \subseteq K!Ports
         /\ \A c \in K!Conns : c \in Nat \ {0}
<1>1. Serials \in Seq({Serials[i] : i \in K!Conns})
  BY DEF K!MenusAssumption
<1>2. \A c \in K!Conns : c \in Nat \ {0}
  BY <1>1 DEF K!Conns
<1> QED
  BY <1>2 DEF K!MenusAssumption, PortNames

\* An Arduino for each connection that asks: setDefaultComPort at the start.
LEMMA PortsGiven ==
  ASSUME K!MenusAssumption, MenusIInv, K!StartUp
  PROVE  MenusIInv'
<1>0. /\ port = Preset /\ chosen = Preset /\ MenusTypes
      /\ up' = TRUE /\ UNCHANGED <<plugged, chosen, menu, tcpPort, timer>>
  BY DEF MenusIInv, MenusTypes, PortsWell, K!StartUp
<1>1. CASE \E c \in K!Asking : c > K!Cardinality(K!ArduinoPorts)
  <2>1. crash' = "IndexError" /\ port' = port
    BY <1>1 DEF K!StartUp
  <2> QED
    BY <1>0, <2>1 DEF MenusIInv, MenusTypes, PortsWell, K!ChosenKept, K!PortsDistinct,
                      K!Ports, K!Conns, K!Texts, PortNames
<1>2. CASE ~\E c \in K!Asking : c > K!Cardinality(K!ArduinoPorts)
  <2> DEFINE A == K!ArduinoPorts
  <2>0. A \in SUBSET K!Ports /\ A \subseteq Arduinos
    BY <1>0 DEF MenusTypes, K!ArduinoPorts
  <2>1. /\ port' = [c \in K!Conns |-> IF c \in K!Asking THEN K!Nth(A, c) ELSE Preset[c]]
        /\ crash' = crash
    BY <1>2 DEF K!StartUp, K!DefaultPort
  <2>2. \A c \in K!Asking : c \in 1..Cardinality(A) /\ c \in K!Conns /\ Preset[c] = ""
    <3> SUFFICES ASSUME NEW c \in K!Asking
                 PROVE  c \in 1..Cardinality(A) /\ c \in K!Conns /\ Preset[c] = ""
      OBVIOUS
    <3>1. c \in K!Conns /\ Preset[c] = ""
      BY DEF K!Asking
    <3>2. ~(c > Cardinality(A)) /\ Cardinality(A) \in Nat
      BY <1>2, <2>0, PortsFinite, NthIs
    <3>3. c \in Nat \ {0}
      BY <3>1, MenusAre
    <3>4. \A n \in Nat : ~(c > n) => c \in 1..n
      BY <3>3
    <3> HIDE DEF A
    <3> QED
      BY <3>1, <3>2, <3>4
  <2> HIDE DEF A
  <2>3. \A c \in K!Asking : K!Nth(A, c) \in Arduinos /\ K!Nth(A, c) \in K!Ports
    BY <2>0, <2>2, NthIs
  <2>4. \A c, d \in K!Asking : K!Nth(A, c) = K!Nth(A, d) => c = d
    BY <2>0, <2>2, NthIs
  <2>5. /\ port' \in [K!Conns -> PortNames]
        /\ \A c \in K!Conns : port'[c] \in Arduinos \cup {chosen[c]}
    BY <1>0, <2>1, <2>3, MenusAre DEF PortNames
  <2>6. K!ChosenKept'
    BY <1>0, <2>1, <2>2, MenusAre DEF K!ChosenKept, K!Conns
  <2>7. K!PortsDistinct'
    <3> SUFFICES ASSUME NEW c \in K!Conns, NEW d \in K!Conns, c # d, Preset[c] = "", Preset[d] = "",
                        port'[c] # "", port'[c] = port'[d]
                 PROVE  FALSE
      BY <1>0 DEF K!PortsDistinct, K!Conns
    <3>1. c \in K!Asking
      BY <2>1
    <3>2. d \in K!Asking
      BY <2>1
    <3> QED
      BY <2>1, <2>4, <3>1, <3>2
  <2>8. MenusTypes'
    BY <1>0, <2>1, <2>5 DEF MenusTypes, K!Ports, K!Conns, K!Texts, PortNames
  <2> QED
    BY <1>0, <2>5, <2>6, <2>7, <2>8 DEF MenusIInv, PortsWell, K!Conns
<1> QED
  BY <1>1, <1>2

LEMMA MenusStep ==
  ASSUME K!MenusAssumption, MenusIInv, [K!Next]_K!vars
  PROVE  MenusIInv'
<1>0. /\ up \in BOOLEAN /\ plugged \subseteq K!Ports
      /\ port \in [K!Conns -> PortNames] /\ chosen \in [K!Conns -> PortNames]
      /\ menu \in [of : K!Conns \cup {0}, entries : SUBSET K!Ports]
      /\ menu.entries # {} => menu.of \in K!Conns
      /\ \A c \in K!Conns : port[c] \in Arduinos \cup {chosen[c]}
      /\ K!ChosenKept /\ K!PortsDistinct
  BY DEF MenusIInv, MenusTypes, PortsWell
<1>1. ASSUME UNCHANGED <<up, port, chosen>>, MenusTypes' PROVE MenusIInv'
  BY <1>1 DEF MenusIInv, PortsWell, K!ChosenKept, K!PortsDistinct, K!Conns
<1>2. ASSUME NEW p \in K!Ports, up, K!Plug(p) PROVE MenusIInv'
  <2>1. plugged' \subseteq K!Ports /\ UNCHANGED <<up, port, chosen, menu, tcpPort, timer, crash>>
    BY <1>0, <1>2 DEF K!Plug
  <2>2. MenusTypes'
    BY <2>1 DEF MenusIInv, MenusTypes, K!Ports, K!Conns, K!Texts, PortNames
  <2> QED
    BY <1>1, <2>1, <2>2
<1>3. ASSUME NEW p \in K!Ports, K!ChoosePort(p) PROVE MenusIInv'
  <2>0. p \in menu.entries /\ menu.of \in K!Conns /\ up /\ p # ""
    BY <1>0, <1>3, MenusAre DEF K!ChoosePort, K!Running
  <2>1. /\ port' = [port EXCEPT ![menu.of] = p] /\ chosen' = [chosen EXCEPT ![menu.of] = p]
        /\ menu' = [of |-> 0, entries |-> {}]
        /\ UNCHANGED <<up, plugged, tcpPort, timer, crash>>
    BY <1>3 DEF K!ChoosePort, K!NoMenu
  <2>2. /\ port' \in [K!Conns -> PortNames] /\ chosen' \in [K!Conns -> PortNames]
        /\ \A c \in K!Conns : port'[c] \in Arduinos \cup {chosen'[c]}
    BY <1>0, <2>0, <2>1 DEF PortNames
  <2>3. K!ChosenKept'
    BY <1>0, <2>0, <2>1 DEF K!ChosenKept, K!Conns
  <2>4. MenusTypes'
    BY <2>1, <2>2 DEF MenusIInv, MenusTypes, K!Ports, K!Conns, K!Texts, PortNames
  <2>5. K!PortsDistinct'
    BY <1>0, <2>0, <2>1 DEF K!PortsDistinct, K!Conns
  <2> QED
    BY <2>0, <2>1, <2>2, <2>3, <2>4, <2>5 DEF MenusIInv, PortsWell, K!Conns
<1>4. ASSUME NEW c \in K!Conns, K!OpenPorts(c) PROVE MenusIInv'
  <2>0. up
    BY <1>4 DEF K!OpenPorts, K!Running
  <2>1. /\ menu' = [of |-> c, entries |-> plugged]
        /\ chosen' = IF port[c] = "" THEN [chosen EXCEPT ![c] = port'[c]] ELSE chosen
        /\ UNCHANGED <<up, plugged, tcpPort, timer, crash>>
    BY <1>4 DEF K!OpenPorts
  <2>2. \/ port' = port
        \/ \E p \in Arduinos : port' = [port EXCEPT ![c] = p] /\ port[c] = ""
    <3> DEFINE A == K!ArduinoPorts
    <3>1. CASE port[c] = "" /\ A # {}
      <4>1. A \in SUBSET K!Ports /\ A \subseteq Arduinos
        BY <1>0 DEF K!ArduinoPorts
      <4>2. 1 \in 1..Cardinality(A)
        <5>1. IsFiniteSet(A) /\ Cardinality(A) \in Nat
          BY <4>1, NthIs
        <5>2. Cardinality(A) # 0
          BY <3>1, <5>1, FS_EmptySet
        <5> HIDE DEF A
        <5> QED
          BY <5>1, <5>2
      <4>3. K!Nth(A, 1) \in Arduinos
        BY <4>1, <4>2, NthIs
      <4>4. port' = [port EXCEPT ![c] = K!Nth(A, 1)]
        BY <1>4, <3>1 DEF K!OpenPorts, K!NeedsPort
      <4> QED
        BY <3>1, <4>3, <4>4
    <3>2. CASE ~(port[c] = "" /\ A # {})
      BY <1>4, <3>2 DEF K!OpenPorts, K!NeedsPort
    <3> QED
      BY <3>1, <3>2
  <2>3. port' \in [K!Conns -> PortNames]
    BY <1>0, <2>2, MenusAre DEF PortNames
  <2>4. /\ chosen' \in [K!Conns -> PortNames]
        /\ \A d \in K!Conns \ {c} : port'[d] = port[d] /\ chosen'[d] = chosen[d]
        /\ port[c] = "" => chosen'[c] = port'[c]
        /\ port[c] # "" => port'[c] = port[c] /\ chosen'[c] = chosen[c]
    BY <1>0, <2>1, <2>2, <2>3 DEF PortNames
  <2>5. \A d \in K!Conns : port'[d] \in Arduinos \cup {chosen'[d]}
    BY <1>0, <2>4
  <2>6. K!ChosenKept'
    <3>1. \A d \in K!Conns : chosen'[d] # "" => port'[d] = chosen'[d]
      BY <1>0, <2>4 DEF K!ChosenKept
    <3> QED
      BY <3>1 DEF K!ChosenKept, K!Conns
  <2>7. K!PortsDistinct'
    <3>1. \A d \in K!Conns : chosen'[d] = "" /\ port'[d] # "" => chosen[d] = "" /\ port'[d] = port[d]
      BY <2>4
    <3>2. \A d \in K!Conns : chosen'[d] = "" => chosen[d] = "" /\ port'[d] = port[d]
      BY <1>0, <2>4 DEF K!ChosenKept
    <3> QED
      BY <1>0, <3>1, <3>2 DEF K!PortsDistinct, K!Conns
  <2>8. MenusTypes'
    BY <1>0, <2>1, <2>3, <2>4 DEF MenusIInv, MenusTypes, K!Ports, K!Conns, K!Texts, PortNames
  <2> QED
    BY <2>0, <2>1, <2>3, <2>5, <2>6, <2>7, <2>8 DEF MenusIInv, PortsWell, K!Conns
<1>5. CASE \/ \E c \in K!Conns : K!OpenBauds(c)
           \/ \E t \in K!Texts \ {"outside"} : K!TcpMenu(t)
           \/ K!IACEMenu \/ \E t \in K!Texts : K!SetTimerTime(t)
           \/ K!Connect \/ K!StartExperiment \/ UNCHANGED K!vars
  <2>1. /\ UNCHANGED <<up, plugged, port, chosen, menu>>
        /\ tcpPort' \in K!Texts /\ timer' \in K!Texts
        /\ crash' \in {"none", "IndexError", "TypeError", "no port number", "no timer time"}
    BY <1>5 DEF K!OpenBauds, K!TcpMenu, K!IACEMenu, K!SetTimerTime, K!Connect, K!StartExperiment,
                K!vars, K!Texts, MenusIInv, MenusTypes
  <2>2. MenusTypes'
    BY <1>0, <2>1 DEF MenusTypes, K!Ports, K!Conns, K!Texts, PortNames
  <2> QED
    BY <1>1, <2>1, <2>2
<1> QED
  BY <1>2, <1>3, <1>4, <1>5, PortsGiven DEF K!Next

LEMMA MenusInit ==
  ASSUME K!MenusAssumption
  PROVE  K!Init => MenusIInv
<1> SUFFICES ASSUME K!Init PROVE MenusIInv
  OBVIOUS
<1>1. /\ up = FALSE /\ crash = "none" /\ plugged \subseteq K!Ports
      /\ port = Preset /\ chosen = Preset /\ menu = [of |-> 0, entries |-> {}]
      /\ tcpPort = "number" /\ timer = "number"
  BY DEF K!Init, K!NoMenu
<1>2. MenusTypes
  BY <1>1, MenusAre DEF MenusTypes, K!Texts
<1> QED
  BY <1>1, <1>2 DEF MenusIInv, PortsWell, K!ChosenKept, K!PortsDistinct

\* A port that the class, the user or a menu gave stays until the user gives
\* another, whatever is plugged in and whichever menu is opened (getComPorts); "the
\* counter describes the connection number": at its start the program gives no port
\* twice (setDefaultComPort).
THEOREM PortsStay ==
  ASSUME K!MenusAssumption
  PROVE  Spec => []PortsInv
<1> DEFINE Kept == part = "menus" => MenusIInv
<1>1. Init => Kept
  BY MenusInit DEF Init
<1>2. Kept /\ [Next]_vars => Kept'
  BY PartSteps, MenusStep
<1>3. Kept => PortsInv
  BY DEF PortsInv, MenusIInv, MenusTypes, PortsWell, K!PortsInv, K!TypeOK, PortNames
<1> QED
  BY <1>1, <1>2, <1>3, PTL DEF Spec
=============================================================================
