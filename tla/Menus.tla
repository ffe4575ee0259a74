------------------------------- MODULE Menus -------------------------------
(***************************************************************************)
(* The menus that choose where the connections go, and the dialogs for     *)
(* numbers (pywisp/gui.py, pywisp/utils.py).  A serial connection has a    *)
(* port, that the program may choose; a TCP connection has a port number,  *)
(* and the experiment has a timer time, both as the text of a field.       *)
(*                                                                         *)
(* An exception in a slot ends the program.                                *)
(***************************************************************************)
EXTENDS Integers, Sequences, FiniteSets

CONSTANTS
  Serials,    \* the serial connections, in the order of the registry
  Preset,     \* the ports of their classes, "" for none
  AllPorts,   \* the ports that can be there, in the order of comports()
  Arduinos,   \* those with 'Arduino' in their description
  Scarce      \* may there be Arduinos, but one too few for the connections?

Ports == {AllPorts[i] : i \in DOMAIN AllPorts}
Conns == DOMAIN Serials

\* assumed of the constants
MenusAssumption ==
  /\ Serials \in Seq({Serials[i] : i \in Conns}) /\ AllPorts \in Seq(Ports)
  /\ \A i, j \in DOMAIN AllPorts : AllPorts[i] = AllPorts[j] => i = j
  /\ Arduinos \subseteq Ports
  /\ Preset \in [Conns -> Ports \cup {""}] /\ "" \notin Ports
  /\ Scarce \in BOOLEAN

\* What is in a field: a number in its range, one that is outside and that the
\* validator lets pass as unfinished, or nothing.
Texts == {"number", "outside", ""}

VARIABLES
  up,        \* has the window been built?
  plugged,   \* the ports that are there
  port,      \* settings['port'] of the serial connections
  chosen,    \* history: the port that the class, the user or a menu gave, "" for none
  menu,      \* the submenu on display: its connection and its entries
  tcpPort,   \* settings['port'] of a TCP connection
  timer,     \* config['TimerTime']
  crash      \* the exception that has ended the program

vars == <<up, plugged, port, chosen, menu, tcpPort, timer, crash>>
NoMenu == [of |-> 0, entries |-> {}]
Running == up /\ crash = "none"

\* comports() lists the ports of P in the order of AllPorts: the n-th of them
Place(p) == CHOOSE i \in DOMAIN AllPorts : AllPorts[i] = p
Nth(P, n) == CHOOSE p \in P : Cardinality({q \in P : Place(q) < Place(p)}) = n - 1

ArduinoPorts == plugged \cap Arduinos

\* mutants: the number of the connection is not used; any port will do
DefaultFirst(c) == Nth(ArduinoPorts, 1)
DefaultAny(c) == Nth(plugged, c)

\* setDefaultComPort: the Arduino with the number of the connection
DefaultPort(c) == Nth(ArduinoPorts, c)

\* the connections, without a port, for which the program looks for an Arduino
Asking == {c \in Conns :
             Preset[c] = "" /\ ArduinoPorts # {} /\ Cardinality(ArduinoPorts) >= c - 1}

\* __init__: cnt counts from 0, and cnt = len is let through
StartUp ==
  /\ ~up /\ crash = "none" /\ up' = TRUE
  /\ IF \E c \in Asking : c > Cardinality(ArduinoPorts)
     THEN crash' = "IndexError" /\ UNCHANGED port
     ELSE /\ port' = [c \in Conns |-> IF c \in Asking THEN DefaultPort(c) ELSE Preset[c]]
          /\ UNCHANGED crash
  /\ UNCHANGED <<plugged, chosen, menu, tcpPort, timer>>

Plug(p) ==
  /\ plugged' = IF p \in plugged THEN plugged \ {p} ELSE plugged \cup {p}
  /\ UNCHANGED <<up, port, chosen, menu, tcpPort, timer, crash>>

\* mutant: a port that is not there any more is replaced
NeedsGone(c) == port[c] \notin plugged
NeedsPort(c) == port[c] = ""

\* getComPorts: the menu is filled; the first Arduino for a connection without
OpenPorts(c) ==
  /\ Running
  /\ port' = IF NeedsPort(c) /\ ArduinoPorts # {}
             THEN [port EXCEPT ![c] = Nth(ArduinoPorts, 1)] ELSE port
  /\ chosen' = IF port[c] = "" THEN [chosen EXCEPT ![c] = port'[c]] ELSE chosen
  /\ menu' = [of |-> c, entries |-> plugged]
  /\ UNCHANGED <<up, plugged, tcpPort, timer, crash>>

\* setPort(p): an entry of the menu that is on display
ChoosePort(p) ==
  /\ Running /\ p \in menu.entries
  /\ port' = [port EXCEPT ![menu.of] = p]
  /\ chosen' = [chosen EXCEPT ![menu.of] = p]
  /\ menu' = NoMenu
  /\ UNCHANGED <<up, plugged, tcpPort, timer, crash>>

\* getBauds: the rates are numbers, QAction takes a text
OpenBauds(c) ==
  /\ Running /\ crash' = "TypeError"
  /\ UNCHANGED <<up, plugged, port, chosen, menu, tcpPort, timer>>

\* _getTcpMenu and setTimerTime: OK does not ask the validator
TcpMenu(t) ==
  /\ Running /\ tcpPort' = t
  /\ UNCHANGED <<up, plugged, port, chosen, menu, timer, crash>>

IACEMenu ==
  /\ Running /\ tcpPort' = "number"
  /\ UNCHANGED <<up, plugged, port, chosen, menu, timer, crash>>

SetTimerTime(t) ==
  /\ Running /\ timer' = t
  /\ UNCHANGED <<up, plugged, port, chosen, menu, tcpPort, crash>>

\* connect: int(port) of the socket; startExperiment: int(TimerTime)
Connect ==
  /\ Running /\ crash' = IF tcpPort = "" THEN "no port number" ELSE "none"
  /\ UNCHANGED <<up, plugged, port, chosen, menu, tcpPort, timer>>

StartExperiment ==
  /\ Running /\ crash' = IF timer = "" THEN "no timer time" ELSE "none"
  /\ UNCHANGED <<up, plugged, port, chosen, menu, tcpPort, timer>>

Init ==
  /\ up = FALSE /\ crash = "none"
  /\ plugged \in {P \in SUBSET Ports : ~Scarce =>
                    LET n == Cardinality(P \cap Arduinos)
                    IN n = 0 \/ n + 1 \notin Conns \/ Preset[n + 1] # ""}
  /\ port = Preset /\ chosen = Preset
  /\ menu = NoMenu /\ tcpPort = "number" /\ timer = "number"

Next ==
  \/ StartUp \/ (\E p \in Ports : up /\ Plug(p)) \/ (\E p \in Ports : ChoosePort(p))
  \/ (\E c \in Conns : OpenPorts(c) \/ OpenBauds(c))
  \/ (\E t \in Texts \ {"outside"} : TcpMenu(t)) \/ IACEMenu
  \/ (\E t \in Texts : SetTimerTime(t))
  \/ Connect \/ StartExperiment

Spec == Init /\ [][Next]_vars

-----------------------------------------------------------------------------
\* The types of the variables.
TypeOK ==
  /\ up \in BOOLEAN /\ plugged \subseteq Ports
  /\ port \in [Conns -> Ports \cup {""}] /\ chosen \in [Conns -> Ports \cup {""}]
  /\ menu.of \in Conns \cup {0} /\ menu.entries \subseteq Ports
  /\ tcpPort \in Texts /\ timer \in Texts
  /\ crash \in {"none", "IndexError", "TypeError", "no port number", "no timer time"}
  /\ \A c \in Conns : port[c] \in Arduinos \cup {chosen[c]}

\* A port that the class, the user or a menu gave stays until the user gives
\* another, whatever is plugged in and whichever menu is opened.
ChosenKept == \A c \in Conns : chosen[c] # "" => port[c] = chosen[c]

\* "If more than one Arduino can found, the counter describes the connection
\* number": the start of the program does not give one port to two connections.
PortsDistinct ==
  \A c, d \in Conns : c # d /\ chosen[c] = "" /\ chosen[d] = "" /\ port[c] # "" => port[c] # port[d]

\* What was chosen stays; at its start the program gives no port twice.
PortsInv == TypeOK /\ ChosenKept /\ PortsDistinct

-----------------------------------------------------------------------------
(* What a comment or a guide says and the code does not keep.              *)

\* "Can't set comport for Arduino automatically! Set the port manually!": too
\* few Arduinos are reported, and the window is there to do it.
StartsUp == crash # "IndexError"

\* "If more than one Arduino can found, the counter describes the connection
\* number": nor does a menu give a port that another connection has.
MenuGivesFree ==
  [][\A c, d \in Conns : OpenPorts(c) /\ NeedsPort(c) /\ port'[c] # "" /\ c # d =>
       port[d] # port'[c]]_vars

\* "Sets the baud rate in serial connection menu": the menu opens.
BaudMenuOpens == crash # "TypeError"

\* "integer settings with a min and max value": what is accepted is between.
TimerInRange == timer = "number"

\* "Qt Dialog handler for tcp settings": what is accepted can be connected to.
TcpConnects == crash # "no port number"
=============================================================================
