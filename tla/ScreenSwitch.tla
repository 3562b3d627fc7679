---------------------------- MODULE ScreenSwitch ----------------------------
(***************************************************************************)
(* Which screen has the cursor: Server's list of connected screens, the    *)
(* active one, the wait or double tap at an edge, the screen saver and the *)
(* clients being closed.                                                   *)
(* The server runs on one event queue: an action is one event handler.  A  *)
(* connected client is a proxy object, which is deleted when it has gone;  *)
(* the pointers m_active, m_activeSaver and m_switchScreen may outlive it, *)
(* and a handler that follows one then is the action of a dead process.    *)
(* Geometry is abstracted: at an edge the neighbor is any connected screen *)
(* or none, and a client accepts every position.                           *)
(***************************************************************************)
EXTENDS Naturals, FiniteSets

CONSTANTS
    Proxies,   \* client proxies, one for each connection ever made
    Names,     \* screen names the clients come with
    Name,      \* the name of each proxy
    Primary,   \* the screen of the server
    Nowhere,   \* the null pointer
    Directions,
    WaitDelay, \* TRUE: option switchDelay is set
    TwoTap     \* TRUE: option switchDoubleTap is set

ASSUME ScreenAssumption ==
    /\ Name \in [Proxies -> Names]
    /\ Primary \notin Proxies /\ Nowhere \notin Proxies /\ Primary # Nowhere
    /\ Nowhere \notin Directions
    /\ WaitDelay \in BOOLEAN /\ TwoTap \in BOOLEAN

VARIABLES
    status,      \* Proxies -> new, listed (m_clients), closing (m_oldClients), gone
    down,        \* proxies whose ClientProxyDisconnected event is queued
    configured,  \* names in the configuration
    active,      \* m_active
    entered,     \* screens that were told enter and not leave since
    saverOn,     \* the screen saver of the server runs
    saver,       \* m_activeSaver
    wait,        \* m_switchScreen, m_switchDir, m_switchWaitTimer, two tap
    locked,      \* m_lockedToScreen
    crashed,     \* a deleted proxy was used
    strayed      \* for the properties: a switch while the saver ran, or
                 \* to a screen that was not connected any more

vars == <<status, down, configured, active, entered, saverOn, saver, wait,
          locked, crashed, strayed>>
screens == <<status, down, configured>>
saverVars == <<saverOn, saver, strayed>>

-----------------------------------------------------------------------------
(* Switching.                                                               *)

Listed == {p \in Proxies : status[p] = "listed"}
Screens == Listed \cup {Primary}
Deleted(s) == s \in Proxies /\ status[s] = "gone"

NoSwitchDone == [screen |-> Nowhere, dir |-> Nowhere, timer |-> FALSE, tap |-> "off"]

StopSwitchLeavesTimer ==    \* mutant: the timer is not stopped
    [NoSwitchDone EXCEPT !.timer = wait.timer]

\* stopSwitch.
StopSwitch == IF wait.screen = Nowhere THEN wait ELSE NoSwitchDone

\* switchScreen.  Only the server's own screen can refuse to be left.
SwitchScreen(dst) ==
    /\ wait' = StopSwitch
    /\ \/ /\ active = dst
          /\ crashed' = Deleted(dst)
          /\ UNCHANGED <<active, entered>>
       \/ /\ active # dst
          /\ crashed' = (Deleted(dst) \/ Deleted(active))
          /\ active' = dst
          /\ entered' = (entered \ {active}) \cup {dst}
       \/ /\ active # dst /\ active = Primary
          /\ crashed' = Deleted(dst)
          /\ UNCHANGED <<active, entered>>

\* For the properties.
Stray(dst) ==
    strayed' = (strayed \/ dst \notin Screens \/ (saver # Nowhere /\ active' # active))

\* What isSwitchOkay leaves of the wait at an edge, before the lock is asked.
\* The screen to switch to is only replaced for a new direction.
AtEdge(dst, dir, fast) ==
    LET new    == dir # wait.dir
        aim    == IF new \/ wait.screen = Nowhere
                  THEN [wait EXCEPT !.screen = dst, !.dir = dir] ELSE wait
        second == TwoTap /\ ~new /\ wait.tap = "armed" /\ fast
        tapped == IF TwoTap /\ ~second THEN [aim EXCEPT !.tap = "engaged"] ELSE aim
    IN  [wait  |-> IF WaitDelay /\ ~second THEN [tapped EXCEPT !.timer = TRUE] ELSE tapped,
         allow |-> second \/ (~TwoTap /\ ~WaitDelay)]

\* isSwitchOkay and the switch that follows it.  corner: in a locked corner;
\* held: a mouse button is down, or a modifier is missing.
MoveWith(dst, dir, fast, corner, held) ==
    LET edge == AtEdge(dst, dir, fast) IN
      \/ /\ edge.allow /\ ~corner /\ ~held
         /\ SwitchScreen(dst)
      \/ /\ ~(edge.allow /\ ~corner /\ ~held)
         /\ wait' = IF corner \/ edge.allow THEN NoSwitchDone ELSE edge.wait
         /\ UNCHANGED <<active, entered, crashed>>

MoveToEdge(dst, dir, fast, corner, held) ==
    MoveWith(dst, dir, fast, corner, held \/ locked)

\* onMouseMovePrimary, onMouseMoveSecondary at an edge of the active screen.
Edge ==
    /\ ~Deleted(active)
    /\ \E dir \in Directions, fast, corner, held \in BOOLEAN :
         \/ \E dst \in Screens : MoveToEdge(dst, dir, fast, corner, held)
         \/ /\ wait' = StopSwitch        \* no neighbor there
            /\ UNCHANGED <<active, entered, crashed>>
    /\ Stray(Primary)
    /\ UNCHANGED <<screens, saverOn, saver, locked>>

\* The same inside the screen, noSwitch: the second tap may be armed.
Inside ==
    /\ ~Deleted(active)
    /\ wait # NoSwitchDone
    /\ \E tap \in IF wait.tap = "engaged" THEN {"off", "engaged", "armed"}
                                          ELSE {wait.tap, "off"} :
         wait' = [wait EXCEPT !.timer = FALSE, !.tap = tap]
    /\ UNCHANGED <<screens, saverVars, active, entered, locked, crashed>>

\* Motion that dereferences the deleted active screen.
UseDeleted ==
    /\ Deleted(active)
    /\ crashed' = TRUE
    /\ UNCHANGED <<screens, saverVars, active, entered, wait, locked>>

\* handleSwitchWaitTimeout.
SwitchWaitTimeout ==
    /\ wait.timer
    /\ \E held \in BOOLEAN :
         IF locked \/ held
         THEN /\ wait' = StopSwitch
              /\ UNCHANGED <<active, entered, crashed>>
         ELSE SwitchScreen(wait.screen)
    /\ Stray(wait.screen)
    /\ UNCHANGED <<screens, saverOn, saver, locked>>

\* handleSwitchToScreenEvent, handleSwitchInDirectionEvent,
\* handleToggleScreenEvent: jumpToScreen, whatever the lock says.
Jump ==
    /\ \E dst \in Screens : SwitchScreen(dst)
    /\ Stray(Primary)
    /\ UNCHANGED <<screens, saverOn, saver, locked>>

\* handleLockCursorToScreenEvent.
LockCursorToScreen ==
    /\ locked' = ~locked
    /\ UNCHANGED <<screens, saverVars, active, entered, wait, crashed>>

-----------------------------------------------------------------------------
(* Screen saver.                                                            *)

\* onScreensaver(true): the cursor goes home, and its screen is remembered.
ScreensaverStarts ==
    /\ ~saverOn /\ saverOn' = TRUE
    /\ saver' = active
    /\ IF active # Primary THEN SwitchScreen(Primary)
       ELSE UNCHANGED <<wait, active, entered, crashed>>
    /\ UNCHANGED <<screens, locked, strayed>>

\* onScreensaver(false): back to where the cursor was.
ScreensaverEnds ==
    /\ saverOn /\ saverOn' = FALSE
    /\ saver' = Nowhere
    /\ IF saver \notin {Nowhere, Primary} THEN SwitchScreen(saver)
       ELSE UNCHANGED <<wait, active, entered, crashed>>
    /\ UNCHANGED <<screens, locked, strayed>>

-----------------------------------------------------------------------------
(* Connections.                                                             *)

ForceLeaveActiveOnly(p) ==    \* mutant: the remembered screen is not looked at
    /\ active' = IF active = p THEN Primary ELSE active
    /\ entered' = IF active = p THEN (entered \ {p}) \cup {Primary} ELSE entered
    /\ UNCHANGED saver

ForceLeaveNoEnter(p) ==    \* mutant: the server's screen is not entered
    /\ active' = IF active = p THEN Primary ELSE active
    /\ entered' = entered \ {p}
    /\ saver' = IF saver = p THEN Nowhere ELSE saver

\* forceLeaveClient.  While the saver runs the screen that counts is the one
\* remembered.  What becomes of the wait is WaitWithout.
Current == IF saver # Nowhere THEN saver ELSE active

ForceLeave(p) ==
    /\ active' = IF Current = p THEN Primary ELSE active
    /\ entered' = IF Current = p /\ saver = Nowhere
                  THEN (entered \ {p}) \cup {Primary} ELSE entered \ {p}
    /\ saver' = IF saver = p THEN Nowhere ELSE saver

\* The wait is only given up when the screen that counts is the one waited for.
WaitWithout(p) == IF Current = p /\ wait.screen = p THEN StopSwitch ELSE wait

\* adoptClient: a screen that is unknown, or connected already, is closed.
AdoptClient(p) ==
    /\ status[p] = "new"
    /\ status' = [status EXCEPT ![p] =
                    IF Name[p] \in configured /\ \A q \in Listed : Name[q] # Name[p]
                    THEN "listed" ELSE "closing"]
    /\ UNCHANGED <<down, configured, active, entered, saverVars, wait, locked, crashed>>

\* ClientProxy1_0::disconnect: end of stream, write error, protocol error or
\* no heartbeat.  The event is handled later.
ConnectionLost(p) ==
    /\ status[p] \in {"listed", "closing"} /\ p \notin down
    /\ down' = down \cup {p}
    /\ UNCHANGED <<status, configured, active, entered, saverVars, wait, locked, crashed>>

\* handleClientDisconnected: removeActiveClient, removeOldClient, delete.
ClientDisconnected(p) ==
    /\ p \in down /\ status[p] \in {"listed", "closing"}
    /\ status' = [status EXCEPT ![p] = "gone"]
    /\ IF status[p] = "listed"
       THEN ForceLeave(p) /\ wait' = WaitWithout(p)
       ELSE UNCHANGED <<active, entered, wait, saver>>
    /\ down' = down \ {p}
    /\ UNCHANGED <<configured, saverOn, strayed, locked, crashed>>

\* handleClientCloseTimeout: five seconds after closeClient.
CloseTimeout(p) ==
    /\ status[p] = "closing"
    /\ status' = [status EXCEPT ![p] = "gone"]
    /\ down' = down \ {p}
    /\ UNCHANGED <<configured, active, entered, saverVars, wait, locked, crashed>>

\* closeClient: the client has five seconds to go.
CloseClient(p) ==
    /\ status' = [status EXCEPT ![p] = "closing"]
    /\ ForceLeave(p)

\* processOptions stops the timer and the double tap, the options being set;
\* the screen waited for stays.
ProcessOptions(waiting) == [waiting EXCEPT !.timer = FALSE, !.tap = "off"]

\* setConfig: closeClients closes the screen that is dropped, then the options
\* are read.  A configuration that drops several is several of these.
DropFromConfig(p) ==
    /\ status[p] = "listed"
    /\ configured' = configured \ {Name[p]}
    /\ CloseClient(p)
    /\ wait' = ProcessOptions(WaitWithout(p))
    /\ UNCHANGED <<down, saverOn, strayed, locked, crashed>>

\* setConfig that drops no connected screen; it may name one more.
AddToConfig(n) ==
    /\ configured' = configured \cup {n}
    /\ wait' = ProcessOptions(wait)
    /\ UNCHANGED <<status, down, active, entered, saverVars, locked, crashed>>

Init ==
    /\ status = [p \in Proxies |-> "new"]
    /\ down = {} /\ configured = Names
    /\ active = Primary /\ entered = {Primary}
    /\ saverOn = FALSE /\ saver = Nowhere
    /\ wait = NoSwitchDone
    /\ locked \in BOOLEAN
    /\ crashed = FALSE /\ strayed = FALSE

Next ==
    /\ ~crashed
    /\ \/ Edge \/ Inside \/ UseDeleted \/ SwitchWaitTimeout \/ Jump
       \/ LockCursorToScreen \/ ScreensaverStarts \/ ScreensaverEnds
       \/ \E p \in Proxies :
            \/ AdoptClient(p) \/ ConnectionLost(p) \/ ClientDisconnected(p)
            \/ CloseTimeout(p) \/ DropFromConfig(p)
       \/ \E n \in Names : AddToConfig(n)

Spec == Init /\ [][Next]_vars

-----------------------------------------------------------------------------
(* Properties.                                                              *)

\* The fields only take values the code gives them, and the pieces of a wait
\* come and go together: a timer that will switch has a screen to switch to
\* (Server::stopSwitch, and the assertion of switchScreen that dst is there).
TypeOK ==
    /\ status \in [Proxies -> {"new", "listed", "closing", "gone"}]
    /\ down \subseteq Proxies /\ configured \subseteq Names
    /\ active \in Proxies \cup {Primary}
    /\ entered \subseteq Proxies \cup {Primary}
    /\ saverOn \in BOOLEAN /\ saver \in Proxies \cup {Primary, Nowhere}
    /\ wait \in [screen: Proxies \cup {Primary, Nowhere},
                 dir: Directions \cup {Nowhere}, timer: BOOLEAN,
                 tap: {"off", "engaged", "armed"}]
    /\ wait.screen = Nowhere => wait = NoSwitchDone
    /\ locked \in BOOLEAN /\ crashed \in BOOLEAN /\ strayed \in BOOLEAN

\* No two connected screens have one name, so that the map m_clients and the
\* set m_clientSet hold the same proxies (Server::adoptClient, addClient).
NamesAreUnique ==
    \A p, q \in Listed : Name[p] = Name[q] => p = q

\* No deleted proxy is used, the cursor is on a connected screen, that screen
\* was told enter, and no other was told so without leave: switches, lost
\* connections, dropped screens and the screen saver in any order
\* (Server::switchScreen, forceLeaveClient, onScreensaver).  It may fail after
\* a switch that happened while the screen saver ran, or by a wait for a
\* screen that went while another one was active.
OneScreenEntered ==
    strayed \/ (~crashed /\ active \in Screens /\ entered \cap Screens = {active})

\* The screen remembered for the end of the screen saver is connected, however
\* clients come and go meanwhile, with the exception of OneScreenEntered
\* (Server::forceLeaveClient, onScreensaver).
SaverScreenConnected == strayed \/ (saver # Nowhere => saver \in Screens)

\* The wait for a screen ends with the screen, "stop waiting to switch to this
\* client" (Server::forceLeaveClient): the timer that switches to it does not
\* outlive the proxy.
WaitedForNotDeleted == wait.timer => ~Deleted(wait.screen)

=============================================================================
