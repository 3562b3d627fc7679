------------------------- MODULE ScreenSwitch_proofs -------------------------
(***************************************************************************)
(* The invariants of ScreenSwitch, for every set of clients, names and      *)
(* directions and every choice of the two switch options.                   *)
(***************************************************************************)
EXTENDS ScreenSwitch, TLAPS

AnyScreen == Proxies \cup {Primary}

Waits ==
    [screen: Proxies \cup {Primary, Nowhere}, dir: Directions \cup {Nowhere},
     timer: BOOLEAN, tap: {"off", "engaged", "armed"}]

-----------------------------------------------------------------------------
(* Types.                                                                   *)

LEMMA ScreensAreScreens == TypeOK => Screens \subseteq AnyScreen
  BY DEF TypeOK, Screens, Listed, AnyScreen

\* A switch to a screen that may be deleted keeps the types.
LEMMA SwitchScreenType ==
    ASSUME TypeOK, NEW dst \in AnyScreen, SwitchScreen(dst)
    PROVE  /\ active' \in AnyScreen /\ entered' \subseteq AnyScreen
           /\ crashed' \in BOOLEAN
           /\ wait' \in Waits /\ (wait'.screen = Nowhere => wait' = NoSwitchDone)
  BY ScreenAssumption DEF TypeOK, SwitchScreen, StopSwitch, NoSwitchDone,
     Deleted, AnyScreen, Waits

\* What the wait at an edge becomes always names the screen it is for.
LEMMA AtEdgeType ==
    ASSUME TypeOK, NEW dst \in AnyScreen, NEW dir \in Directions,
           NEW fast \in BOOLEAN
    PROVE  /\ AtEdge(dst, dir, fast).wait \in Waits
           /\ AtEdge(dst, dir, fast).wait.screen # Nowhere
<1> DEFINE aim == IF dir # wait.dir \/ wait.screen = Nowhere
                  THEN [wait EXCEPT !.screen = dst, !.dir = dir] ELSE wait
<1>1. wait \in Waits /\ dst # Nowhere
  BY ScreenAssumption DEF TypeOK, Waits, AnyScreen
<1>2. aim \in Waits /\ aim.screen # Nowhere
  BY <1>1 DEF Waits, AnyScreen
<1> HIDE DEF aim
<1>3. AtEdge(dst, dir, fast).wait \in
        {aim, [aim EXCEPT !.tap = "engaged"], [aim EXCEPT !.timer = TRUE],
         [aim EXCEPT !.tap = "engaged", !.timer = TRUE]}
  BY DEF AtEdge, aim
<1> QED
  BY <1>2, <1>3 DEF Waits

LEMMA TypeInit == Init => TypeOK
<1> SUFFICES ASSUME Init PROVE TypeOK
  OBVIOUS
<1>1. status \in [Proxies -> {"new", "listed", "closing", "gone"}]
  BY DEF Init
<1>2. wait \in Waits /\ (wait.screen = Nowhere => wait = NoSwitchDone)
  BY DEF Init, NoSwitchDone, Waits
<1>3. /\ down \subseteq Proxies /\ configured \subseteq Names
      /\ active \in Proxies \cup {Primary}
      /\ entered \subseteq Proxies \cup {Primary}
      /\ saverOn \in BOOLEAN /\ saver \in Proxies \cup {Primary, Nowhere}
      /\ locked \in BOOLEAN /\ crashed \in BOOLEAN /\ strayed \in BOOLEAN
  BY DEF Init
<1> QED
  BY <1>1, <1>2, <1>3 DEF TypeOK, Waits

LEMMA ForceLeaveType ==
    ASSUME TypeOK, NEW p \in Proxies, ForceLeave(p)
    PROVE  /\ active' \in AnyScreen /\ entered' \subseteq AnyScreen
           /\ saver' \in AnyScreen \cup {Nowhere}
  BY ScreenAssumption DEF TypeOK, ForceLeave, Current, AnyScreen

\* A wait whose screen is gone is over.
IsWait(w) == w \in Waits /\ (w.screen = Nowhere => w = NoSwitchDone)

\* Reading the options leaves a wait of the same screen.
LEMMA OptionsType ==
    ASSUME NEW w, IsWait(w)
    PROVE  IsWait(ProcessOptions(w))
<1>1. ProcessOptions(w) \in Waits /\ ProcessOptions(w).screen = w.screen
  BY DEF IsWait, ProcessOptions, Waits
<1>2. ProcessOptions(NoSwitchDone) = NoSwitchDone
  <2>1. \A a, b \in Waits :
          a.screen = b.screen /\ a.dir = b.dir /\ a.timer = b.timer
            /\ a.tap = b.tap => a = b
    BY DEF Waits
  <2>2. NoSwitchDone \in Waits /\ ProcessOptions(NoSwitchDone) \in Waits
    BY DEF ProcessOptions, NoSwitchDone, Waits
  <2>3. LET n == NoSwitchDone
            o == ProcessOptions(n)
        IN  o.screen = n.screen /\ o.dir = n.dir /\ o.timer = n.timer
              /\ o.tap = n.tap
    BY DEF ProcessOptions, NoSwitchDone
  <2> QED
    BY <2>1, <2>2, <2>3
<1> QED
  BY <1>1, <1>2 DEF IsWait

\* The same of what forceLeaveClient leaves.
LEMMA WaitLeftType ==
    ASSUME TypeOK, NEW p \in Proxies
    PROVE  IsWait(wait) /\ IsWait(WaitWithout(p))
<1>1. IsWait(wait)
  BY DEF TypeOK, IsWait, Waits
<1>2. IsWait(NoSwitchDone)
  BY DEF IsWait, NoSwitchDone, Waits
<1> QED
  BY <1>1, <1>2 DEF WaitWithout, StopSwitch

LEMMA TypeStep == TypeOK /\ [Next]_vars => TypeOK'
<1> SUFFICES ASSUME TypeOK, [Next]_vars PROVE TypeOK'
  OBVIOUS
<1> USE ScreenAssumption
<1> DEFINE Switched ==
      /\ active' \in AnyScreen /\ entered' \subseteq AnyScreen
      /\ crashed' \in BOOLEAN
      /\ wait' \in Waits /\ (wait'.screen = Nowhere => wait' = NoSwitchDone)
<1>1. CASE Edge
  <2>1. Switched
    <3>1. ASSUME NEW dst \in Screens, NEW dir \in Directions,
                 NEW fast \in BOOLEAN, NEW corner \in BOOLEAN,
                 NEW held \in BOOLEAN, MoveToEdge(dst, dir, fast, corner, held)
          PROVE  Switched
      <4>1. dst \in AnyScreen
        BY ScreensAreScreens
      <4>2. CASE SwitchScreen(dst)
        BY <4>1, <4>2, SwitchScreenType
      <4>3. CASE /\ wait' \in {NoSwitchDone, AtEdge(dst, dir, fast).wait}
                 /\ UNCHANGED <<active, entered, crashed>>
        <5>1. NoSwitchDone \in Waits
          BY DEF NoSwitchDone, Waits
        <5>2. /\ AtEdge(dst, dir, fast).wait \in Waits
              /\ AtEdge(dst, dir, fast).wait.screen # Nowhere
          BY <4>1, AtEdgeType
        <5>3. wait' \in Waits /\ (wait'.screen = Nowhere => wait' = NoSwitchDone)
          BY <4>3, <5>1, <5>2
        <5> QED
          BY <4>3, <5>3 DEF TypeOK, AnyScreen
      <4> QED
        BY <3>1, <4>2, <4>3 DEF MoveToEdge, MoveWith
    <3>2. CASE wait' = StopSwitch /\ UNCHANGED <<active, entered, crashed>>
      BY <3>2 DEF TypeOK, StopSwitch, NoSwitchDone, AnyScreen, Waits
    <3> HIDE DEF Switched
    <3> QED
      BY <1>1, <3>1, <3>2 DEF Edge
  <2>2. strayed' \in BOOLEAN
    BY <1>1 DEF Edge, Stray, TypeOK
  <2> QED
    BY <1>1, <2>1, <2>2 DEF Edge, TypeOK, AnyScreen, Waits, screens
<1>2. CASE Inside
  <2>1. PICK tap \in {"off", "engaged", "armed"} :
          wait' = [wait EXCEPT !.timer = FALSE, !.tap = tap]
    <3>1. wait.tap \in {"off", "engaged", "armed"}
      BY DEF TypeOK
    <3> QED
      BY <1>2, <3>1 DEF Inside
  <2>2. wait \in Waits /\ wait.screen # Nowhere
    BY <1>2 DEF Inside, TypeOK, Waits
  <2>3. wait' \in Waits /\ wait'.screen # Nowhere
    BY <2>1, <2>2 DEF Waits
  <2> QED
    BY <1>2, <2>3 DEF Inside, TypeOK, Waits, screens, saverVars
<1>3. CASE UseDeleted \/ LockCursorToScreen
  <2>1. /\ UNCHANGED <<screens, saverVars, active, entered, wait>>
        /\ locked' \in BOOLEAN /\ crashed' \in BOOLEAN
    BY <1>3 DEF UseDeleted, LockCursorToScreen, TypeOK
  <2> QED
    BY <2>1 DEF TypeOK, screens, saverVars
<1>4. CASE SwitchWaitTimeout
  <2>1. wait.screen \in AnyScreen
    BY <1>4 DEF TypeOK, SwitchWaitTimeout, NoSwitchDone, AnyScreen
  <2>2. CASE SwitchScreen(wait.screen)
    BY <1>4, <2>1, <2>2, SwitchScreenType
    DEF SwitchWaitTimeout, Stray, TypeOK, AnyScreen, Waits, screens
  <2>3. CASE wait' = StopSwitch /\ UNCHANGED <<active, entered, crashed>>
    BY <1>4, <2>3 DEF SwitchWaitTimeout, Stray, TypeOK, StopSwitch,
       NoSwitchDone, screens
  <2> QED
    BY <1>4, <2>2, <2>3 DEF SwitchWaitTimeout
<1>5. CASE Jump
  BY <1>5, ScreensAreScreens, SwitchScreenType
  DEF Jump, Stray, TypeOK, AnyScreen, Waits, screens
<1>6. CASE ScreensaverStarts
  <2>1. Primary \in AnyScreen
    BY DEF AnyScreen
  <2> QED
    BY <1>6, <2>1, SwitchScreenType
    DEF ScreensaverStarts, TypeOK, AnyScreen, Waits, screens
<1>7. CASE ScreensaverEnds
  <2>1. saver \notin {Nowhere, Primary} => saver \in AnyScreen
    BY DEF TypeOK, AnyScreen
  <2>2. CASE saver \notin {Nowhere, Primary}
    BY <1>7, <2>1, <2>2, SwitchScreenType
    DEF ScreensaverEnds, TypeOK, AnyScreen, Waits, screens
  <2>3. CASE saver \in {Nowhere, Primary}
    <3>1. /\ UNCHANGED <<screens, wait, active, entered, crashed>>
          /\ UNCHANGED <<locked, strayed>>
          /\ saverOn' = FALSE /\ saver' = Nowhere
      BY <1>7, <2>3 DEF ScreensaverEnds
    <3> QED
      BY <3>1 DEF TypeOK, screens
  <2> QED
    BY <2>2, <2>3
<1>8. ASSUME NEW p \in Proxies, AdoptClient(p) \/ ConnectionLost(p)
                                \/ CloseTimeout(p)
      PROVE  TypeOK'
  BY <1>8 DEF AdoptClient, ConnectionLost, CloseTimeout, TypeOK, saverVars
<1>9. ASSUME NEW p \in Proxies, ClientDisconnected(p) \/ DropFromConfig(p)
      PROVE  TypeOK'
  <2>1. IsWait(wait')
    BY <1>9, WaitLeftType, OptionsType DEF ClientDisconnected, DropFromConfig
  <2> QED
    BY <1>9, <2>1, ForceLeaveType
    DEF ClientDisconnected, DropFromConfig, CloseClient, TypeOK, AnyScreen, IsWait, Waits
<1>10. ASSUME NEW n \in Names, AddToConfig(n) PROVE TypeOK'
  <2>1. IsWait(wait) /\ wait' = ProcessOptions(wait)
    BY <1>10 DEF AddToConfig, TypeOK, IsWait, Waits
  <2>2. IsWait(wait')
    BY <2>1, OptionsType
  <2> QED
    BY <1>10, <2>2 DEF AddToConfig, TypeOK, saverVars, IsWait, Waits
<1>11. CASE UNCHANGED vars
  BY <1>11 DEF vars, TypeOK
<1> QED
  BY <1>1, <1>2, <1>3, <1>4, <1>5, <1>6, <1>7, <1>8, <1>9, <1>10, <1>11
  DEF Next

\* Every field keeps its type, and a wait that has no screen has nothing else
\* (Server::stopSwitch).
THEOREM TypeCorrect == Spec => []TypeOK
  BY TypeInit, TypeStep, PTL DEF Spec

-----------------------------------------------------------------------------
(* Names.                                                                   *)

\* No two connected screens have one name: a second connection under the name
\* of a connected client is closed (Server::adoptClient).
THEOREM NamesStayUnique == Spec => []NamesAreUnique
<1>1. Init => NamesAreUnique
  BY DEF Init, NamesAreUnique, Listed
<1>2. TypeOK /\ NamesAreUnique /\ [Next]_vars => NamesAreUnique'
  <2> SUFFICES ASSUME TypeOK, NamesAreUnique, [Next]_vars
               PROVE  NamesAreUnique'
    OBVIOUS
  <2>1. CASE status' = status
    BY <2>1 DEF NamesAreUnique, Listed
  <2>2. ASSUME NEW p \in Proxies, AdoptClient(p) PROVE NamesAreUnique'
    BY <2>2 DEF AdoptClient, NamesAreUnique, Listed, TypeOK
  <2>3. ASSUME NEW p \in Proxies, ClientDisconnected(p) \/ CloseTimeout(p)
                                  \/ DropFromConfig(p)
        PROVE  NamesAreUnique'
    BY <2>3 DEF ClientDisconnected, CloseTimeout, DropFromConfig, CloseClient,
       NamesAreUnique, Listed, TypeOK
  <2> QED
    BY <2>1, <2>2, <2>3 DEF Next, Edge, Inside, UseDeleted, SwitchWaitTimeout,
       Jump, LockCursorToScreen, ScreensaverStarts, ScreensaverEnds,
       ConnectionLost, AddToConfig, screens, vars
<1> QED
  BY <1>1, <1>2, TypeCorrect, PTL DEF Spec

-----------------------------------------------------------------------------
(* The screen that has the cursor.  While the saver runs the cursor is at   *)
(* home; a client that is new has not been entered yet.                     *)
Placed ==
    /\ ~crashed
    /\ active \in Screens /\ entered \cap Screens = {active}
    /\ \A p \in entered \cap Proxies : status[p] # "new"
    /\ saver # Nowhere => saver \in Screens /\ active = Primary

IInv == TypeOK /\ (strayed \/ Placed)

\* A switch between connected screens tells one leave and the other enter.
LEMMA SwitchScreenPlaced ==
    ASSUME TypeOK, Placed, NEW dst \in Screens, SwitchScreen(dst),
           status' = status
    PROVE  /\ ~crashed' /\ active' \in {dst, active}
           /\ active' \in Screens' /\ entered' \cap Screens' = {active'}
           /\ \A p \in entered' \cap Proxies : status'[p] # "new"
           /\ active # Primary => active' = dst
<1>1. Screens' = Screens /\ ~Deleted(dst) /\ ~Deleted(active)
  BY ScreenAssumption DEF Placed, Screens, Listed, Deleted
<1>2. dst \in Proxies => status[dst] # "new"
  BY ScreenAssumption DEF Screens, Listed
<1> QED
  BY <1>1, <1>2 DEF SwitchScreen, Placed

\* A connected client that goes leaves the cursor at home, or where it was.
LEMMA ForceLeavePlaced ==
    ASSUME TypeOK, Placed, NEW p \in Listed, ForceLeave(p),
           UNCHANGED crashed,
           NEW end \in {"gone", "closing"},
           status' = [status EXCEPT ![p] = end]
    PROVE  Placed'
<1>1. Screens' = Screens \ {p} /\ p \in Proxies /\ p # Primary
  BY ScreenAssumption DEF TypeOK, Screens, Listed
<1>2. Primary \in Screens
  BY DEF Screens
<1>3. active' \in Screens' /\ entered' \cap Screens' = {active'}
  BY <1>1, <1>2, ScreenAssumption DEF ForceLeave, Current, Placed, TypeOK
<1>4. \A q \in entered' \cap Proxies : status'[q] # "new"
  BY <1>1, ScreenAssumption DEF ForceLeave, Current, Placed, TypeOK
<1>5. saver' # Nowhere => saver' \in Screens' /\ active' = Primary
  BY <1>1, ScreenAssumption DEF ForceLeave, Current, Placed, TypeOK
<1> QED
  BY <1>3, <1>4, <1>5 DEF Placed

LEMMA PlacedStep == IInv /\ [Next]_vars => IInv'
<1> SUFFICES ASSUME IInv, [Next]_vars, ~strayed'
             PROVE  Placed'
  BY TypeStep DEF IInv
<1> USE ScreenAssumption
<1>1. TypeOK /\ strayed \in BOOLEAN /\ (strayed \/ Placed)
  BY DEF IInv, TypeOK
<1>2. CASE Edge
  <2>1. Placed /\ (saver = Nowhere \/ active' = active)
    BY <1>1, <1>2 DEF Edge, Stray
  <2>2. CASE UNCHANGED <<active, entered, crashed>>
    BY <1>2, <2>1, <2>2 DEF Edge, Placed, Screens, Listed, screens
  <2>3. ASSUME NEW dst \in Screens, SwitchScreen(dst) PROVE Placed'
    BY <1>1, <1>2, <2>1, <2>3, SwitchScreenPlaced
    DEF Edge, Placed, Screens, Listed, screens
  <2>4. \/ \E dst \in Screens : SwitchScreen(dst)
        \/ UNCHANGED <<active, entered, crashed>>
    BY <1>2 DEF Edge, MoveToEdge, MoveWith
  <2> QED
    BY <2>2, <2>3, <2>4
<1>3. CASE Inside \/ LockCursorToScreen
  <2>1. UNCHANGED <<status, active, entered, saver, strayed, crashed>>
    BY <1>3 DEF Inside, LockCursorToScreen, screens, saverVars
  <2> QED
    BY <1>1, <2>1 DEF Placed, Screens, Listed
<1>4. CASE UseDeleted
  BY <1>1, <1>4 DEF UseDeleted, Deleted, Placed, Screens, Listed, saverVars
<1>5. CASE SwitchWaitTimeout
  <2>1. /\ Placed /\ wait.screen \in Screens
        /\ saver = Nowhere \/ active' = active
    BY <1>1, <1>5 DEF SwitchWaitTimeout, Stray
  <2>2. CASE UNCHANGED <<active, entered, crashed>>
    BY <1>5, <2>1, <2>2 DEF SwitchWaitTimeout, Placed, Screens, Listed, screens
  <2>3. CASE SwitchScreen(wait.screen)
    BY <1>1, <1>5, <2>1, <2>3, SwitchScreenPlaced
    DEF SwitchWaitTimeout, Placed, Screens, Listed, screens
  <2> QED
    BY <1>5, <2>2, <2>3 DEF SwitchWaitTimeout
<1>6. CASE Jump
  <2>1. Placed /\ (saver = Nowhere \/ active' = active)
    BY <1>1, <1>6 DEF Jump, Stray
  <2>2. ASSUME NEW dst \in Screens, SwitchScreen(dst) PROVE Placed'
    BY <1>1, <1>6, <2>1, <2>2, SwitchScreenPlaced
    DEF Jump, Placed, Screens, Listed, screens
  <2> QED
    BY <1>6, <2>2 DEF Jump
<1>7. CASE ScreensaverStarts
  <2>1. Placed /\ Primary \in Screens /\ Screens' = Screens
    BY <1>1, <1>7 DEF ScreensaverStarts, Screens, Listed, screens
  <2>2. CASE active # Primary
    BY <1>1, <1>7, <2>1, <2>2, SwitchScreenPlaced
    DEF ScreensaverStarts, Placed, screens
  <2>3. CASE active = Primary
    BY <1>7, <2>1, <2>3 DEF ScreensaverStarts, Placed, screens
  <2> QED
    BY <2>2, <2>3
<1>8. CASE ScreensaverEnds
  <2>1. Placed /\ Screens' = Screens
    BY <1>1, <1>8 DEF ScreensaverEnds, Screens, Listed, screens
  <2>2. CASE saver \notin {Nowhere, Primary}
    BY <1>1, <1>8, <2>1, <2>2, SwitchScreenPlaced
    DEF ScreensaverEnds, Placed, screens
  <2>3. CASE saver \in {Nowhere, Primary}
    BY <1>8, <2>1, <2>3 DEF ScreensaverEnds, Placed, screens
  <2> QED
    BY <2>2, <2>3
<1>9. ASSUME NEW p \in Proxies, AdoptClient(p) PROVE Placed'
  <2>1. Placed /\ UNCHANGED <<active, entered, saver, crashed>>
        /\ status[p] = "new"
    BY <1>1, <1>9 DEF AdoptClient, saverVars
  <2>2. Screens' \in {Screens, Screens \cup {p}} /\ p \notin entered
    BY <1>1, <1>9, <2>1 DEF AdoptClient, Screens, Listed, TypeOK, Placed
  <2>3. \A q \in entered \cap Proxies : status'[q] # "new"
    BY <1>1, <1>9, <2>1 DEF AdoptClient, TypeOK, Placed
  <2> QED
    BY <2>1, <2>2, <2>3 DEF Placed
<1>10. ASSUME NEW p \in Proxies, ConnectionLost(p) \/ CloseTimeout(p)
       PROVE  Placed'
  <2>1. Placed /\ UNCHANGED <<active, entered, saver, crashed>>
    BY <1>1, <1>10 DEF ConnectionLost, CloseTimeout, saverVars
  <2>2. Screens' = Screens
    BY <1>1, <1>10 DEF ConnectionLost, CloseTimeout, Screens, Listed, TypeOK
  <2>3. \A q \in entered \cap Proxies : status'[q] # "new"
    BY <1>1, <1>10, <2>1 DEF ConnectionLost, CloseTimeout, TypeOK, Placed
  <2> QED
    BY <2>1, <2>2, <2>3 DEF Placed
<1>11. ASSUME NEW p \in Proxies, ClientDisconnected(p) PROVE Placed'
  <2>1. CASE status[p] = "listed"
    BY <1>1, <1>11, <2>1, ForceLeavePlaced DEF ClientDisconnected, Listed
  <2>2. CASE status[p] # "listed"
    <3>1. Placed /\ UNCHANGED <<active, entered, saver, crashed>>
      BY <1>1, <1>11, <2>2 DEF ClientDisconnected
    <3>2. Screens' = Screens
      BY <1>1, <1>11, <2>2 DEF ClientDisconnected, Screens, Listed, TypeOK
    <3>3. \A q \in entered \cap Proxies : status'[q] # "new"
      BY <1>1, <1>11, <3>1 DEF ClientDisconnected, TypeOK, Placed
    <3> QED
      BY <3>1, <3>2, <3>3 DEF Placed
  <2> QED
    BY <2>1, <2>2
<1>12. ASSUME NEW p \in Proxies, DropFromConfig(p) PROVE Placed'
  BY <1>1, <1>12, ForceLeavePlaced DEF DropFromConfig, CloseClient, Listed
<1>13. ASSUME NEW n \in Names, AddToConfig(n) PROVE Placed'
  BY <1>1, <1>13 DEF AddToConfig, Placed, Screens, Listed, saverVars
<1>14. CASE UNCHANGED vars
  BY <1>1, <1>14 DEF vars, Placed, Screens, Listed
<1> QED
  BY <1>2, <1>3, <1>4, <1>5, <1>6, <1>7, <1>8, <1>9, <1>10, <1>11, <1>12,
     <1>13, <1>14 DEF Next

LEMMA PlacedAlways == Spec => []IInv
<1>1. Init => IInv
  BY TypeInit, ScreenAssumption DEF Init, IInv, Placed, Screens, Listed
<1> QED
  BY <1>1, PlacedStep, PTL DEF Spec

\* The cursor is on a connected screen, which is the only one that was told
\* enter, unless a switch happened while the screen saver ran or a wait
\* outlived its screen (Server::switchScreen, forceLeaveClient).
THEOREM OneScreenHasTheCursor == Spec => []OneScreenEntered
<1>1. IInv => OneScreenEntered
  BY DEF IInv, Placed, OneScreenEntered
<1> QED
  BY <1>1, PlacedAlways, PTL

\* The screen that the cursor returns to after the screen saver is connected
\* (Server::onScreensaver, forceLeaveClient).
THEOREM SaverScreenStaysConnected == Spec => []SaverScreenConnected
<1>1. IInv => SaverScreenConnected
  BY DEF IInv, Placed, SaverScreenConnected
<1> QED
  BY <1>1, PlacedAlways, PTL
=============================================================================
