------------------------------ MODULE Reconnect ------------------------------
(***************************************************************************)
(* Automatic reconnection of one device to its trusted peers:              *)
(*   - AutoReconnectCoordinator, one per peer: rounds of address           *)
(*     candidates, retries, and a generation that makes late callbacks     *)
(*     harmless;                                                           *)
(*   - AddressCandidateProvider, which answers a round asynchronously;     *)
(*   - AutoReconnectRuntime, which owns both and the map m_pending of the  *)
(*     callbacks of the connection attempts under way;                     *)
(*   - the connection tables of FileTransferRuntime (m_clients,            *)
(*     m_connections, m_peerConnections) that the attempts are made in.    *)
(* Everything runs on one event loop: an action is one slot or timer       *)
(* callback with all the signals it emits, which are delivered             *)
(* synchronously.  The state of a peer is one record, because the          *)
(* handlers of one peer touch another peer only through errorOccurred.     *)
(***************************************************************************)
EXTENDS Naturals, Sequences, FiniteSets, SequencesExt

CONSTANTS
    Peers,                  \* remote devices
    Addresses,              \* addresses a peer may be reached at
    MaxCandidatesPerRound,  \* AutoReconnectOptions::maxCandidatesPerRound
    MaxRememberedAddresses  \* AutoReconnectOptions::maxRememberedAddresses

ASSUME ReconnectAssumption ==
    /\ MaxCandidatesPerRound \in Nat \ {0}
    /\ MaxRememberedAddresses \in Nat \ {0}

VARIABLES
    peer,        \* Peers -> the record described below
    identityOk,  \* the identity file of this device can be loaded
    aborted      \* an empty std::function was called: the process is gone

vars == <<peer, identityOk, aborted>>

-----------------------------------------------------------------------------
(* State of a peer.                                                         *)

\* Where a connection of the peer stands: being connected ("tcp"), connected
\* and shaking hands ("up"), authenticated ("auth"), capabilities negotiated
\* ("ready"), or failed before it was connected ("dead": QAbstractSocket
\* emits disconnected() only for a socket that had been connected).
Phases == {"none", "tcp", "up", "auth", "ready", "dead"}
Sides  == {"out", "in"}     \* made by a FileTlsClient, accepted by the listener

NoConn  == [phase |-> "none", closing |-> FALSE]
NoCall  == [set |-> FALSE, fresh |-> FALSE]

\* Generations are only ever compared with the current one, so a callback
\* carries "fresh": whether its generation is still the current one.
\*   timers      retry timers armed, by freshness
\*   resolutions resolutions under way: prov is freshness for the provider's
\*               own generation, round for the coordinator's
\*   pending     entry of m_pending; address is the candidate it stands for
NoPeer ==
    [trust       |-> "unknown",      \* entry of the TrustedDeviceStore
     recent      |-> <<>>,           \* its lastAddresses
     owned       |-> FALSE,          \* m_coordinators and m_providers have it
     hasRequest  |-> FALSE,
     connected   |-> FALSE,
     waiting     |-> FALSE,
     candidates  |-> <<>>,
     next        |-> 1,
     blocked     |-> FALSE,          \* trustBlocked was emitted last
     timers      |-> {},
     resolutions |-> {},
     pending     |-> NoCall,
     address     |-> {},             \* of the pending candidate
     client      |-> {},             \* m_clients: the address it connects to
     conn        |-> [s \in Sides |-> NoConn],  \* m_connections: live ones
     orphan      |-> FALSE,          \* m_connections: a deleted one
     peerConn    |-> "none"]         \* m_peerConnections

IsPeerReady(x) ==
    /\ x.peerConn # "none"
    /\ x.conn[x.peerConn].phase = "ready"

-----------------------------------------------------------------------------
(* AutoReconnectCoordinator, as functions of the peer's record.             *)

SameGeneration(x) == [x EXCEPT !.blocked = FALSE]  \* mutant: no ++m_generation

\* ++m_generation: every callback handed out so far becomes stale.
NewGeneration(x) ==
    [x EXCEPT !.timers      = IF @ = {} THEN {} ELSE {FALSE},
              !.pending     = [@ EXCEPT !.fresh = FALSE],
              !.resolutions = {[r EXCEPT !.round = FALSE] : r \in @},
              !.blocked     = FALSE]

ResolveAlongside(x) ==    \* mutant: earlier calls are not superseded
    [x EXCEPT !.resolutions = @ \cup {[prov |-> TRUE, round |-> TRUE]}]

\* AddressCandidateProvider::resolveCandidates supersedes earlier calls.
ResolveCandidates(x) ==
    [x EXCEPT !.resolutions = {[r EXCEPT !.prov = FALSE] : r \in @}
                                \cup {[prov |-> TRUE, round |-> TRUE]}]

BeginRound(x) ==
    IF x.trust # "trusted"
    THEN [x EXCEPT !.waiting = FALSE, !.blocked = TRUE]
    ELSE ResolveCandidates([x EXCEPT !.candidates = <<>>, !.next = 1,
                                     !.waiting = TRUE])

ScheduleRetry(x) == [x EXCEPT !.timers = @ \cup {TRUE}]

\* rememberSuccessfulAddress: most recent first, bounded.
Remember(x, a) ==
    LET others == SelectSeq(x.recent, LAMBDA b : b # a)
        list   == <<a>> \o others
    IN  [x EXCEPT !.recent =
            SubSeq(list, 1, IF Len(list) < MaxRememberedAddresses
                            THEN Len(list) ELSE MaxRememberedAddresses)]

\* candidateFinished with an authenticated peer (the pinning check compares
\* the stored fingerprint that completeReady has just read with itself).
Succeeded(x, a) == Remember([x EXCEPT !.connected = TRUE], a)

\* AutoReconnectRuntime::connectCandidate with connectPeerAt.  A connection
\* or client of the peer that exists already is taken for the attempt.
ConnectCandidate(x, a) ==
    LET asked == [x EXCEPT !.pending = [set |-> TRUE, fresh |-> TRUE],
                           !.address = {a}]
    IN  CASE IsPeerReady(x) -> Succeeded(x, a)
          [] ~IsPeerReady(x) /\ (x.peerConn # "none" \/ x.client # {}) -> asked
          [] OTHER -> [asked EXCEPT !.client = {a},
                                    !.conn["out"] = [phase |-> "tcp",
                                                     closing |-> FALSE]]

TryNextCandidate(x) ==
    CASE x.trust # "trusted" -> [x EXCEPT !.blocked = TRUE]
      [] x.trust = "trusted" /\ x.next > Len(x.candidates) -> ScheduleRetry(x)
      [] OTHER -> ConnectCandidate([x EXCEPT !.next = @ + 1],
                                   x.candidates[x.next])

\* candidatesReady: the answer carries no generation.
CandidatesReady(x, list) ==
    LET usable == SubSeq(list, 1, IF Len(list) < MaxCandidatesPerRound
                                  THEN Len(list) ELSE MaxCandidatesPerRound)
        y == [x EXCEPT !.waiting = FALSE, !.candidates = usable, !.next = 1]
    IN  IF x.hasRequest /\ x.waiting
        THEN IF usable = <<>> THEN ScheduleRetry(y) ELSE TryNextCandidate(y)
        ELSE x

\* Taking the callback out of m_pending.
Take(x) == [x EXCEPT !.pending = NoCall, !.address = {}]

\* The pending callback with an error: candidateFinished.
CandidateFailed(x, authentication) ==
    LET y == Take(x)
    IN  CASE ~x.pending.set \/ ~x.pending.fresh \/ ~x.hasRequest -> y
          [] x.pending.set /\ x.pending.fresh /\ x.hasRequest ->
               IF authentication THEN [y EXCEPT !.blocked = TRUE]
                                 ELSE TryNextCandidate(y)

\* AutoReconnectRuntime::completeReady.
CompleteReady(x) ==
    IF ~x.pending.set \/ x.trust # "trusted" THEN CandidateFailed(x, TRUE)
    ELSE IF x.pending.fresh /\ x.hasRequest
         THEN Succeeded(Take(x), CHOOSE a \in x.address : TRUE)
         ELSE Take(x)

Start(x) ==
    BeginRound([NewGeneration(x) EXCEPT !.hasRequest = TRUE, !.connected = FALSE])

NetworkAvailable(x) ==
    IF x.hasRequest /\ ~x.connected THEN BeginRound(NewGeneration(x)) ELSE x

\* AutoReconnectCoordinator::stop.
StopCoordinator(x) ==
    [NewGeneration(x) EXCEPT !.hasRequest = FALSE, !.connected = FALSE,
                             !.waiting = FALSE, !.candidates = <<>>]

\* Whether the step from x to y called connectToHost for a new client, which
\* fails at once when the identity cannot be loaded.
Connects(x, y) == x.client = {} /\ y.client # {}

-----------------------------------------------------------------------------
(* FileTransferRuntime's tables.                                            *)

RemoveKeepsClient(x, s) ==    \* mutant: m_clients.take is missing
    LET wasCurrent == x.peerConn = s
        y == [x EXCEPT !.conn[s]  = NoConn,
                       !.peerConn = IF wasCurrent THEN "none" ELSE @]
    IN  IF wasCurrent /\ x.conn[s].phase = "ready" /\ x.owned
        THEN NetworkAvailable(y) ELSE y

\* removeConnection; peerDisconnected reaches the coordinator.
RemoveConnection(x, s) ==
    LET wasCurrent == x.peerConn = s
        y == [x EXCEPT !.conn[s]  = NoConn,
                       !.peerConn = IF wasCurrent THEN "none" ELSE @]
        z == IF wasCurrent /\ x.conn[s].phase = "ready" /\ x.owned
             THEN NetworkAvailable(y) ELSE y
    IN  IF s = "out" THEN [z EXCEPT !.client = {}] ELSE z

Close(x, s) == [x EXCEPT !.conn[s].closing = TRUE]

\* disconnectPeer: the connection in use, or else the client, which is deleted
\* with its connection before the peer can be paired again.  Only disconnected()
\* removes the entry of that connection from m_connections: reported is whether
\* close() emits it at once, as only a connected socket with nothing left to
\* write does.  Otherwise the entry outlives the connection.
DisconnectPeer(x, reported) ==
    IF x.peerConn # "none" THEN Close(x, x.peerConn)
    ELSE IF x.client # {}
         THEN [x EXCEPT !.client = {}, !.conn["out"] = NoConn,
                        !.orphan = @ \/ ~reported
                                     \/ x.conn["out"].phase \in {"tcp", "dead"}]
    ELSE x

\* errorOccurred: AutoReconnectRuntime gives the error to every pending
\* callback, whichever peer or operation it came from.
ErrorOccurred(authentication) ==
    [p \in Peers |-> IF peer[p].pending.set
                     THEN CandidateFailed(peer[p], authentication)
                     ELSE peer[p]]

\* The state becomes f.  connectPeerAt reports a synchronous failure of
\* connectToHost through errorOccurred and its result: the first takes the
\* callback out of m_pending, the second calls what is left there.
Becomes(f) ==
    /\ ~aborted
    /\ peer' = f
    /\ aborted' = (~identityOk /\ \E p \in Peers : Connects(peer[p], f[p]))
    /\ UNCHANGED identityOk

Set(p, x) == Becomes([peer EXCEPT ![p] = x])

-----------------------------------------------------------------------------
(* Actions.                                                                 *)

\* A peer is paired (again), or its trust is revoked: trustRevoked reaches
\* stopPeer, which deletes coordinator and provider with what they await.
Trust(p) ==
    /\ peer[p].trust # "trusted"
    /\ Set(p, [peer[p] EXCEPT !.trust = "trusted"])

StopPeer(x, reported) ==
    DisconnectPeer([Take(StopCoordinator(x)) EXCEPT
                      !.owned = FALSE, !.timers = {}, !.resolutions = {}],
                   reported)

Revoke(p, reported) ==
    /\ peer[p].trust = "trusted"
    /\ Set(p, StopPeer([peer[p] EXCEPT !.trust = "revoked"], reported))

\* observe: an advertisement of the peer, or new settings; hasPort is whether
\* the registry knows a file port of it.
Observe(p, hasPort) ==
    /\ peer[p].trust = "trusted"
    /\ ~IsPeerReady(peer[p])
    /\ LET x == [peer[p] EXCEPT !.owned = TRUE]
       IN  Set(p, IF hasPort THEN Start(x) ELSE x)

\* The provider answers: recent addresses first, then the others.  A result
\* of an older resolveCandidates is dropped by the provider.
CandidatesResolved(p, r, others) ==
    /\ r \in peer[p].resolutions
    /\ LET x == [peer[p] EXCEPT !.resolutions = @ \ {r}]
           fresh == SelectSeq(others, LAMBDA a : a \notin ToSet(x.recent))
       IN  Set(p, IF r.prov THEN CandidatesReady(x, x.recent \o fresh) ELSE x)

\* The provider refuses the request (no input port advertised).
ResolutionFailed(p, r) ==
    /\ r \in peer[p].resolutions
    /\ LET x == [peer[p] EXCEPT !.resolutions = @ \ {r}]
       IN  Set(p, IF r.prov /\ x.hasRequest /\ x.waiting
                  THEN ScheduleRetry([x EXCEPT !.waiting = FALSE]) ELSE x)

\* The retry timer: only one of the current generation starts a round.
RetryTimer(p, fresh) ==
    /\ fresh \in peer[p].timers
    /\ LET x == [peer[p] EXCEPT !.timers = @ \ {fresh}]
       IN  Set(p, IF fresh /\ x.hasRequest THEN BeginRound(NewGeneration(x))
                                           ELSE x)

\* connectPeer called for other reasons (a transfer to the peer, a recovered
\* transfer): it shares the client table with the reconnect attempts.
ConnectPeer(p, a) ==
    /\ peer[p].trust = "trusted"
    /\ peer[p].peerConn = "none" /\ peer[p].client = {}
    /\ identityOk
    /\ Set(p, [peer[p] EXCEPT !.client = {a},
                              !.conn["out"] = [phase |-> "tcp",
                                               closing |-> FALSE]])

\* The peer connects to this device.
Accept(p) ==
    /\ peer[p].conn["in"].phase = "none"
    /\ Set(p, [peer[p] EXCEPT !.conn["in"].phase = "up"])

TcpConnected(p) ==
    /\ peer[p].conn["out"].phase = "tcp"
    /\ Set(p, [peer[p] EXCEPT !.conn["out"].phase = "up"])

\* The address refuses, cannot be reached, or the handshake timer expires
\* before the socket is connected: FileTlsConnection::fail, whose abort()
\* emits no disconnected() in this case.
TcpFailed(p) ==
    /\ peer[p].conn["out"].phase = "tcp"
    /\ LET f == ErrorOccurred(FALSE)
       IN  Becomes([f EXCEPT ![p].conn["out"].phase = "dead"])

ReadyWhenAuthenticated(p, s) ==    \* mutant: peerReady before capabilities
    /\ peer[p].conn[s].phase = "up"
    /\ LET x == peer[p]
           y == IF x.peerConn \notin {"none", s} THEN Close(x, x.peerConn) ELSE x
       IN  Set(p, CompleteReady([y EXCEPT !.conn[s].phase = "auth",
                                          !.peerConn = s]))

\* HELLO and AUTH_RESULT are exchanged: handleAuthenticated closes another
\* connection of the peer and takes its place.
Authenticated(p, s) ==
    /\ peer[p].conn[s].phase = "up"
    /\ LET x == peer[p]
           y == IF x.peerConn \notin {"none", s} THEN Close(x, x.peerConn) ELSE x
       IN  Set(p, [y EXCEPT !.conn[s].phase = "auth", !.peerConn = s])

\* The peer's capabilities arrive: peerReady.
CapabilitiesReceived(p, s) ==
    /\ peer[p].conn[s].phase = "auth"
    /\ Set(p, CompleteReady([peer[p] EXCEPT !.conn[s].phase = "ready"]))

\* FileTlsConnection::fail on a connected socket: errorOccurred first, then
\* abort(), whose disconnected() removes the connection.
ConnectionFailed(p, s, authentication) ==
    /\ peer[p].conn[s].phase \in {"up", "auth", "ready"}
    /\ LET f == ErrorOccurred(authentication)
       IN  Becomes([f EXCEPT ![p] = RemoveConnection(f[p], s)])

\* failConnection by the runtime itself: errorOccurred, then an orderly
\* close whose disconnected() comes later.
ProtocolFailed(p, s, authentication) ==
    /\ peer[p].conn[s].phase \in {"up", "auth", "ready"}
    /\ ~peer[p].conn[s].closing
    /\ LET f == ErrorOccurred(authentication)
       IN  Becomes([f EXCEPT ![p] = Close(f[p], s)])

\* The socket is disconnected: by the peer (RemoteHostClosedError is no
\* failure), or because this side closed it.
Disconnected(p, s) ==
    /\ peer[p].conn[s].phase \in {"up", "auth", "ready"}
    /\ Set(p, RemoveConnection(peer[p], s))

\* errorOccurred for a reason that is no reconnect attempt: a listener
\* error, a refused offer, a command that could not be sent.
OtherError(authentication) == Becomes(ErrorOccurred(authentication))

\* AutoReconnectRuntime::stop.
StopAll ==
    Becomes([p \in Peers |->
               Take(IF peer[p].owned THEN StopCoordinator(peer[p])
                                     ELSE peer[p])])

\* The identity file becomes unreadable.
IdentityLost ==
    /\ ~aborted
    /\ identityOk
    /\ identityOk' = FALSE
    /\ UNCHANGED <<peer, aborted>>

Init ==
    /\ peer \in [Peers -> {NoPeer, [NoPeer EXCEPT !.trust = "trusted"]}]
    /\ identityOk = TRUE
    /\ aborted = FALSE

Orders == UNION {{s \in [1..n -> Addresses] : IsInjective(s)}
                   : n \in 0..Cardinality(Addresses)}

PeerNext(p) ==
    \/ Trust(p)
    \/ \E reported \in BOOLEAN : Revoke(p, reported)
    \/ \E hasPort \in BOOLEAN : Observe(p, hasPort)
    \/ \E r \in peer[p].resolutions, others \in Orders :
         CandidatesResolved(p, r, others)
    \/ \E r \in peer[p].resolutions : ResolutionFailed(p, r)
    \/ \E fresh \in BOOLEAN : RetryTimer(p, fresh)
    \/ \E a \in Addresses : ConnectPeer(p, a)
    \/ Accept(p)
    \/ TcpConnected(p)
    \/ TcpFailed(p)
    \/ \E s \in Sides :
         \/ Authenticated(p, s)
         \/ CapabilitiesReceived(p, s)
         \/ Disconnected(p, s)
         \/ \E authentication \in BOOLEAN :
              \/ ConnectionFailed(p, s, authentication)
              \/ ProtocolFailed(p, s, authentication)

Next ==
    \/ \E p \in Peers : PeerNext(p)
    \/ \E authentication \in BOOLEAN : OtherError(authentication)
    \/ StopAll
    \/ IdentityLost

Spec == Init /\ [][Next]_vars

-----------------------------------------------------------------------------
(* Properties.                                                              *)

\* What the coordinator still waits for on behalf of the current generation.
Continuations(x) ==
    (IF TRUE \in x.timers THEN {"retry"} ELSE {})
      \cup (IF x.pending.set /\ x.pending.fresh THEN {"connect"} ELSE {})
      \cup (IF x.waiting THEN {"resolve"} ELSE {})

\* A coordinator with a request that it does not take for done neither stalls
\* nor runs twice: unless it believes to be connected or was blocked by a trust
\* failure it waits for exactly one thing, whatever late timers, resolutions
\* and connection results arrive, and then it waits for nothing
\* (AutoReconnectCoordinator's m_generation).  Its belief may be stale: a loss
\* leaves m_connected set until the peer is observed again.
ExactlyOneContinuation ==
    \A p \in Peers :
      LET x == peer[p]
      IN  IF x.hasRequest /\ ~x.connected /\ ~x.blocked
          THEN \E c \in Continuations(x) : Continuations(x) = {c}
          ELSE Continuations(x) = {}

\* A coordinator that waits for candidates has an answer coming, and the
\* answer that will be accepted is the one to the question of this round:
\* candidatesReady carries no generation and relies on the provider's.
AnswerOfThisRound ==
    \A p \in Peers :
      peer[p].waiting =>
        /\ \E r \in peer[p].resolutions : r.prov
        /\ \A r \in peer[p].resolutions : r.prov => r.round

\* Closing, replacing and failing connections keep the three tables together.
\* A client is in m_clients exactly while m_connections has the connection it
\* made, and m_peerConnections names an authenticated connection that still
\* exists: the client it might be deleted with is never taken under it.  The one
\* disagreement is the entry of a deleted connection that disconnectPeer leaves
\* in m_connections (orphan); it stands for no client and no peer in use.
TablesAgree ==
    \A p \in Peers :
      LET x == peer[p]
      IN  /\ (x.client = {}) <=> (x.conn["out"].phase = "none")
          /\ x.peerConn # "none" => x.conn[x.peerConn].phase \in {"auth", "ready"}

\* After stopPeer nothing of the coordinator is left that could still act:
\* no timer, no resolution, no callback in m_pending.
StoppedIsSilent ==
    \A p \in Peers :
      ~peer[p].owned =>
        /\ ~peer[p].hasRequest /\ ~peer[p].pending.set
        /\ peer[p].timers = {} /\ peer[p].resolutions = {}

\* A coordinator reports a connection only while the peer is trusted and one
\* of its connections has negotiated capabilities: no error, timeout or
\* late callback is taken for a success.
ConnectedMeansReady ==
    [][\A p \in Peers :
         ~peer[p].connected /\ peer'[p].connected =>
           /\ peer'[p].trust = "trusted"
           /\ \E s \in Sides : peer'[p].conn[s].phase = "ready"]_vars

\* A candidate that is waited for is being connected: some connection of the
\* peer is under way whose end calls the pending callback.
CandidateIsAttempted ==
    \A p \in Peers :
      peer[p].pending.set /\ peer[p].pending.fresh =>
        \E s \in Sides : peer[p].conn[s].phase \in {"tcp", "up", "auth", "ready"}
=============================================================================
