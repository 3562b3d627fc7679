------------------------------- MODULE Pairing -------------------------------
(***************************************************************************)
(* Pairing of two devices with a six digit code, and the trust it leaves:  *)
(*   - PairingManager with its PairingStateMachine, one of each per host;  *)
(*     the initiator ("out") shows the code and compares, the receiver     *)
(*     ("in") types it;                                                    *)
(*   - PairingTrustCommitter, which stores the peer's certificate;         *)
(*   - TrustedDeviceStore: the records in memory, the file, its backup.    *)
(* The messages are UDP datagrams: net holds every one ever sent, and a    *)
(* host may receive any of them late, again, out of order or never.  The   *)
(* user's actions and the datagrams of a host run on one event loop, so an *)
(* action is one slot.  A handler that finds its session expired marks it  *)
(* and returns: that is the action Expire.                                 *)
(***************************************************************************)
EXTENDS Integers

CONSTANTS
    Hosts,        \* the two devices
    Validity,     \* PairingOptions::validity
    MaxSessions,  \* bound: sessions ever started
    MaxTime,      \* bound: the clock stops here
    MaxSkew       \* bound: how far the hosts' clocks differ

ASSUME PairingAssumption ==
    /\ \E a, b \in Hosts : a # b /\ Hosts = {a, b}
    /\ Validity \in Nat \ {0} /\ MaxSessions \in Nat
    /\ MaxTime \in Nat /\ MaxSkew \in Nat

VARIABLES
    m,        \* Hosts -> PairingManager, the record Manager below
    memory,   \* Hosts -> m_trustedDevices' record of the other host
    disk,     \* Hosts -> [primary, backup]: the same record in the two files
    net,      \* datagrams sent
    clock,    \* real time; host h reads clock + skew[h]
    skew,
    next,     \* session ids 1 .. next - 1 have been created
    ghost     \* what the users and the hosts have done, for the properties

vars == <<m, memory, disk, net, clock, skew, next, ghost>>

-----------------------------------------------------------------------------
(* State.                                                                   *)

Sessions == 1 .. MaxSessions
Other(h) == CHOOSE k \in Hosts : k # h

\* A record of the trust store: none, the peer as confirmed in a session, or
\* the peer revoked.  A file may be missing; a store whose files cannot be
\* read leaves the pairing runtime without a store.
NoRecord == 0
Revoked  == MaxSessions + 1
Missing  == MaxSessions + 2
Unusable == MaxSessions + 3
Records  == Sessions \cup {NoRecord, Revoked}

Ended == {"completed", "expired", "rejected", "failed"}
Live  == {"awaiting", "confirming"}

\* role, session, local, matched: m_active with localConfirmed and
\* remoteCodeMatched.  manual: m_manualSnapshot, the receiver's session
\* before its user has typed the code; sm: the state machine's snapshot.
Manager ==
    [role: {"none", "out", "in"}, session: 0 .. MaxSessions,
     local: BOOLEAN, matched: BOOLEAN,
     manual: {"none", "awaiting", "expired", "rejected"}, manualExpiry: Nat,
     sm: {"none"} \cup Live \cup Ended, smSession: 0 .. MaxSessions,
     smExpiry: Nat]

NoManager ==
    [role |-> "none", session |-> 0, local |-> FALSE, matched |-> FALSE,
     manual |-> "none", manualExpiry |-> 0,
     sm |-> "none", smSession |-> 0, smExpiry |-> 0]

Request(s, h, t)    == [kind |-> "request", session |-> s, to |-> Other(h), expires |-> t]
Submission(s, h, c) == [kind |-> "submission", session |-> s, to |-> Other(h), right |-> c]
Result(s, h, a)     == [kind |-> "result", session |-> s, to |-> Other(h), accepted |-> a]

Messages ==
    [kind: {"request"}, session: Sessions, to: Hosts,
     expires: 0 .. MaxTime + MaxSkew + Validity]
      \cup [kind: {"submission"}, session: Sessions, to: Hosts, right: BOOLEAN]
      \cup [kind: {"result"}, session: Sessions, to: Hosts, accepted: BOOLEAN]

Now(h) == clock + skew[h]

\* hasNonTerminalSession: the manual snapshot hides the state machine's.
HasSession(x) == IF x.manual # "none" THEN x.manual = "awaiting" ELSE x.sm \in Live

DueMachine(h) ==    \* mutant: only the state machine expires
    m[h].sm \in Live /\ Now(h) >= m[h].smExpiry

Due(h) ==
    IF m[h].manual # "none"
    THEN m[h].manual = "awaiting" /\ Now(h) >= m[h].manualExpiry
    ELSE m[h].sm \in Live /\ Now(h) >= m[h].smExpiry

\* PairingManager::expireIfNeeded.
Expired(h) ==
    CASE ~Due(h) -> m[h]
      [] Due(h) /\ m[h].manual # "none" -> [m[h] EXCEPT !.manual = "expired"]
      [] OTHER -> [m[h] EXCEPT !.sm = "expired"]

\* validateBoundMessage, for a message or a user action of session s.
Bound(h, s, role) == m[h].role = role /\ m[h].session = s

-----------------------------------------------------------------------------
(* TrustedDeviceStore and PairingTrustCommitter.                            *)

\* TrustedDeviceStore::save: each file is replaced atomically.  The save is
\* good when the first was written, and degraded when the second was not.
Saved(d, record, primary, backup) ==
    IF ~primary THEN d
    ELSE [primary |-> record, backup |-> IF backup THEN record ELSE d.backup]

\* Noted for the properties: the initiator's user has confirmed.
Confirmed(h, x) ==
    IF x.role = "out" /\ x.local
    THEN [ghost EXCEPT !.seen = @ \cup {x.session}, !.acted[h] = TRUE]
    ELSE ghost

\* PairingTrustCommitter::commit for a manager that stands at x: the session
\* may expire while the files are written (took), and then, as after a save
\* that failed, the records of before are saved again.
Commit(h, x, ok) ==
    \E primary, backup, again, againBackup \in BOOLEAN, took \in {0, 1} :
      LET late   == Now(h) + took >= x.smExpiry
          stored == Saved(disk[h], x.session, primary, backup)
          undone == Saved(stored, memory[h], again, againBackup)
      IN
        /\ clock + took <= MaxTime
        /\ clock' = clock + took
        /\ ok = (primary /\ ~late)
        /\ m' = [m EXCEPT ![h] = [x EXCEPT !.sm =
                    IF ok THEN "completed" ELSE IF late THEN "expired" ELSE "failed"]]
        /\ memory' = [memory EXCEPT ![h] = IF ok THEN x.session ELSE @]
        /\ disk' = [disk EXCEPT ![h] = IF ok THEN stored ELSE undone]
        /\ ghost' = [Confirmed(h, x) EXCEPT
             !.apart[h] = ~ok /\ ~again /\ (primary \/ @),
             !.committed = IF ok THEN @ \cup {<<x.session, h>>} ELSE @]

-----------------------------------------------------------------------------
(* Initiator.                                                               *)

\* PairingTrustRuntime::startPairing, PairingManager::startPairing.
StartPairing(h) ==
    /\ next <= MaxSessions
    /\ memory[h] # Unusable
    /\ clock + Validity + MaxSkew <= MaxTime
    /\ ~HasSession(m[h])
    /\ \E sent \in BOOLEAN :
         /\ m' = [m EXCEPT ![h] =
                    [NoManager EXCEPT !.role = "out", !.session = next,
                        !.sm = IF sent THEN "awaiting" ELSE "failed",
                        !.smSession = next, !.smExpiry = Now(h) + Validity]]
         /\ net' = IF sent THEN net \cup {Request(next, h, Now(h) + Validity)} ELSE net
    /\ next' = next + 1
    /\ ghost' = [ghost EXCEPT !.owner[next] = h]
    /\ UNCHANGED <<memory, disk, clock, skew>>

AcceptBeforeCommit(h, x) ==    \* mutant: the outcome of the commit is ignored
    IF x.local /\ x.matched
    THEN /\ \E ok \in BOOLEAN : Commit(h, x, ok)
         /\ net' = net \cup {Result(x.session, h, TRUE)}
    ELSE /\ m' = [m EXCEPT ![h] = x]
         /\ ghost' = Confirmed(h, x)
         /\ UNCHANGED <<memory, disk, clock, net>>

FinalizeEarly(h, x) ==    \* mutant: one confirmation is taken for both
    \E ok \in BOOLEAN :
      /\ Commit(h, x, ok)
      /\ net' = net \cup {Result(x.session, h, ok)}

\* finalizeOutgoing: commits once both users have confirmed, and tells the
\* receiver once.
FinalizeOutgoing(h, x) ==
    IF x.local /\ x.matched
    THEN \E ok \in BOOLEAN :
           /\ Commit(h, x, ok)
           /\ net' = net \cup {Result(x.session, h, ok)}
    ELSE /\ m' = [m EXCEPT ![h] = x]
         /\ ghost' = Confirmed(h, x)
         /\ UNCHANGED <<memory, disk, clock, net>>

\* confirmMatchingSas: the initiator's user has seen the same code.
ConfirmMatchingSas(h) ==
    /\ m[h].role = "out" /\ ~Due(h)
    /\ m[h].sm \in Live
    /\ ~m[h].local
    /\ FinalizeOutgoing(h, [m[h] EXCEPT !.local = TRUE])
    /\ UNCHANGED <<skew, next>>

\* handleSubmission: the code is compared here, once.
HandleSubmission(h, p) ==
    /\ p \in net /\ p.to = h /\ p.kind = "submission"
    /\ Bound(h, p.session, "out") /\ ~Due(h)
    /\ m[h].sm = "awaiting"
    /\ IF p.right
       THEN FinalizeOutgoing(h, [m[h] EXCEPT !.sm = "confirming", !.matched = TRUE])
       ELSE /\ m' = [m EXCEPT ![h].sm = "rejected"]
            /\ net' = net \cup {Result(p.session, h, FALSE)}
            /\ UNCHANGED <<memory, disk, clock, ghost>>
    /\ UNCHANGED <<skew, next>>

-----------------------------------------------------------------------------
(* Receiver.                                                                *)

RequestWhileActive(h, p) ==    \* mutant: the active session is not looked at
    /\ p \in net /\ p.to = h /\ p.kind = "request"
    /\ p.expires > Now(h) /\ p.expires <= Now(h) + Validity
    /\ m' = [m EXCEPT ![h] =
               [@ EXCEPT !.role = "in", !.session = p.session,
                         !.manual = "awaiting", !.manualExpiry = p.expires]]
    /\ UNCHANGED <<memory, disk, net, clock, skew, next, ghost>>

\* handleRequest.  Only m_active and the manual snapshot are set: the state
\* machine keeps the session it had before.
HandleRequest(h, p) ==
    /\ p \in net /\ p.to = h /\ p.kind = "request"
    /\ memory[h] # Unusable
    /\ LET x == Expired(h) IN
         /\ ~HasSession(x)
         /\ p.expires > Now(h) /\ p.expires <= Now(h) + Validity
         /\ m' = [m EXCEPT ![h] =
                    [x EXCEPT !.role = "in", !.session = p.session,
                              !.local = FALSE, !.matched = FALSE,
                              !.manual = "awaiting", !.manualExpiry = p.expires]]
    /\ UNCHANGED <<memory, disk, net, clock, skew, next, ghost>>

\* submitDisplayedSas: the receiver's user has typed a code, which the
\* receiver's own state machine can only compare with itself.
SubmitDisplayedSas(h) ==
    /\ m[h].role = "in" /\ m[h].manual = "awaiting" /\ ~Due(h)
    /\ \E right, sent \in BOOLEAN :
         /\ m' = [m EXCEPT ![h] =
                    [@ EXCEPT !.manual = "none",
                              !.sm = IF sent THEN "confirming" ELSE "failed",
                              !.smSession = m[h].session,
                              !.smExpiry = m[h].manualExpiry]]
         /\ net' = IF sent THEN net \cup {Submission(m[h].session, h, right)} ELSE net
    /\ ghost' = [ghost EXCEPT !.acted[h] = TRUE]
    /\ UNCHANGED <<memory, disk, clock, skew, next>>

ResultOfAnyState(h, p) ==    \* mutant: the Confirming check is dropped
    /\ p \in net /\ p.to = h /\ p.kind = "result" /\ p.accepted
    /\ Bound(h, p.session, "in")
    /\ \E ok \in BOOLEAN : Commit(h, Expired(h), ok)
    /\ UNCHANGED <<net, skew, next>>

\* handleResult.  A refusal ends the manual snapshot even when it has ended.
HandleResult(h, p) ==
    /\ p \in net /\ p.to = h /\ p.kind = "result"
    /\ Bound(h, p.session, "in")
    /\ LET x == Expired(h) IN
         \/ /\ ~p.accepted /\ x.manual # "none"
            /\ m' = [m EXCEPT ![h] = [x EXCEPT !.manual = "rejected"]]
            /\ UNCHANGED <<memory, disk, clock, ghost>>
         \/ /\ ~p.accepted /\ x.manual = "none" /\ x.sm = "confirming"
            /\ m' = [m EXCEPT ![h] = [x EXCEPT !.sm = "failed"]]
            /\ UNCHANGED <<memory, disk, clock, ghost>>
         \/ /\ p.accepted /\ x.sm = "confirming"
            /\ \E ok \in BOOLEAN : Commit(h, x, ok)
    /\ UNCHANGED <<net, skew, next>>

-----------------------------------------------------------------------------
(* Either side.                                                             *)

\* cancel: the peer is told whatever the state of the session is.
Cancel(h) ==
    /\ m[h].role # "none" /\ ~Due(h)
    /\ net' = net \cup {Result(m[h].session, h, FALSE)}
    /\ m' = [m EXCEPT ![h] =
               CASE @.manual # "none" -> [@ EXCEPT !.manual = "rejected"]
                 [] @.manual = "none" /\ @.sm \in Live -> [@ EXCEPT !.sm = "rejected"]
                 [] OTHER -> @]
    /\ UNCHANGED <<memory, disk, clock, skew, next, ghost>>

\* The expiry timer of PairingService, or a handler that looks first.
Expire(h) ==
    /\ Due(h)
    /\ m' = [m EXCEPT ![h] = Expired(h)]
    /\ UNCHANGED <<memory, disk, net, clock, skew, next, ghost>>

RevokeInMemory(h) ==    \* mutant: the store is changed before it is saved
    /\ memory[h] \in Sessions \cup {Revoked}
    /\ \E primary, backup \in BOOLEAN :
         disk' = [disk EXCEPT ![h] = Saved(@, Revoked, primary, backup)]
    /\ memory' = [memory EXCEPT ![h] = Revoked]
    /\ UNCHANGED <<m, net, clock, skew, next, ghost>>

\* revoke: the store in memory changes once the file has.
Revoke(h) ==
    /\ memory[h] \in Sessions \cup {Revoked}
    /\ \E backup \in BOOLEAN :
         disk' = [disk EXCEPT ![h] = Saved(@, Revoked, TRUE, backup)]
    /\ memory' = [memory EXCEPT ![h] = Revoked]
    /\ ghost' = [ghost EXCEPT !.apart[h] = FALSE, !.acted[h] = HasSession(m[h])]
    /\ UNCHANGED <<m, net, clock, skew, next>>

\* setAutoAcceptFiles: another save of the trusted records, which is tried
\* twice.  What it changes in the record is abstracted.
SetAutoAcceptFiles(h) ==
    /\ memory[h] \in Sessions
    /\ \E primary, backup, again, againBackup \in BOOLEAN :
         /\ disk' = [disk EXCEPT ![h] =
                       IF primary THEN Saved(@, memory[h], primary, backup)
                       ELSE Saved(@, memory[h], again, againBackup)]
         /\ ghost' = [ghost EXCEPT !.apart[h] = @ /\ ~primary /\ ~again]
    /\ UNCHANGED <<m, memory, net, clock, skew, next>>

\* TrustedDeviceStore::load, when the primary file is readable or is not.
Loaded(h, readable) ==
    CASE disk[h].primary = Missing -> NoRecord
      [] disk[h].primary # Missing /\ readable -> disk[h].primary
      [] OTHER -> IF disk[h].backup = Missing THEN Unusable ELSE disk[h].backup

\* The program ends, or is killed, and starts again.
Restart(h) ==
    /\ m' = [m EXCEPT ![h] = NoManager]
    /\ \E readable \in BOOLEAN :
         /\ memory' = [memory EXCEPT ![h] = Loaded(h, readable)]
         /\ ghost' = [ghost EXCEPT !.apart[h] =
                          Loaded(h, readable) # Loaded(h, TRUE)]
    /\ UNCHANGED <<disk, net, clock, skew, next>>

Tick ==
    /\ clock < MaxTime
    /\ clock' = clock + 1
    /\ UNCHANGED <<m, memory, disk, net, skew, next, ghost>>

Init ==
    /\ m = [h \in Hosts |-> NoManager]
    /\ memory = [h \in Hosts |-> NoRecord]
    /\ disk = [h \in Hosts |-> [primary |-> Missing, backup |-> Missing]]
    /\ net = {} /\ clock = 0 /\ next = 1
    /\ skew \in [Hosts -> 0 .. MaxSkew]
    /\ ghost = [owner     |-> [s \in Sessions |-> CHOOSE h \in Hosts : TRUE],
                seen      |-> {},
                committed |-> {},
                acted     |-> [h \in Hosts |-> FALSE],
                apart     |-> [h \in Hosts |-> FALSE]]

HostNext(h) ==
    \/ StartPairing(h) \/ ConfirmMatchingSas(h) \/ SubmitDisplayedSas(h)
    \/ Cancel(h) \/ Expire(h)
    \/ Revoke(h) \/ SetAutoAcceptFiles(h) \/ Restart(h)
    \/ \E p \in net : HandleRequest(h, p) \/ HandleSubmission(h, p) \/ HandleResult(h, p)

Next == Tick \/ \E h \in Hosts : HostNext(h)

\* Time passes, and the expiry timer fires.  Nothing is assumed of the users
\* or of the network.
Fairness == WF_vars(Tick) /\ \A h \in Hosts : WF_vars(Expire(h))

Spec == Init /\ [][Next]_vars /\ Fairness

-----------------------------------------------------------------------------
(* Properties.                                                              *)

\* The managers, stores and clocks only take values the code gives them.
TypeOK ==
    /\ m \in [Hosts -> Manager]
    /\ memory \in [Hosts -> Records \cup {Unusable}]
    /\ disk \in [Hosts -> [primary: Records \cup {Missing},
                           backup:  Records \cup {Missing}]]
    /\ net \subseteq Messages
    /\ clock \in 0 .. MaxTime /\ next \in 1 .. MaxSessions + 1
    /\ skew \in [Hosts -> 0 .. MaxSkew]

\* Trust of session s is in memory or in a file of host h.
TrustedAnywhere(h, s) == s \in {memory[h], disk[h].primary, disk[h].backup}

\* Trust in a session, in memory or in any file, needs both users: the
\* initiator's has confirmed, and the receiver's has typed the right code
\* (PairingManager::finalizeOutgoing, handleResult).  Not even a commit that
\* was undone leaves trust without them.
TrustNeedsBothUsers ==
    \A h \in Hosts, s \in Sessions :
      TrustedAnywhere(h, s) =>
        /\ s \in ghost.seen
        /\ Submission(s, Other(ghost.owner[s]), TRUE) \in net

\* The receiver stores its trust only after the initiator has completed its
\* own commit: a pairing is one-sided only in one direction
\* (PairingManager::handleResult against finalizeOutgoing).
InitiatorCommitsFirst ==
    \A h \in Hosts, s \in Sessions :
      TrustedAnywhere(h, s) /\ ghost.owner[s] # h =>
        <<s, ghost.owner[s]>> \in ghost.committed

\* The file holds what memory holds, so that a restart changes nobody's trust,
\* unless a save that should have undone a commit failed or the file could not
\* be read (PairingTrustCommitter::commit, PairingManager::revoke).
PrimaryIsMemory ==
    \A h \in Hosts : ghost.apart[h] \/ Loaded(h, TRUE) = memory[h]

\* The receiver's manual snapshot, which hides the state machine from expiry
\* and from hasNonTerminalSession, never hides a running session.
NoHiddenSession ==
    \A h \in Hosts : m[h].manual # "none" => m[h].sm \notin Live

\* Trust that was revoked while no pairing ran does not come back unless the
\* user of this device takes part in a pairing again, or a restart reads a
\* file that the revocation did not reach (PairingManager::revoke, handleResult).
RevocationHolds ==
    [][\A h \in Hosts :
         memory[h] = Revoked /\ memory'[h] \in Sessions
         => ghost'.acted[h] \/ disk[h] # [primary |-> Revoked, backup |-> Revoked]]_vars

\* Every session ends at both hosts, whatever is lost and whatever the users
\* do: the expiry timer reaches it, manual snapshot or state machine
\* (PairingService's timer, PairingManager::expireIfNeeded).
SessionsEnd == \A h \in Hosts : HasSession(m[h]) ~> ~HasSession(m[h])
=============================================================================
