--------------------------- MODULE Reconnect_proofs ---------------------------
(***************************************************************************)
(* The invariants of Reconnect, for every set of peers and addresses and    *)
(* every limit on candidates and remembered addresses.                      *)
(*                                                                          *)
(* What is proved of one peer's record x is Good(x).  Each function of the  *)
(* coordinator and of the connection tables has a lemma that says from      *)
(* which part of Good it restores the whole.                                *)
(***************************************************************************)
EXTENDS Reconnect, TLAPS

Fields ==
    {"trust", "recent", "owned", "hasRequest", "connected", "waiting", "candidates",
     "next", "blocked", "timers", "resolutions", "pending", "address", "client",
     "conn", "orphan", "peerConn"}

Shape(x) ==
    /\ DOMAIN x = Fields
    /\ x.owned \in BOOLEAN /\ x.hasRequest \in BOOLEAN /\ x.connected \in BOOLEAN
    /\ x.waiting \in BOOLEAN /\ x.blocked \in BOOLEAN
    /\ x.pending \in [set : BOOLEAN, fresh : BOOLEAN]
    /\ x.resolutions \subseteq [prov : BOOLEAN, round : BOOLEAN]
    /\ x.conn \in [Sides -> [phase : Phases, closing : BOOLEAN]]
    /\ x.peerConn \in Sides \cup {"none"}

Retries(x) == TRUE \in x.timers
Calls(x)   == x.pending.set /\ x.pending.fresh
Active(x)  == x.hasRequest /\ ~x.connected /\ ~x.blocked

\* Nothing is waited for.
Quiet(x) == ~Retries(x) /\ ~Calls(x) /\ ~x.waiting

\* ExactlyOneContinuation of one peer.
Busy(x) ==
    /\ Active(x) <=> ~Quiet(x)
    /\ Retries(x) => ~Calls(x) /\ ~x.waiting
    /\ Calls(x) => ~x.waiting

\* AnswerOfThisRound, TablesAgree, StoppedIsSilent of one peer.
Answers(x) ==
    x.waiting =>
      /\ \E r \in x.resolutions : r.prov
      /\ \A r \in x.resolutions : r.prov => r.round

Tables(x) ==
    /\ x.client = {} <=> x.conn["out"].phase = "none"
    /\ x.peerConn # "none" => x.conn[x.peerConn].phase \in {"auth", "ready"}

Silent(x) ==
    ~x.owned =>
      /\ ~x.hasRequest /\ ~x.pending.set
      /\ x.timers = {} /\ x.resolutions = {}

\* A peer that is ready has no attempt under way: the end of an attempt that
\* is waited for is never that of a connection in use.
Waited(x) == x.pending.set => ~IsPeerReady(x)

Core(x) == Shape(x) /\ Tables(x) /\ Silent(x) /\ Waited(x)
Good(x) == Core(x) /\ Busy(x) /\ Answers(x)

IInv == DOMAIN peer = Peers /\ \A p \in Peers : Good(peer[p])

\* A step from x to y reports no connection that is not there.
Honest(x, y) ==
    ~x.connected /\ y.connected =>
      y.trust = "trusted" /\ \E s \in Sides : y.conn[s].phase = "ready"

-----------------------------------------------------------------------------
(* The coordinator.                                                         *)
LEMMA NewGenerationEffect ==
    ASSUME NEW x, Shape(x)
    PROVE  LET y == NewGeneration(x)
           IN /\ Shape(y) /\ ~Retries(y) /\ ~Calls(y) /\ ~y.blocked
              /\ y.pending.set = x.pending.set
              /\ y.timers = {} <=> x.timers = {}
              /\ y.resolutions = {} <=> x.resolutions = {}
              /\ y.client = x.client /\ y.conn = x.conn /\ y.peerConn = x.peerConn
              /\ y.owned = x.owned /\ y.hasRequest = x.hasRequest
              /\ y.connected = x.connected /\ y.trust = x.trust
              /\ y.waiting = x.waiting
<1> DEFINE stale == {[r EXCEPT !.round = FALSE] : r \in x.resolutions}
           call == [x.pending EXCEPT !.fresh = FALSE]
           late == IF x.timers = {} THEN {} ELSE {FALSE}
           y == [x EXCEPT !.timers = late, !.pending = call, !.resolutions = stale,
                          !.blocked = FALSE]
<1>1. stale \subseteq [prov : BOOLEAN, round : BOOLEAN]
  <2>1. ASSUME NEW r \in x.resolutions
        PROVE  [r EXCEPT !.round = FALSE] \in [prov : BOOLEAN, round : BOOLEAN]
    <3>1. r \in [prov : BOOLEAN, round : BOOLEAN]
      BY DEF Shape
    <3> QED
      BY ONLY <3>1
  <2> QED
    BY <2>1
<1>2. stale = {} <=> x.resolutions = {}
  OBVIOUS
<1>3. call \in [set : BOOLEAN, fresh : BOOLEAN] /\ call.set = x.pending.set /\ ~call.fresh
  BY DEF Shape
<1>4. TRUE \notin late /\ (late = {} <=> x.timers = {})
  OBVIOUS
<1>5. NewGeneration(x) = y
  BY DEF NewGeneration, Shape, Fields
<1> HIDE DEF stale, call, late
<1>6. /\ DOMAIN y = Fields
      /\ y.timers = late /\ y.pending = call /\ y.resolutions = stale /\ y.blocked = FALSE
      /\ y.client = x.client /\ y.conn = x.conn /\ y.peerConn = x.peerConn
      /\ y.owned = x.owned /\ y.hasRequest = x.hasRequest
      /\ y.connected = x.connected /\ y.trust = x.trust /\ y.waiting = x.waiting
  BY DEF Shape, Fields
<1> HIDE DEF y
<1>7. Shape(y)
  BY <1>1, <1>3, <1>6 DEF Shape
<1> QED
  BY <1>2, <1>3, <1>4, <1>5, <1>6, <1>7 DEF Retries, Calls

LEMMA BeginRoundGood ==
    ASSUME NEW x, Shape(x), x.owned, x.hasRequest, ~x.connected, ~x.blocked,
           ~Retries(x), ~Calls(x)
    PROVE  LET y == BeginRound(x)
           IN /\ Shape(y) /\ Busy(y) /\ Answers(y)
              /\ y.client = x.client /\ y.conn = x.conn /\ y.peerConn = x.peerConn
              /\ y.pending = x.pending /\ y.connected = x.connected
              /\ y.trust = x.trust /\ y.owned
<1>1. CASE x.trust # "trusted"
  BY <1>1 DEF BeginRound, Shape, Fields, Busy, Active, Quiet, Retries, Calls, Answers
<1>2. CASE x.trust = "trusted"
  <2> DEFINE old == {[r EXCEPT !.prov = FALSE] : r \in x.resolutions}
             asked == old \cup {[prov |-> TRUE, round |-> TRUE]}
             y == [x EXCEPT !.candidates = <<>>, !.next = 1, !.waiting = TRUE,
                            !.resolutions = asked]
  <2>1. asked \subseteq [prov : BOOLEAN, round : BOOLEAN] /\ \A r \in old : ~r.prov
    <3>1. ASSUME NEW r \in x.resolutions
          PROVE  /\ [r EXCEPT !.prov = FALSE] \in [prov : BOOLEAN, round : BOOLEAN]
                 /\ ~[r EXCEPT !.prov = FALSE].prov
      <4>1. r \in [prov : BOOLEAN, round : BOOLEAN]
        BY DEF Shape
      <4> QED
        BY <4>1
    <3>2. old \subseteq [prov : BOOLEAN, round : BOOLEAN] /\ \A r \in old : ~r.prov
      BY <3>1
    <3> HIDE DEF old
    <3>3. [prov |-> TRUE, round |-> TRUE] \in [prov : BOOLEAN, round : BOOLEAN]
      OBVIOUS
    <3>4. asked \subseteq [prov : BOOLEAN, round : BOOLEAN]
      BY <3>2, <3>3
    <3> QED
      BY <3>2, <3>4
  <2>2. /\ \E r \in asked : r.prov
        /\ \A r \in asked : r.prov => r.round
    <3> HIDE DEF old
    <3> QED
      BY <2>1
  <2>3. BeginRound(x) = y
    BY <1>2 DEF BeginRound, ResolveCandidates, Shape, Fields
  <2> HIDE DEF asked
  <2>4. /\ DOMAIN y = Fields /\ y.waiting = TRUE /\ y.resolutions = asked
        /\ y.client = x.client /\ y.conn = x.conn /\ y.peerConn = x.peerConn
        /\ y.pending = x.pending /\ y.connected = x.connected /\ y.trust = x.trust
        /\ y.owned = x.owned /\ y.hasRequest = x.hasRequest /\ y.blocked = x.blocked
        /\ y.timers = x.timers
    BY DEF Shape, Fields
  <2> HIDE DEF y
  <2>5. Shape(y)
    BY <2>1, <2>4 DEF Shape
  <2>6. Busy(y)
    BY <2>4 DEF Busy, Active, Quiet, Retries, Calls
  <2>7. Answers(y)
    BY <2>2, <2>4 DEF Answers
  <2> QED
    BY <2>3, <2>4, <2>5, <2>6, <2>7
<1> QED
  BY <1>1, <1>2

LEMMA ConnectCandidateGood ==
    ASSUME NEW x, NEW a, Core(x), Quiet(x), Active(x), x.trust = "trusted"
    PROVE  LET y == ConnectCandidate(x, a)
           IN /\ Good(y) /\ y.peerConn = x.peerConn /\ y.trust = x.trust
              /\ y.owned = x.owned
              /\ \A s \in Sides : x.conn[s].phase # "none" => y.conn[s] = x.conn[s]
              /\ ~y.waiting /\ (y.connected => IsPeerReady(x))
<1> DEFINE call == [set |-> TRUE, fresh |-> TRUE]
           asked == [x EXCEPT !.pending = call, !.address = {a}]
<1>1. call \in [set : BOOLEAN, fresh : BOOLEAN] /\ call.set /\ call.fresh
  OBVIOUS
<1>2. CASE IsPeerReady(x)
  <2>1. PICK list : ConnectCandidate(x, a) =
                      [[x EXCEPT !.connected = TRUE] EXCEPT !.recent = list]
    BY <1>2 DEF ConnectCandidate, Succeeded, Remember
  <2> DEFINE y == [[x EXCEPT !.connected = TRUE] EXCEPT !.recent = list]
  <2>2. /\ DOMAIN y = Fields /\ y.connected = TRUE
        /\ y.client = x.client /\ y.conn = x.conn /\ y.peerConn = x.peerConn
        /\ y.pending = x.pending /\ y.trust = x.trust
        /\ y.owned = x.owned /\ y.hasRequest = x.hasRequest /\ y.blocked = x.blocked
        /\ y.timers = x.timers /\ y.resolutions = x.resolutions
        /\ y.waiting = x.waiting
    BY DEF Core, Shape, Fields
  <2> HIDE DEF y
  <2>3. Good(y)
    BY <2>2 DEF Good, Core, Shape, Tables, Silent, Waited, IsPeerReady, Busy,
                Active, Quiet, Retries, Calls, Answers
  <2> QED
    BY <1>2, <2>1, <2>2, <2>3 DEF Quiet, y
<1>3. CASE ~IsPeerReady(x) /\ (x.peerConn # "none" \/ x.client # {})
  <2>1. ConnectCandidate(x, a) = asked
    BY <1>3 DEF ConnectCandidate
  <2> HIDE DEF call
  <2>2. /\ DOMAIN asked = Fields /\ asked.pending = call
        /\ asked.client = x.client /\ asked.conn = x.conn /\ asked.peerConn = x.peerConn
        /\ asked.connected = x.connected /\ asked.trust = x.trust
        /\ asked.owned = x.owned /\ asked.hasRequest = x.hasRequest
        /\ asked.blocked = x.blocked
        /\ asked.timers = x.timers /\ asked.resolutions = x.resolutions
        /\ asked.waiting = x.waiting
    BY DEF Core, Shape, Fields
  <2> HIDE DEF asked
  <2>3. Good(asked)
    BY <1>1, <1>3, <2>2 DEF Good, Core, Shape, Tables, Silent, Waited, IsPeerReady, Busy,
                Active, Quiet, Retries, Calls, Answers
  <2> QED
    BY <2>1, <2>2, <2>3 DEF Active, Quiet
<1>4. CASE ~IsPeerReady(x) /\ x.peerConn = "none" /\ x.client = {}
  <2> DEFINE made == [phase |-> "tcp", closing |-> FALSE]
             conns == [x.conn EXCEPT !["out"] = made]
             y == [x EXCEPT !.pending = call, !.address = {a}, !.client = {a},
                            !.conn = conns]
  <2>1. ConnectCandidate(x, a) = y
    BY <1>4 DEF ConnectCandidate, Core, Shape, Fields
  <2>2. /\ conns \in [Sides -> [phase : Phases, closing : BOOLEAN]]
        /\ conns["out"].phase = "tcp"
        /\ \A s \in Sides : x.conn[s].phase # "none" => conns[s] = x.conn[s]
    BY <1>4 DEF Core, Shape, Tables, Phases, Sides
  <2> HIDE DEF call, made, conns
  <2>3. /\ DOMAIN y = Fields /\ y.pending = call
        /\ y.client = {a} /\ y.conn = conns /\ y.peerConn = x.peerConn
        /\ y.connected = x.connected /\ y.trust = x.trust
        /\ y.owned = x.owned /\ y.hasRequest = x.hasRequest
        /\ y.blocked = x.blocked
        /\ y.timers = x.timers /\ y.resolutions = x.resolutions
        /\ y.waiting = x.waiting
    BY DEF Core, Shape, Fields
  <2> HIDE DEF y
  <2>4. Shape(y)
    BY <1>1, <2>2, <2>3 DEF Core, Shape
  <2>5. Good(y)
    BY <1>1, <1>4, <2>2, <2>3, <2>4 DEF Good, Core, Tables, Silent, Waited, IsPeerReady, Busy,
                Active, Quiet, Retries, Calls, Answers
  <2> QED
    BY <2>1, <2>2, <2>3, <2>5 DEF Active, Quiet
<1> QED
  BY <1>2, <1>3, <1>4

\* The end of a round: a retry is scheduled, or the peer is blocked.
LEMMA RoundEnds ==
    ASSUME NEW x, NEW y, Core(x), Quiet(x), Active(x),
           \/ y = ScheduleRetry(x)
           \/ y = [x EXCEPT !.blocked = TRUE]
    PROVE  /\ Good(y) /\ ~y.waiting
           /\ y.client = x.client /\ y.conn = x.conn /\ y.peerConn = x.peerConn
           /\ y.owned = x.owned /\ y.trust = x.trust /\ ~y.connected
<1>1. /\ DOMAIN y = Fields /\ y.client = x.client /\ y.conn = x.conn
      /\ y.peerConn = x.peerConn /\ y.owned = x.owned /\ y.trust = x.trust
      /\ y.connected = x.connected /\ y.waiting = x.waiting
      /\ y.hasRequest = x.hasRequest /\ y.pending = x.pending
      /\ y.resolutions = x.resolutions
      /\ \/ y.timers = x.timers \cup {TRUE} /\ y.blocked = x.blocked
         \/ y.timers = x.timers /\ y.blocked = TRUE
  <2>1. DOMAIN x = Fields
    BY DEF Core, Shape
  <2> QED
    BY <2>1 DEF ScheduleRetry, Fields
<1>2. Shape(y)
  BY <1>1 DEF Core, Shape
<1>3. Tables(y) /\ Waited(y)
  BY <1>1 DEF Core, Tables, Waited, IsPeerReady
<1>4. Silent(y)
  BY <1>1 DEF Core, Silent, Active
<1>5. Busy(y) /\ Answers(y)
  BY <1>1 DEF Busy, Answers, Active, Quiet, Retries, Calls
<1> QED
  BY <1>1, <1>2, <1>3, <1>4, <1>5 DEF Good, Core, Active, Quiet

LEMMA TryNextCandidateGood ==
    ASSUME NEW x, Core(x), Quiet(x), Active(x)
    PROVE  LET y == TryNextCandidate(x)
           IN /\ Good(y) /\ y.peerConn = x.peerConn /\ y.trust = x.trust
              /\ y.owned = x.owned
              /\ \A s \in Sides : x.conn[s].phase # "none" => y.conn[s] = x.conn[s]
              /\ ~y.waiting
              /\ y.connected => IsPeerReady(x) /\ x.trust = "trusted"
<1>1. CASE x.trust # "trusted"
  <2>1. TryNextCandidate(x) = [x EXCEPT !.blocked = TRUE]
    BY <1>1 DEF TryNextCandidate
  <2> QED
    BY <2>1, RoundEnds
<1>2. CASE x.trust = "trusted" /\ x.next > Len(x.candidates)
  <2>1. TryNextCandidate(x) = ScheduleRetry(x)
    BY <1>2 DEF TryNextCandidate
  <2> QED
    BY <2>1, RoundEnds
<1>3. CASE x.trust = "trusted" /\ ~(x.next > Len(x.candidates))
  <2> DEFINE z == [x EXCEPT !.next = @ + 1]
  <2>1. TryNextCandidate(x) = ConnectCandidate(z, x.candidates[x.next])
    BY <1>3 DEF TryNextCandidate
  <2>2. /\ Core(z) /\ Quiet(z) /\ Active(z) /\ IsPeerReady(z) = IsPeerReady(x)
        /\ z.trust = x.trust /\ z.peerConn = x.peerConn /\ z.conn = x.conn
        /\ z.owned = x.owned
    BY DEF Core, Shape, Fields, Tables, Silent, Waited,
           IsPeerReady, Active, Quiet, Retries, Calls
  <2> HIDE DEF z
  <2> QED
    BY <1>3, <2>1, <2>2, ConnectCandidateGood
<1> QED
  BY <1>1, <1>2, <1>3

\* Whether the answer is used: the one that is waited for is no longer under way.
LEMMA CandidatesReadyGood ==
    ASSUME NEW x, NEW list, Core(x), Busy(x)
    PROVE  LET y == CandidatesReady(x, list)
           IN /\ Core(y) /\ Busy(y) /\ ~y.waiting
              /\ Honest(x, y)
<1>1. CASE ~(x.hasRequest /\ x.waiting)
  <2>1. ~x.waiting
    BY <1>1 DEF Busy, Active, Quiet
  <2> QED
    BY <1>1, <2>1 DEF CandidatesReady, Honest
<1>2. CASE x.hasRequest /\ x.waiting
  <2>1. PICK usable :
          LET y == [x EXCEPT !.waiting = FALSE, !.candidates = usable, !.next = 1]
          IN  CandidatesReady(x, list) =
                IF usable = <<>> THEN ScheduleRetry(y) ELSE TryNextCandidate(y)
    BY <1>2 DEF CandidatesReady
  <2> DEFINE z == [x EXCEPT !.waiting = FALSE, !.candidates = usable, !.next = 1]
  <2>2. /\ DOMAIN z = Fields /\ z.waiting = FALSE
        /\ z.client = x.client /\ z.conn = x.conn /\ z.peerConn = x.peerConn
        /\ z.pending = x.pending /\ z.connected = x.connected /\ z.trust = x.trust
        /\ z.owned = x.owned /\ z.hasRequest = x.hasRequest /\ z.blocked = x.blocked
        /\ z.timers = x.timers /\ z.resolutions = x.resolutions
    BY DEF Core, Shape, Fields
  <2>3. CandidatesReady(x, list) = IF usable = <<>> THEN ScheduleRetry(z)
                                                    ELSE TryNextCandidate(z)
    BY <2>1
  <2> HIDE DEF z
  <2>4. Core(z) /\ Quiet(z) /\ Active(z)
    BY <1>2, <2>2 DEF Core, Shape, Tables, Silent, Waited, IsPeerReady, Busy,
                      Active, Quiet, Retries, Calls
  <2>5. CASE usable = <<>>
    <3>1. CandidatesReady(x, list) = ScheduleRetry(z)
      BY <2>3, <2>5
    <3> DEFINE y == ScheduleRetry(z)
    <3>2. Good(y) /\ ~y.waiting /\ ~y.connected
      BY <2>4, RoundEnds
    <3> HIDE DEF y
    <3> QED
      BY <3>1, <3>2 DEF Good, Honest, y
  <2>6. CASE usable # <<>>
    <3> DEFINE y == TryNextCandidate(z)
    <3>1. /\ Good(y) /\ y.peerConn = z.peerConn /\ y.trust = z.trust
          /\ \A s \in Sides : z.conn[s].phase # "none" => y.conn[s] = z.conn[s]
          /\ ~y.waiting
          /\ y.connected => IsPeerReady(z) /\ z.trust = "trusted"
      BY <2>4, TryNextCandidateGood
    <3> HIDE DEF y
    <3>2. Honest(x, y)
      BY <2>4, <3>1 DEF Honest, IsPeerReady, Core, Shape
    <3> QED
      BY <2>3, <2>6, <3>1, <3>2 DEF Good, y
  <2> QED
    BY <2>5, <2>6
<1> QED
  BY <1>1, <1>2

LEMMA TakeEffect ==
    ASSUME NEW x, Shape(x)
    PROVE  LET y == Take(x)
           IN /\ Shape(y) /\ ~y.pending.set
              /\ y.client = x.client /\ y.conn = x.conn /\ y.peerConn = x.peerConn
              /\ y.connected = x.connected /\ y.trust = x.trust
              /\ y.owned = x.owned /\ y.hasRequest = x.hasRequest
              /\ y.blocked = x.blocked /\ y.timers = x.timers
              /\ y.resolutions = x.resolutions /\ y.waiting = x.waiting
<1>1. NoCall \in [set : BOOLEAN, fresh : BOOLEAN] /\ ~NoCall.set
  BY DEF NoCall
<1> QED
  BY <1>1 DEF Take, Shape, Fields

\* An attempt that fails is followed by the next one, or ends the round.
LEMMA CandidateFailedGood ==
    ASSUME NEW x, NEW authentication \in BOOLEAN,
           Shape(x), Tables(x), Silent(x), Busy(x), Answers(x),
           authentication \/ Waited(x)
    PROVE  LET y == CandidateFailed(x, authentication)
           IN /\ Good(y) /\ y.connected = x.connected /\ y.peerConn = x.peerConn
              /\ y.owned = x.owned /\ y.trust = x.trust
              /\ \A s \in Sides : x.conn[s].phase # "none" => y.conn[s] = x.conn[s]
              /\ authentication => y.conn = x.conn
<1> DEFINE z == Take(x)
<1>1. /\ Shape(z) /\ ~z.pending.set
      /\ z.client = x.client /\ z.conn = x.conn /\ z.peerConn = x.peerConn
      /\ z.connected = x.connected /\ z.trust = x.trust
      /\ z.owned = x.owned /\ z.hasRequest = x.hasRequest
      /\ z.blocked = x.blocked /\ z.timers = x.timers
      /\ z.resolutions = x.resolutions /\ z.waiting = x.waiting
  BY TakeEffect
<1> HIDE DEF z
<1>2. Core(z)
  BY <1>1 DEF Core, Tables, Silent, Waited
<1>3. CASE ~Calls(x) \/ ~x.hasRequest
  <2>1. CandidateFailed(x, authentication) = z
    BY <1>3 DEF CandidateFailed, Calls, z
  <2>2. ~Calls(x)
    BY <1>3 DEF Busy, Active, Quiet
  <2>3. Good(z)
    BY <1>1, <1>2, <2>2 DEF Good, Busy, Active, Quiet, Retries, Calls, Answers
  <2> QED
    BY <1>1, <2>1, <2>3
<1>4. CASE Calls(x) /\ x.hasRequest
  <2>1. CandidateFailed(x, authentication) =
          IF authentication THEN [z EXCEPT !.blocked = TRUE] ELSE TryNextCandidate(z)
    BY <1>4 DEF CandidateFailed, Calls, z
  <2>2. Quiet(z) /\ Active(z)
    BY <1>1, <1>4 DEF Busy, Active, Quiet, Retries, Calls
  <2>3. CASE authentication
    <3>1. CandidateFailed(x, authentication) = [z EXCEPT !.blocked = TRUE]
      BY <2>1, <2>3
    <3> DEFINE y == [z EXCEPT !.blocked = TRUE]
    <3>2. /\ Good(y) /\ y.peerConn = z.peerConn /\ y.conn = z.conn
          /\ y.owned = z.owned /\ y.trust = z.trust /\ ~y.connected
      BY <1>2, <2>2, RoundEnds
    <3>3. ~x.connected
      BY <1>1, <2>2 DEF Active
    <3>4. y.connected = x.connected
      BY <3>2, <3>3 DEF Good, Core, Shape
    <3> HIDE DEF y
    <3> QED
      BY <1>1, <3>1, <3>2, <3>4 DEF y
  <2>4. CASE ~authentication
    <3> DEFINE y == TryNextCandidate(z)
    <3>1. /\ Good(y) /\ y.peerConn = z.peerConn /\ y.trust = z.trust
          /\ y.owned = z.owned
          /\ \A s \in Sides : z.conn[s].phase # "none" => y.conn[s] = z.conn[s]
          /\ y.connected => IsPeerReady(z)
      BY <1>2, <2>2, TryNextCandidateGood
    <3>2. ~IsPeerReady(z)
      BY <1>1, <1>4, <2>4 DEF Waited, Calls, IsPeerReady
    <3>3. y.connected = x.connected
      BY <1>1, <2>2, <3>1, <3>2 DEF Active, Good, Core, Shape
    <3> QED
      BY <1>1, <2>1, <2>4, <3>1, <3>3
  <2> QED
    BY <2>3, <2>4
<1> QED
  BY <1>3, <1>4

\* The callback of an attempt that the peer's readiness ends.
LEMMA CompleteReadyGood ==
    ASSUME NEW x, Shape(x), Tables(x), Silent(x), Busy(x), Answers(x)
    PROVE  LET y == CompleteReady(x)
           IN /\ Good(y) /\ y.conn = x.conn
              /\ ~x.connected /\ y.connected => y.trust = "trusted"
<1>1. CASE ~x.pending.set \/ x.trust # "trusted"
  BY <1>1, CandidateFailedGood DEF CompleteReady
<1>2. CASE x.pending.set /\ x.trust = "trusted"
  <2> DEFINE z == Take(x)
  <2>1. /\ Shape(z) /\ ~z.pending.set
        /\ z.client = x.client /\ z.conn = x.conn /\ z.peerConn = x.peerConn
        /\ z.connected = x.connected /\ z.trust = x.trust
        /\ z.owned = x.owned /\ z.hasRequest = x.hasRequest
        /\ z.blocked = x.blocked /\ z.timers = x.timers
        /\ z.resolutions = x.resolutions /\ z.waiting = x.waiting
    BY TakeEffect
  <2>2. PICK a : a = CHOOSE b \in x.address : TRUE
    OBVIOUS
  <2>3. CompleteReady(x) = IF x.pending.fresh /\ x.hasRequest THEN Succeeded(z, a) ELSE z
    BY <1>2, <2>2 DEF CompleteReady
  <2> HIDE DEF z
  <2>4. CASE x.pending.fresh /\ x.hasRequest
    <3>1. PICK list : Succeeded(z, a) =
                        [[z EXCEPT !.connected = TRUE] EXCEPT !.recent = list]
      BY DEF Succeeded, Remember
    <3> DEFINE y == [[z EXCEPT !.connected = TRUE] EXCEPT !.recent = list]
    <3>2. /\ DOMAIN y = Fields /\ y.connected = TRUE
          /\ y.client = z.client /\ y.conn = z.conn /\ y.peerConn = z.peerConn
          /\ y.pending = z.pending /\ y.trust = z.trust
          /\ y.owned = z.owned /\ y.hasRequest = z.hasRequest /\ y.blocked = z.blocked
          /\ y.timers = z.timers /\ y.resolutions = z.resolutions
          /\ y.waiting = z.waiting
      BY <2>1 DEF Shape, Fields
    <3> HIDE DEF y
    <3>3. Shape(y)
      BY <2>1, <3>2 DEF Shape
    <3>4. Good(y)
      BY <1>2, <2>1, <2>4, <3>2, <3>3
         DEF Good, Core, Tables, Silent, Waited, Busy, Active, Quiet, Retries,
             Calls, Answers
    <3> QED
      BY <1>2, <2>1, <2>3, <2>4, <3>1, <3>2, <3>4 DEF y
  <2>5. CASE ~(x.pending.fresh /\ x.hasRequest)
    <3>1. Good(z)
      BY <2>1, <2>5 DEF Good, Core, Tables, Silent, Waited, Busy, Active, Quiet,
                        Retries, Calls, Answers
    <3> QED
      BY <2>1, <2>3, <2>5, <3>1
  <2> QED
    BY <2>4, <2>5
<1> QED
  BY <1>1, <1>2

\* A new round of an owned coordinator that has a request and is not connected.
LEMMA NewRoundGood ==
    ASSUME NEW x, Shape(x), x.owned, x.hasRequest, ~x.connected
    PROVE  LET y == BeginRound(NewGeneration(x))
           IN /\ Shape(y) /\ Busy(y) /\ Answers(y)
              /\ y.client = x.client /\ y.conn = x.conn /\ y.peerConn = x.peerConn
              /\ y.pending.set = x.pending.set /\ ~y.connected
              /\ y.trust = x.trust /\ y.owned
<1> DEFINE z == NewGeneration(x)
<1>1. /\ Shape(z) /\ ~Retries(z) /\ ~Calls(z) /\ ~z.blocked
      /\ z.pending.set = x.pending.set
      /\ z.client = x.client /\ z.conn = x.conn /\ z.peerConn = x.peerConn
      /\ z.owned = x.owned /\ z.hasRequest = x.hasRequest
      /\ z.connected = x.connected /\ z.trust = x.trust
  BY NewGenerationEffect
<1> HIDE DEF z
<1> QED
  BY <1>1, BeginRoundGood DEF z

LEMMA StartGood ==
    ASSUME NEW x, Core(x), x.owned
    PROVE  Good(Start(x)) /\ ~Start(x).connected
<1> DEFINE z == NewGeneration(x)
           w == [z EXCEPT !.hasRequest = TRUE, !.connected = FALSE]
<1>1. /\ Shape(z) /\ ~Retries(z) /\ ~Calls(z) /\ ~z.blocked
      /\ z.pending.set = x.pending.set
      /\ z.client = x.client /\ z.conn = x.conn /\ z.peerConn = x.peerConn
      /\ z.owned = x.owned /\ z.trust = x.trust
  BY NewGenerationEffect DEF Core
<1>2. Start(x) = BeginRound(w)
  BY DEF Start
<1> HIDE DEF z
<1>3. /\ DOMAIN w = Fields /\ w.hasRequest = TRUE /\ w.connected = FALSE
      /\ w.client = z.client /\ w.conn = z.conn /\ w.peerConn = z.peerConn
      /\ w.pending = z.pending /\ w.trust = z.trust /\ w.owned = z.owned
      /\ w.blocked = z.blocked /\ w.timers = z.timers
      /\ w.resolutions = z.resolutions /\ w.waiting = z.waiting
  BY <1>1 DEF Shape, Fields
<1> HIDE DEF w
<1>4. Shape(w) /\ ~Retries(w) /\ ~Calls(w)
  BY <1>1, <1>3 DEF Shape, Retries, Calls
<1> DEFINE y == BeginRound(w)
<1>5. /\ Shape(y) /\ Busy(y) /\ Answers(y)
      /\ y.client = w.client /\ y.conn = w.conn /\ y.peerConn = w.peerConn
      /\ y.pending = w.pending /\ y.connected = w.connected /\ y.owned
  BY <1>1, <1>3, <1>4, BeginRoundGood
<1> HIDE DEF y
<1>6. Good(y)
  BY <1>1, <1>3, <1>5 DEF Good, Core, Tables, Silent, Waited, IsPeerReady
<1> QED
  BY <1>2, <1>3, <1>5, <1>6 DEF y

LEMMA StopCoordinatorGood ==
    ASSUME NEW x, Core(x)
    PROVE  LET y == StopCoordinator(x)
           IN /\ Good(y) /\ ~y.connected /\ ~y.hasRequest
<1> DEFINE z == NewGeneration(x)
           y == [z EXCEPT !.hasRequest = FALSE, !.connected = FALSE,
                          !.waiting = FALSE, !.candidates = <<>>]
<1>1. /\ Shape(z) /\ ~Retries(z) /\ ~Calls(z)
      /\ z.pending.set = x.pending.set
      /\ z.timers = {} <=> x.timers = {}
      /\ z.resolutions = {} <=> x.resolutions = {}
      /\ z.client = x.client /\ z.conn = x.conn /\ z.peerConn = x.peerConn
      /\ z.owned = x.owned
  BY NewGenerationEffect DEF Core
<1>2. StopCoordinator(x) = y
  BY DEF StopCoordinator
<1> HIDE DEF z
<1>3. /\ DOMAIN y = Fields /\ y.hasRequest = FALSE /\ y.connected = FALSE
      /\ y.waiting = FALSE /\ y.client = z.client /\ y.conn = z.conn
      /\ y.peerConn = z.peerConn /\ y.pending = z.pending /\ y.owned = z.owned
      /\ y.blocked = z.blocked /\ y.timers = z.timers
      /\ y.resolutions = z.resolutions
  BY <1>1 DEF Shape, Fields
<1> HIDE DEF y
<1>4. Shape(y)
  BY <1>1, <1>3 DEF Shape
<1> QED
  BY <1>1, <1>2, <1>3, <1>4 DEF Good, Core, Tables, Silent, Waited, IsPeerReady,
     Busy, Active, Quiet, Retries, Calls, Answers

-----------------------------------------------------------------------------
(* The connection tables.                                                   *)


\* The step from x to y changes the tables only.
Same(x, y) ==
    /\ DOMAIN y = Fields
    /\ y.trust = x.trust /\ y.owned = x.owned /\ y.hasRequest = x.hasRequest
    /\ y.connected = x.connected /\ y.waiting = x.waiting /\ y.blocked = x.blocked
    /\ y.timers = x.timers /\ y.resolutions = x.resolutions /\ y.pending = x.pending

Conns == [Sides -> [phase : Phases, closing : BOOLEAN]]

LEMMA SameKeeps ==
    ASSUME NEW x, NEW y, Shape(x), Same(x, y), y.conn \in Conns,
           y.peerConn \in Sides \cup {"none"}
    PROVE  /\ Shape(y)
           /\ Busy(x) => Busy(y)
           /\ Answers(x) => Answers(y)
           /\ Silent(x) => Silent(y)
  BY DEF Shape, Same, Conns, Busy, Active, Quiet, Retries, Calls, Answers, Silent

LEMMA CloseGood ==
    ASSUME NEW x, NEW s \in Sides, Good(x)
    PROVE  Good(Close(x, s)) /\ Same(x, Close(x, s))
<1> DEFINE conns == [x.conn EXCEPT ![s].closing = TRUE]
           y == [x EXCEPT !.conn = conns]
<1>1. Close(x, s) = y
  BY DEF Close
<1>2. x.conn \in Conns /\ Shape(x)
  BY DEF Good, Core, Shape, Conns
<1>3. conns \in Conns /\ \A k \in Sides : conns[k].phase = x.conn[k].phase
  BY <1>2 DEF Conns
<1> HIDE DEF conns
<1>4. Same(x, y) /\ y.conn = conns /\ y.client = x.client /\ y.peerConn = x.peerConn
  BY <1>2 DEF Shape, Fields, Same
<1> HIDE DEF y
<1>5. /\ Shape(y)
      /\ Busy(x) => Busy(y)
      /\ Answers(x) => Answers(y)
      /\ Silent(x) => Silent(y)
  BY <1>2, <1>3, <1>4, SameKeeps DEF Shape
<1>6. Tables(y) /\ Waited(y)
  BY <1>2, <1>3, <1>4 DEF Good, Core, Tables, Waited, IsPeerReady, Same, Shape, Sides
<1> QED
  BY <1>1, <1>4, <1>5, <1>6 DEF Good, Core

LEMMA NoConnIsConn == NoConn \in [phase : Phases, closing : BOOLEAN] /\ NoConn.phase = "none"
  BY DEF NoConn, Phases

\* Without a client and its connection.
LEMMA DisconnectPeerGood ==
    ASSUME NEW x, NEW reported \in BOOLEAN, Good(x)
    PROVE  /\ Good(DisconnectPeer(x, reported))
           /\ DisconnectPeer(x, reported).connected = x.connected
<1>1. CASE x.peerConn # "none"
  BY <1>1, CloseGood DEF DisconnectPeer, Good, Core, Shape, Same
<1>2. CASE x.peerConn = "none" /\ x.client # {}
  <2> DEFINE conns == [x.conn EXCEPT !["out"] = NoConn]
             left == \/ x.orphan \/ ~reported
                     \/ x.conn["out"].phase \in {"tcp", "dead"}
             y == [x EXCEPT !.client = {}, !.conn = conns, !.orphan = left]
  <2>1. DisconnectPeer(x, reported) = y
    BY <1>2 DEF DisconnectPeer, Good, Core, Shape, Fields
  <2>2. x.conn \in Conns /\ Shape(x)
    BY DEF Good, Core, Shape, Conns
  <2>3. conns \in Conns /\ conns["out"].phase = "none"
    BY <2>2, NoConnIsConn DEF Conns, Sides
  <2> HIDE DEF conns, left
  <2>4. Same(x, y) /\ y.conn = conns /\ y.client = {} /\ y.peerConn = x.peerConn
    BY <2>2 DEF Shape, Fields, Same
  <2> HIDE DEF y
  <2>5. /\ Shape(y)
        /\ Busy(x) => Busy(y)
        /\ Answers(x) => Answers(y)
        /\ Silent(x) => Silent(y)
    BY <2>2, <2>3, <2>4, SameKeeps DEF Shape
  <2>6. Tables(y) /\ Waited(y)
    BY <1>2, <2>3, <2>4 DEF Tables, Waited, IsPeerReady
  <2> QED
    BY <2>1, <2>4, <2>5, <2>6 DEF Good, Core, Same
<1>3. CASE x.peerConn = "none" /\ x.client = {}
  BY <1>3 DEF DisconnectPeer
<1> QED
  BY <1>1, <1>2, <1>3

\* A connection goes; if it was in use and ready, a new round may begin.
LEMMA RemoveConnectionGood ==
    ASSUME NEW x, NEW s \in Sides, Good(x)
    PROVE  Good(RemoveConnection(x, s)) /\ RemoveConnection(x, s).connected = x.connected
<1> DEFINE conns == [x.conn EXCEPT ![s] = NoConn]
           side == IF x.peerConn = s THEN "none" ELSE x.peerConn
           y == [x EXCEPT !.conn = conns, !.peerConn = side]
           z == IF x.peerConn = s /\ x.conn[s].phase = "ready" /\ x.owned
                THEN NetworkAvailable(y) ELSE y
           w == IF s = "out" THEN [z EXCEPT !.client = {}] ELSE z
<1>1. RemoveConnection(x, s) = w
  BY DEF RemoveConnection, Good, Core, Shape, Fields
<1>2. x.conn \in Conns /\ Shape(x) /\ x.peerConn \in Sides \cup {"none"}
  BY DEF Good, Core, Shape, Conns
<1>3. /\ conns \in Conns /\ conns[s].phase = "none"
      /\ \A k \in Sides : k # s => conns[k] = x.conn[k]
      /\ side \in Sides \cup {"none"} /\ side # s /\ side \in {x.peerConn, "none"}
  BY <1>2, NoConnIsConn DEF Conns, Sides
<1> HIDE DEF conns, side
<1>4. Same(x, y) /\ y.conn = conns /\ y.client = x.client /\ y.peerConn = side
  BY <1>2 DEF Shape, Fields, Same
<1> HIDE DEF y
<1>5. Shape(y) /\ Busy(y) /\ Answers(y) /\ Silent(y)
  BY <1>2, <1>3, <1>4, SameKeeps DEF Good, Core
<1>6. /\ Shape(z) /\ Busy(z) /\ Answers(z) /\ Silent(z)
      /\ z.conn = conns /\ z.client = x.client /\ z.peerConn = side
      /\ z.connected = x.connected /\ z.pending.set = x.pending.set
  <2>1. CASE z = y
    BY <1>4, <1>5, <2>1 DEF Same
  <2>2. CASE x.owned /\ y.hasRequest /\ ~y.connected /\ z = BeginRound(NewGeneration(y))
    <3>1. /\ Shape(z) /\ Busy(z) /\ Answers(z)
          /\ z.client = y.client /\ z.conn = y.conn /\ z.peerConn = y.peerConn
          /\ z.pending.set = y.pending.set /\ ~z.connected
          /\ z.trust = y.trust /\ z.owned
      <4> DEFINE n == BeginRound(NewGeneration(y))
      <4>1. Shape(y) /\ y.owned /\ y.hasRequest /\ ~y.connected
        BY <1>4, <1>5, <2>2 DEF Same
      <4>2. /\ Shape(n) /\ Busy(n) /\ Answers(n)
            /\ n.client = y.client /\ n.conn = y.conn /\ n.peerConn = y.peerConn
            /\ n.pending.set = y.pending.set /\ ~n.connected
            /\ n.trust = y.trust /\ n.owned
        BY <4>1, NewRoundGood
      <4>3. z = n
        BY <2>2
      <4> HIDE DEF n, z
      <4> QED
        BY <4>2, <4>3
    <3> HIDE DEF z
    <3>2. /\ z.conn = conns /\ z.client = x.client /\ z.peerConn = side
          /\ z.pending.set = x.pending.set
      BY <1>4, <3>1 DEF Same
    <3>3. x.connected \in BOOLEAN /\ z.connected \in BOOLEAN
      BY <1>2, <3>1 DEF Shape
    <3>4. z.connected = x.connected
      BY <1>4, <2>2, <3>1, <3>3 DEF Same
    <3> QED
      BY <3>1, <3>2, <3>4 DEF Silent
  <2> QED
    BY <2>1, <2>2 DEF NetworkAvailable
<1> HIDE DEF z
<1>7. /\ Same(z, w) /\ w.conn = conns /\ w.peerConn = side
      /\ w.client = IF s = "out" THEN {} ELSE x.client
  BY <1>6 DEF Shape, Fields, Same
<1> HIDE DEF w
<1>8. Shape(w) /\ Busy(w) /\ Answers(w) /\ Silent(w)
  BY <1>3, <1>6, <1>7, SameKeeps
<1>9. Tables(w)
  BY <1>2, <1>3, <1>7 DEF Good, Core, Tables, Sides
<1>10. Waited(w)
  BY <1>2, <1>3, <1>6, <1>7 DEF Good, Core, Waited, IsPeerReady, Same, Sides
<1> QED
  BY <1>1, <1>6, <1>7, <1>8, <1>9, <1>10 DEF Good, Core, Same

\* A connection gets to another phase before it is ready.
LEMMA PhaseGood ==
    ASSUME NEW x, NEW y, NEW s \in Sides, Good(x), Same(x, y), y.conn \in Conns,
           \A k \in Sides : k # s => y.conn[k].phase = x.conn[k].phase,
           y.client = {} <=> y.conn["out"].phase = "none",
           y.peerConn \in {x.peerConn, s},
           y.peerConn = s => y.conn[s].phase = "auth"
    PROVE  Good(y)
<1>1. Shape(x) /\ y.peerConn \in Sides \cup {"none"}
  BY DEF Good, Core, Shape
<1>2. Shape(y) /\ Busy(y) /\ Answers(y) /\ Silent(y)
  BY <1>1, SameKeeps DEF Good, Core
<1>3. Tables(y) /\ Waited(y)
  BY <1>1 DEF Good, Core, Tables, Waited, IsPeerReady, Same, Shape, Sides
<1> QED
  BY <1>2, <1>3 DEF Good, Core

-----------------------------------------------------------------------------
(* The steps.                                                               *)
Kept ==
    /\ DOMAIN peer' = Peers
    /\ \A p \in Peers : Good(peer'[p]) /\ Honest(peer[p], peer'[p])

LEMMA PeerKept ==
    ASSUME IInv, NEW p \in Peers, NEW y, Good(y), Honest(peer[p], y),
           peer' = [peer EXCEPT ![p] = y]
    PROVE  Kept
  BY DEF IInv, Kept, Honest

LEMMA ErrorOccurredGood ==
    ASSUME IInv, NEW authentication \in BOOLEAN
    PROVE  LET f == ErrorOccurred(authentication)
           IN /\ DOMAIN f = Peers
              /\ \A p \in Peers :
                   /\ Good(f[p]) /\ f[p].connected = peer[p].connected
                   /\ f[p].peerConn = peer[p].peerConn
                   /\ \A s \in Sides : peer[p].conn[s].phase # "none" =>
                                         f[p].conn[s] = peer[p].conn[s]
<1>1. ASSUME NEW p \in Peers
      PROVE  LET y == CandidateFailed(peer[p], authentication)
             IN /\ Good(y) /\ y.connected = peer[p].connected
                /\ y.peerConn = peer[p].peerConn
                /\ \A s \in Sides : peer[p].conn[s].phase # "none" =>
                                      y.conn[s] = peer[p].conn[s]
  BY CandidateFailedGood DEF IInv, Good, Core
<1> QED
  BY <1>1 DEF ErrorOccurred, IInv

LEMMA CoordinatorStepsKept ==
    ASSUME IInv, NEW p \in Peers,
           \/ Trust(p) \/ \E reported \in BOOLEAN : Revoke(p, reported)
           \/ \E hasPort \in BOOLEAN : Observe(p, hasPort)
           \/ \E r \in peer[p].resolutions, others \in Orders :
                CandidatesResolved(p, r, others)
           \/ \E r \in peer[p].resolutions : ResolutionFailed(p, r)
           \/ \E fresh \in BOOLEAN : RetryTimer(p, fresh)
    PROVE  Kept
<1>1. PICK x : x = peer[p]
  OBVIOUS
<1>2. Good(x) /\ Shape(x)
  BY <1>1 DEF IInv, Good, Core
<1>3. ASSUME NEW y, Good(y), Honest(x, y), Set(p, y)
      PROVE  Kept
  <2>1. peer' = [peer EXCEPT ![p] = y]
    BY <1>3 DEF Set, Becomes
  <2> QED
    BY <1>1, <1>3, <2>1, PeerKept
<1>4. CASE Trust(p)
  <2>1. PICK y : y = [x EXCEPT !.trust = "trusted"]
    OBVIOUS
  <2>2. Good(y) /\ Honest(x, y)
    BY <1>2, <2>1 DEF Good, Core, Shape, Fields, Tables, Silent, Waited, IsPeerReady,
                      Busy, Active, Quiet, Retries, Calls, Answers, Honest
  <2> QED
    BY <1>1, <1>3, <1>4, <2>1, <2>2 DEF Trust
<1>5. ASSUME NEW reported \in BOOLEAN, Revoke(p, reported)
      PROVE  Kept
  <2>1. PICK u : u = [x EXCEPT !.trust = "revoked"]
    OBVIOUS
  <2>2. Core(u) /\ u.connected = x.connected
    BY <1>2, <2>1 DEF Good, Core, Shape, Fields, Tables, Silent, Waited, IsPeerReady
  <2>3. PICK v : v = Take(StopCoordinator(u))
    OBVIOUS
  <2>4. /\ Shape(v) /\ Tables(v) /\ ~v.pending.set /\ ~v.connected /\ ~v.hasRequest
        /\ ~v.waiting
    <3>1. PICK z : z = StopCoordinator(u)
      OBVIOUS
    <3>2. Good(z) /\ ~z.connected /\ ~z.hasRequest
      BY <2>2, <3>1, StopCoordinatorGood
    <3> QED
      BY <2>3, <3>1, <3>2, TakeEffect DEF Good, Core, Tables, Busy, Active, Quiet
  <2>5. PICK w : w = [v EXCEPT !.owned = FALSE, !.timers = {}, !.resolutions = {}]
    OBVIOUS
  <2>6. Good(w) /\ ~w.connected
    BY <2>4, <2>5 DEF Good, Core, Shape, Fields, Tables, Silent, Waited, IsPeerReady,
                      Busy, Active, Quiet, Retries, Calls, Answers
  <2>7. PICK y : y = DisconnectPeer(w, reported)
    OBVIOUS
  <2>8. Good(y) /\ ~y.connected
    BY <2>6, <2>7, DisconnectPeerGood
  <2>9. Set(p, y)
    BY <1>1, <1>5, <2>1, <2>3, <2>5, <2>7 DEF Revoke, StopPeer
  <2> QED
    BY <1>3, <2>8, <2>9 DEF Honest
<1>6. ASSUME NEW hasPort \in BOOLEAN, Observe(p, hasPort)
      PROVE  Kept
  <2>1. PICK u : u = [x EXCEPT !.owned = TRUE]
    OBVIOUS
  <2>2. Good(u) /\ u.owned /\ u.connected = x.connected
    BY <1>2, <2>1 DEF Good, Core, Shape, Fields, Tables, Silent, Waited, IsPeerReady,
                      Busy, Active, Quiet, Retries, Calls, Answers
  <2>3. PICK y : y = IF hasPort THEN Start(u) ELSE u
    OBVIOUS
  <2>4. Good(y) /\ Honest(x, y)
    BY <2>2, <2>3, StartGood DEF Good, Honest
  <2> QED
    BY <1>1, <1>3, <1>6, <2>1, <2>3, <2>4 DEF Observe
<1>7. ASSUME NEW r \in x.resolutions
      PROVE  LET u == [x EXCEPT !.resolutions = @ \ {r}]
             IN /\ Core(u) /\ Busy(u) /\ u.connected = x.connected
                /\ (~r.prov \/ ~u.waiting => Answers(u))
  BY <1>2 DEF Good, Core, Shape, Fields, Tables, Silent, Waited, IsPeerReady,
              Busy, Active, Quiet, Retries, Calls, Answers
<1>8. ASSUME NEW r \in x.resolutions, NEW others \in Orders,
             CandidatesResolved(p, r, others)
      PROVE  Kept
  <2>1. PICK u : u = [x EXCEPT !.resolutions = @ \ {r}]
    OBVIOUS
  <2>2. /\ Core(u) /\ Busy(u) /\ u.connected = x.connected
        /\ (~r.prov \/ ~u.waiting => Answers(u))
    BY <1>7, <2>1
  <2>3. PICK list : Set(p, IF r.prov THEN CandidatesReady(u, list) ELSE u)
    BY <1>1, <1>8, <2>1 DEF CandidatesResolved
  <2>4. PICK y : y = IF r.prov THEN CandidatesReady(u, list) ELSE u
    OBVIOUS
  <2>5. Good(y) /\ Honest(x, y)
    <3>1. CASE r.prov
      <4>1. Core(y) /\ Busy(y) /\ ~y.waiting /\ Honest(u, y)
        BY <2>2, <2>4, <3>1, CandidatesReadyGood
      <4> QED
        BY <2>2, <4>1 DEF Good, Answers, Honest
    <3>2. CASE ~r.prov
      BY <2>2, <2>4, <3>2 DEF Good, Honest
    <3> QED
      BY <3>1, <3>2
  <2> QED
    BY <1>3, <2>3, <2>4, <2>5
<1>9. ASSUME NEW r \in x.resolutions, ResolutionFailed(p, r)
      PROVE  Kept
  <2>1. PICK u : u = [x EXCEPT !.resolutions = @ \ {r}]
    OBVIOUS
  <2>2. /\ Core(u) /\ Busy(u) /\ u.connected = x.connected
        /\ (~r.prov \/ ~u.waiting => Answers(u))
    BY <1>7, <2>1
  <2>3. PICK y : y = IF r.prov /\ u.hasRequest /\ u.waiting
                     THEN ScheduleRetry([u EXCEPT !.waiting = FALSE]) ELSE u
    OBVIOUS
  <2>4. Good(y) /\ Honest(x, y)
    <3>1. CASE r.prov /\ u.hasRequest /\ u.waiting
      <4>1. y = [[u EXCEPT !.waiting = FALSE] EXCEPT !.timers = @ \cup {TRUE}]
        BY <2>3, <3>1 DEF ScheduleRetry
      <4> QED
        BY <2>2, <3>1, <4>1 DEF Good, Core, Shape, Fields, Tables, Silent, Waited,
                  IsPeerReady, Busy, Active, Quiet, Retries, Calls, Answers, Honest
    <3>2. CASE ~(r.prov /\ u.hasRequest /\ u.waiting)
      BY <2>2, <2>3, <3>2 DEF Good, Honest, Busy, Active, Quiet
    <3> QED
      BY <3>1, <3>2
  <2> QED
    BY <1>1, <1>3, <1>9, <2>1, <2>3, <2>4 DEF ResolutionFailed
<1>10. ASSUME NEW fresh \in BOOLEAN, RetryTimer(p, fresh)
       PROVE  Kept
  <2>1. PICK u : u = [x EXCEPT !.timers = @ \ {fresh}]
    OBVIOUS
  <2>2. /\ Core(u) /\ Answers(u) /\ u.connected = x.connected
        /\ u.owned = x.owned /\ u.hasRequest = x.hasRequest
        /\ fresh \in x.timers
    BY <1>1, <1>2, <1>10, <2>1 DEF Good, Core, Shape, Fields, Tables, Silent, Waited,
                                   IsPeerReady, Answers, RetryTimer
  <2>3. PICK y : y = IF fresh /\ u.hasRequest THEN BeginRound(NewGeneration(u)) ELSE u
    OBVIOUS
  <2>4. CASE fresh /\ u.hasRequest
    <3>1. u.owned /\ ~u.connected
      BY <1>2, <2>2, <2>4 DEF Good, Core, Busy, Active, Quiet, Retries, Silent, Shape
    <3>2. /\ Shape(y) /\ Busy(y) /\ Answers(y)
          /\ y.client = u.client /\ y.conn = u.conn /\ y.peerConn = u.peerConn
          /\ y.pending.set = u.pending.set /\ ~y.connected /\ y.owned
      BY <2>2, <2>3, <2>4, <3>1, NewRoundGood DEF Core
    <3>3. Good(y)
      BY <2>2, <3>2 DEF Good, Core, Tables, Silent, Waited, IsPeerReady
    <3> QED
      BY <1>1, <1>3, <1>10, <2>1, <2>3, <3>2, <3>3 DEF RetryTimer, Honest
  <2>5. CASE ~(fresh /\ u.hasRequest)
    <3>1. ~fresh
      BY <1>2, <2>2, <2>5 DEF Good, Busy, Active, Quiet, Retries
    <3>2. Busy(u)
      BY <1>2, <2>1, <3>1 DEF Good, Core, Shape, Fields, Busy, Active, Quiet, Retries, Calls
    <3> QED
      BY <1>1, <1>3, <1>10, <2>1, <2>2, <2>3, <2>5, <3>2 DEF RetryTimer, Honest, Good
  <2> QED
    BY <2>4, <2>5
<1> QED
  BY <1>1, <1>4, <1>5, <1>6, <1>8, <1>9, <1>10

LEMMA ConnectionStepsKept ==
    ASSUME IInv, NEW p \in Peers,
           \/ \E a \in Addresses : ConnectPeer(p, a)
           \/ Accept(p) \/ TcpConnected(p)
           \/ \E s \in Sides :
                Authenticated(p, s) \/ CapabilitiesReceived(p, s) \/ Disconnected(p, s)
    PROVE  Kept
<1>1. PICK x : x = peer[p]
  OBVIOUS
<1>2. Good(x) /\ Shape(x) /\ x.conn \in Conns /\ Tables(x)
  BY <1>1 DEF IInv, Good, Core, Shape, Conns
<1>3. ASSUME NEW y, Good(y), Honest(x, y), Set(p, y)
      PROVE  Kept
  <2>1. peer' = [peer EXCEPT ![p] = y]
    BY <1>3 DEF Set, Becomes
  <2> QED
    BY <1>1, <1>3, <2>1, PeerKept
<1>4. ASSUME NEW y, NEW s \in Sides, Same(x, y), y.conn \in Conns,
             \A k \in Sides : k # s => y.conn[k].phase = x.conn[k].phase,
             y.client = {} <=> y.conn["out"].phase = "none",
             y.peerConn \in {x.peerConn, s},
             y.peerConn = s => y.conn[s].phase = "auth",
             Set(p, y)
      PROVE  Kept
  <2>1. Good(y)
    BY <1>2, <1>4, PhaseGood
  <2> QED
    BY <1>3, <1>4, <2>1 DEF Same, Honest
<1>5. "out" \in Sides /\ "in" \in Sides /\ "out" # "in"
  BY DEF Sides
<1>6. ASSUME NEW a \in Addresses, ConnectPeer(p, a)
      PROVE  Kept
  <2>1. PICK conns : conns = [x.conn EXCEPT !["out"] = [phase |-> "tcp", closing |-> FALSE]]
    OBVIOUS
  <2>2. /\ conns \in Conns /\ conns["out"].phase = "tcp"
        /\ \A k \in Sides : k # "out" => conns[k].phase = x.conn[k].phase
    BY <1>2, <1>5, <2>1 DEF Conns, Phases
  <2>3. PICK y : y = [x EXCEPT !.client = {a}, !.conn = conns]
    OBVIOUS
  <2>4. Same(x, y) /\ y.conn = conns /\ y.client = {a} /\ y.peerConn = x.peerConn
    BY <1>2, <2>3 DEF Shape, Fields, Same
  <2>5. Set(p, y) /\ x.peerConn = "none"
    BY <1>1, <1>2, <1>6, <2>1, <2>3 DEF ConnectPeer, Shape, Fields
  <2> QED
    BY <1>4, <1>5, <2>2, <2>4, <2>5
<1>7. CASE Accept(p)
  <2>1. PICK conns : conns = [x.conn EXCEPT !["in"].phase = "up"]
    OBVIOUS
  <2>2. /\ conns \in Conns /\ conns["in"].phase = "up"
        /\ \A k \in Sides : k # "in" => conns[k].phase = x.conn[k].phase
    BY <1>2, <1>5, <2>1 DEF Conns, Phases
  <2>3. PICK y : y = [x EXCEPT !.conn = conns]
    OBVIOUS
  <2>4. Same(x, y) /\ y.conn = conns /\ y.client = x.client /\ y.peerConn = x.peerConn
    BY <1>2, <2>3 DEF Shape, Fields, Same
  <2>5. Set(p, y) /\ x.peerConn # "in"
    BY <1>1, <1>2, <1>7, <2>1, <2>3 DEF Accept, Tables
  <2> QED
    BY <1>2, <1>4, <1>5, <2>2, <2>4, <2>5 DEF Tables
<1>8. CASE TcpConnected(p)
  <2>1. PICK conns : conns = [x.conn EXCEPT !["out"].phase = "up"]
    OBVIOUS
  <2>2. /\ conns \in Conns /\ conns["out"].phase = "up"
        /\ \A k \in Sides : k # "out" => conns[k].phase = x.conn[k].phase
    BY <1>2, <1>5, <2>1 DEF Conns, Phases
  <2>3. PICK y : y = [x EXCEPT !.conn = conns]
    OBVIOUS
  <2>4. Same(x, y) /\ y.conn = conns /\ y.client = x.client /\ y.peerConn = x.peerConn
    BY <1>2, <2>3 DEF Shape, Fields, Same
  <2>5. Set(p, y) /\ x.peerConn # "out" /\ x.conn["out"].phase = "tcp"
    BY <1>1, <1>2, <1>8, <2>1, <2>3 DEF TcpConnected, Tables
  <2> QED
    BY <1>2, <1>4, <1>5, <2>2, <2>4, <2>5 DEF Tables
<1>9. ASSUME NEW s \in Sides, Authenticated(p, s)
      PROVE  Kept
  <2>1. PICK z : z = IF x.peerConn \notin {"none", s} THEN Close(x, x.peerConn) ELSE x
    OBVIOUS
  <2>2. Good(z) /\ Same(x, z) /\ \A k \in Sides : z.conn[k].phase = x.conn[k].phase
    <3>1. CASE x.peerConn \in Sides /\ z = Close(x, x.peerConn)
      <4>1. Good(z) /\ Same(x, z)
        BY <1>2, <3>1, CloseGood
      <4>2. z.conn = [x.conn EXCEPT ![x.peerConn].closing = TRUE]
        BY <1>2, <3>1 DEF Close, Shape, Fields
      <4> QED
        BY <1>2, <4>1, <4>2 DEF Conns
    <3>2. CASE z = x
      BY <1>2, <3>2 DEF Same, Shape
    <3> QED
      BY <1>2, <2>1, <3>1, <3>2 DEF Shape
  <2>3. Shape(z) /\ z.conn \in Conns /\ Tables(z)
    BY <2>2 DEF Good, Core, Shape, Conns
  <2>4. PICK conns : conns = [z.conn EXCEPT ![s].phase = "auth"]
    OBVIOUS
  <2>5. /\ conns \in Conns /\ conns[s].phase = "auth"
        /\ \A k \in Sides : k # s => conns[k].phase = z.conn[k].phase
    BY <2>3, <2>4 DEF Conns, Phases
  <2>6. PICK y : y = [z EXCEPT !.conn = conns, !.peerConn = s]
    OBVIOUS
  <2>7. Same(z, y) /\ y.conn = conns /\ y.client = z.client /\ y.peerConn = s
    BY <2>3, <2>6 DEF Shape, Fields, Same
  <2>8. Set(p, y) /\ x.conn[s].phase = "up"
    BY <1>1, <1>9, <2>1, <2>3, <2>4, <2>6 DEF Authenticated, Shape, Fields
  <2>9. Good(y)
    <3>1. y.client = {} <=> y.conn["out"].phase = "none"
      BY <1>5, <2>2, <2>3, <2>5, <2>7, <2>8 DEF Tables
    <3> QED
      BY <2>2, <2>5, <2>7, <3>1, PhaseGood
  <2> QED
    BY <1>3, <2>2, <2>7, <2>8, <2>9 DEF Same, Honest
<1>10. ASSUME NEW s \in Sides, CapabilitiesReceived(p, s)
       PROVE  Kept
  <2>1. PICK conns : conns = [x.conn EXCEPT ![s].phase = "ready"]
    OBVIOUS
  <2>2. /\ conns \in Conns /\ conns[s].phase = "ready"
        /\ \A k \in Sides : k # s => conns[k].phase = x.conn[k].phase
    BY <1>2, <2>1 DEF Conns, Phases
  <2>3. PICK u : u = [x EXCEPT !.conn = conns]
    OBVIOUS
  <2>4. Same(x, u) /\ u.conn = conns /\ u.client = x.client /\ u.peerConn = x.peerConn
    BY <1>2, <2>3 DEF Shape, Fields, Same
  <2>5. Shape(u) /\ Silent(u) /\ Busy(u) /\ Answers(u)
    BY <1>2, <2>2, <2>4, SameKeeps DEF Good, Core, Shape
  <2>6. Tables(u)
    BY <1>1, <1>2, <1>5, <1>10, <2>2, <2>4 DEF Tables, CapabilitiesReceived, Shape
  <2>7. PICK y : y = CompleteReady(u)
    OBVIOUS
  <2>8. Good(y) /\ y.conn = u.conn /\ (~u.connected /\ y.connected => y.trust = "trusted")
    BY <2>5, <2>6, <2>7, CompleteReadyGood
  <2>9. Set(p, y)
    BY <1>1, <1>10, <2>1, <2>3, <2>7 DEF CapabilitiesReceived
  <2>10. Honest(x, y)
    BY <2>2, <2>4, <2>8 DEF Same, Honest
  <2> QED
    BY <1>3, <2>8, <2>9, <2>10
<1>11. ASSUME NEW s \in Sides, Disconnected(p, s)
       PROVE  Kept
  <2>1. PICK y : y = RemoveConnection(x, s)
    OBVIOUS
  <2>2. Good(y) /\ y.connected = x.connected
    BY <1>2, <2>1, RemoveConnectionGood
  <2> QED
    BY <1>1, <1>3, <1>11, <2>1, <2>2 DEF Disconnected, Honest
<1> QED
  BY <1>6, <1>7, <1>8, <1>9, <1>10, <1>11

\* An error reaches every attempt; the connection that it came from ends.
LEMMA ErrorStepsKept ==
    ASSUME IInv, NEW authentication \in BOOLEAN, NEW p \in Peers, NEW s \in Sides,
           \/ TcpFailed(p) \/ ConnectionFailed(p, s, authentication)
           \/ ProtocolFailed(p, s, authentication)
    PROVE  Kept
<1>1. PICK f : f = ErrorOccurred(IF TcpFailed(p) THEN FALSE ELSE authentication)
  OBVIOUS
<1>2. /\ DOMAIN f = Peers
      /\ \A q \in Peers : Good(f[q]) /\ f[q].connected = peer[q].connected
      /\ f[p].peerConn = peer[p].peerConn
      /\ \A k \in Sides : peer[p].conn[k].phase # "none" => f[p].conn[k] = peer[p].conn[k]
  BY <1>1, ErrorOccurredGood
<1>3. ASSUME NEW y, Good(y), y.connected = f[p].connected, peer' = [f EXCEPT ![p] = y]
      PROVE  Kept
  BY <1>2, <1>3 DEF Kept, Honest
<1>4. CASE TcpFailed(p)
  <2>1. PICK x : x = f[p]
    OBVIOUS
  <2>2. Good(x) /\ Shape(x) /\ x.conn \in Conns /\ Tables(x) /\ x.conn["out"].phase = "tcp"
    BY <1>2, <1>4, <2>1 DEF Good, Core, Shape, Conns, Sides, TcpFailed
  <2>3. PICK conns : conns = [x.conn EXCEPT !["out"].phase = "dead"]
    OBVIOUS
  <2>4. /\ conns \in Conns /\ conns["out"].phase = "dead"
        /\ \A k \in Sides : k # "out" => conns[k].phase = x.conn[k].phase
    BY <2>2, <2>3 DEF Conns, Phases, Sides
  <2>5. PICK y : y = [x EXCEPT !.conn = conns]
    OBVIOUS
  <2>6. Same(x, y) /\ y.conn = conns /\ y.client = x.client /\ y.peerConn = x.peerConn
    BY <2>2, <2>5 DEF Shape, Fields, Same
  <2>7. x.peerConn # "out" /\ "out" \in Sides
    BY <2>2 DEF Tables, Sides
  <2>8. y.client = {} <=> y.conn["out"].phase = "none"
    BY <2>2, <2>4, <2>6 DEF Tables
  <2>9. Good(y)
    BY <2>2, <2>4, <2>6, <2>7, <2>8, PhaseGood
  <2>10. peer' = [f EXCEPT ![p] = y]
    <3>1. peer' = [f EXCEPT ![p].conn["out"].phase = "dead"]
      BY <1>1, <1>4 DEF TcpFailed, Becomes
    <3> QED
      BY <2>1, <2>3, <2>5, <3>1
  <2> QED
    BY <1>3, <2>1, <2>6, <2>9, <2>10 DEF Same
<1>5. CASE ~TcpFailed(p) /\ ConnectionFailed(p, s, authentication)
  <2>1. PICK y : y = RemoveConnection(f[p], s)
    OBVIOUS
  <2>2. Good(y) /\ y.connected = f[p].connected
    BY <1>2, <2>1, RemoveConnectionGood
  <2>3. peer' = [f EXCEPT ![p] = y]
    BY <1>1, <1>5, <2>1 DEF ConnectionFailed, Becomes
  <2> QED
    BY <1>3, <2>2, <2>3
<1>6. CASE ~TcpFailed(p) /\ ProtocolFailed(p, s, authentication)
  <2>1. PICK y : y = Close(f[p], s)
    OBVIOUS
  <2>2. Good(y) /\ y.connected = f[p].connected
    BY <1>2, <2>1, CloseGood DEF Same
  <2>3. peer' = [f EXCEPT ![p] = y]
    BY <1>1, <1>6, <2>1 DEF ProtocolFailed, Becomes
  <2> QED
    BY <1>3, <2>2, <2>3
<1> QED
  BY <1>4, <1>5, <1>6

LEMMA StopAllKept ==
    ASSUME IInv, StopAll
    PROVE  Kept
<1>1. ASSUME NEW p \in Peers
      PROVE  LET y == Take(IF peer[p].owned THEN StopCoordinator(peer[p]) ELSE peer[p])
             IN Good(y) /\ Honest(peer[p], y)
  <2>1. PICK x : x = peer[p] /\ Good(x)
    BY DEF IInv
  <2>2. PICK z : z = IF x.owned THEN StopCoordinator(x) ELSE x
    OBVIOUS
  <2>3. Good(z) /\ ~z.hasRequest /\ (z.connected => x.connected)
    BY <2>1, <2>2, StopCoordinatorGood DEF Good, Core, Silent
  <2>4. PICK y : y = Take(z)
    OBVIOUS
  <2>5. /\ Shape(y) /\ ~y.pending.set
        /\ y.client = z.client /\ y.conn = z.conn /\ y.peerConn = z.peerConn
        /\ y.connected = z.connected /\ y.owned = z.owned /\ y.hasRequest = z.hasRequest
        /\ y.blocked = z.blocked /\ y.timers = z.timers
        /\ y.resolutions = z.resolutions /\ y.waiting = z.waiting
    BY <2>3, <2>4, TakeEffect DEF Good, Core
  <2>6. Good(y)
    BY <2>3, <2>5 DEF Good, Core, Tables, Silent, Waited, Busy, Active, Quiet, Retries,
                      Calls, Answers
  <2> QED
    BY <2>1, <2>2, <2>3, <2>4, <2>5, <2>6 DEF Honest
<1> QED
  BY <1>1 DEF StopAll, Becomes, Kept

-----------------------------------------------------------------------------
(* The specification.                                                       *)

LEMMA NoPeerGood ==
    ASSUME NEW x \in {NoPeer, [NoPeer EXCEPT !.trust = "trusted"]}
    PROVE  Good(x)
<1> DEFINE conns == [s \in Sides |-> NoConn]
<1>1. /\ conns \in [Sides -> [phase : Phases, closing : BOOLEAN]]
      /\ conns["out"].phase = "none"
  BY DEF NoConn, Phases, Sides
<1>2. NoCall \in [set : BOOLEAN, fresh : BOOLEAN] /\ ~NoCall.set
  BY DEF NoCall
<1> HIDE DEF conns
<1>3. /\ DOMAIN x = Fields /\ x.pending = NoCall /\ x.conn = conns
      /\ x.owned = FALSE /\ x.hasRequest = FALSE /\ x.connected = FALSE
      /\ x.waiting = FALSE /\ x.blocked = FALSE /\ x.timers = {} /\ x.resolutions = {}
      /\ x.client = {} /\ x.peerConn = "none"
  BY DEF NoPeer, Fields, conns
<1>4. Shape(x)
  BY <1>1, <1>2, <1>3 DEF Shape
<1> QED
  BY <1>1, <1>2, <1>3, <1>4 DEF Good, Core, Tables, Silent, Waited, Busy, Active, Quiet,
                                Retries, Calls, Answers

LEMMA InitEstablishes == Init => IInv
  BY NoPeerGood DEF Init, IInv

LEMMA PeerNextKept ==
    ASSUME IInv, NEW p \in Peers, PeerNext(p)
    PROVE  Kept
<1>1. CASE \/ Trust(p) \/ \E reported \in BOOLEAN : Revoke(p, reported)
           \/ \E hasPort \in BOOLEAN : Observe(p, hasPort)
           \/ \E r \in peer[p].resolutions, others \in Orders :
                CandidatesResolved(p, r, others)
           \/ \E r \in peer[p].resolutions : ResolutionFailed(p, r)
           \/ \E fresh \in BOOLEAN : RetryTimer(p, fresh)
  BY <1>1, CoordinatorStepsKept
<1>2. CASE \/ \E a \in Addresses : ConnectPeer(p, a)
           \/ Accept(p) \/ TcpConnected(p)
           \/ \E s \in Sides :
                Authenticated(p, s) \/ CapabilitiesReceived(p, s) \/ Disconnected(p, s)
  BY <1>2, ConnectionStepsKept
<1>3. CASE TcpFailed(p)
  BY <1>3, ErrorStepsKept DEF Sides
<1>4. CASE \E s \in Sides, authentication \in BOOLEAN :
             ConnectionFailed(p, s, authentication) \/ ProtocolFailed(p, s, authentication)
  BY <1>4, ErrorStepsKept
<1> QED
  BY <1>1, <1>2, <1>3, <1>4 DEF PeerNext

LEMMA StepKept ==
    ASSUME IInv, [Next]_vars
    PROVE  Kept
<1>1. CASE \E p \in Peers : PeerNext(p)
  BY <1>1, PeerNextKept
<1>2. ASSUME NEW authentication \in BOOLEAN, OtherError(authentication)
      PROVE  Kept
  <2>1. peer' = ErrorOccurred(authentication)
    BY <1>2 DEF OtherError, Becomes
  <2> QED
    BY <2>1, ErrorOccurredGood DEF Kept, Honest
<1>3. CASE StopAll
  BY <1>3, StopAllKept
<1>4. CASE peer' = peer
  BY <1>4 DEF IInv, Kept, Honest
<1> QED
  BY <1>1, <1>2, <1>3, <1>4 DEF Next, IdentityLost, vars

\* Every record of a peer is good in every reachable state.
THEOREM Invariance == Spec => []IInv
<1>1. IInv /\ [Next]_vars => IInv'
  BY StepKept DEF Kept, IInv
<1> QED
  BY <1>1, InitEstablishes, PTL DEF Spec

\* However late timers, resolutions and results of connection attempts
\* arrive, a coordinator with a request that is neither connected nor blocked
\* waits for exactly one thing, and any other coordinator for nothing
\* (AutoReconnectCoordinator's m_generation; AutoReconnectRuntime's m_pending).
THEOREM OneContinuation == Spec => []ExactlyOneContinuation
<1>1. IInv => ExactlyOneContinuation
  <2> SUFFICES ASSUME IInv, NEW p \in Peers
               PROVE  LET x == peer[p]
                      IN  IF Active(x)
                          THEN \E c \in Continuations(x) : Continuations(x) = {c}
                          ELSE Continuations(x) = {}
    BY DEF ExactlyOneContinuation, Active
  <2>1. PICK x : x = peer[p]
    OBVIOUS
  <2>2. Busy(x)
    BY <2>1 DEF IInv, Good
  <2>3. CASE Retries(x)
    <3>1. Continuations(x) = {"retry"} /\ Active(x)
      BY <2>2, <2>3 DEF Busy, Quiet, Continuations, Retries, Calls
    <3> QED
      BY <2>1, <3>1
  <2>4. CASE Calls(x)
    <3>1. Continuations(x) = {"connect"} /\ Active(x)
      BY <2>2, <2>4 DEF Busy, Quiet, Continuations, Retries, Calls
    <3> QED
      BY <2>1, <3>1
  <2>5. CASE x.waiting
    <3>1. Continuations(x) = {"resolve"} /\ Active(x)
      BY <2>2, <2>5 DEF Busy, Quiet, Continuations, Retries, Calls
    <3> QED
      BY <2>1, <3>1
  <2>6. CASE Quiet(x)
    <3>1. Continuations(x) = {} /\ ~Active(x)
      BY <2>2, <2>6 DEF Busy, Quiet, Continuations, Retries, Calls
    <3> QED
      BY <2>1, <3>1
  <2> QED
    BY <2>3, <2>4, <2>5, <2>6 DEF Quiet
<1> QED
  BY <1>1, Invariance, PTL

\* The answer of the address provider that a coordinator will accept is the
\* one to the question of its current round, and it is still to come
\* (AddressCandidateProvider's own generation; candidatesReady has none).
THEOREM AnswersBelongToTheRound == Spec => []AnswerOfThisRound
<1>1. IInv => AnswerOfThisRound
  BY DEF IInv, Good, Answers, AnswerOfThisRound
<1> QED
  BY <1>1, Invariance, PTL

\* A client has its connection in m_connections and m_peerConnections names a
\* live authenticated one, whichever of two connections of a peer is replaced,
\* closed or fails first, and although disconnectPeer leaves the entry of the
\* connection it deletes behind (removeConnection, handleAuthenticated).
THEOREM TablesStayTogether == Spec => []TablesAgree
<1>1. IInv => TablesAgree
  BY DEF IInv, Good, Core, Tables, TablesAgree
<1> QED
  BY <1>1, Invariance, PTL

\* A coordinator that was stopped by a revocation leaves no timer, resolution
\* or pending callback behind (AutoReconnectRuntime::stopPeer).
THEOREM RevokedPeersAreSilent == Spec => []StoppedIsSilent
<1>1. IInv => StoppedIsSilent
  BY DEF IInv, Good, Core, Silent, StoppedIsSilent
<1> QED
  BY <1>1, Invariance, PTL

\* No error, timeout or late callback is taken for a success: a coordinator
\* becomes connected only when the peer is trusted and one of its connections
\* has negotiated capabilities (AutoReconnectRuntime::completeReady and
\* connectCandidate).
THEOREM NoFalseSuccess == Spec => ConnectedMeansReady
<1>1. IInv /\ [Next]_vars =>
        [\A p \in Peers :
           ~peer[p].connected /\ peer'[p].connected =>
             /\ peer'[p].trust = "trusted"
             /\ \E s \in Sides : peer'[p].conn[s].phase = "ready"]_vars
  BY StepKept DEF Kept, Honest
<1> QED
  BY <1>1, Invariance, PTL DEF Spec, ConnectedMeansReady
===============================================================================
