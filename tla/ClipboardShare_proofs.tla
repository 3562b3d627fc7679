------------------------ MODULE ClipboardShare_proofs ------------------------
(***************************************************************************)
(* What the server takes a screen to have, it has, and what the client that *)
(* owns a clipboard has sent, the server has: the invariants of             *)
(* ClipboardShare, for every set of clients, every data and every number of *)
(* moves.                                                                   *)
(*                                                                          *)
(* From the server to a client: one that is up to date need not have the    *)
(* clipboard yet.  There says where it is: the last chunk in the server's   *)
(* queue, the last message on the connection, or in the client, unless its  *)
(* user has copied since and the grab is on its way and will be accepted.   *)
(*                                                                          *)
(* From a client to the server: Followed says where the last upload is: in  *)
(* the client's loop, on the connection, in the proxy with its event in the *)
(* server's queue, or in the server's clipboard, unless the server has      *)
(* another clipboard for the client, on its way or for its next enter.      *)
(***************************************************************************)
EXTENDS ClipboardShare, SequenceTheorems, TLAPS

Value == Data \cup {Empty}
EventType == [kind : {"grabbed", "changed", "send"}, who : Screens \cup {Empty},
              id : Ids, seq : Nat, data : Value]
ToClient == [kind : {"set", "grab", "enter", "leave"}, id : Ids, seq : Nat, data : Value]
FromClient == [kind : {"start", "data", "grab"}, id : Ids, seq : Nat, data : Value]
LocalType == [kind : {"start", "data", "grabbed"}, id : Ids, seq : Nat, data : Value]

Server == [listed : SUBSET Screens, active : Screens, seqNum : Nat,
           owner : [Ids -> Screens], seq : [Ids -> Nat],
           shown : [Ids -> Value], data : [Ids -> Value],
           dirty : [Screens -> [Ids -> BOOLEAN]],
           copy : [Clients -> [Ids -> Value]], content : [Ids -> Value], screenSeq : Nat,
           queue : Seq(EventType), out : [Clients -> Seq(ToClient)],
           cached : Nat, filling : Clients \cup {Empty},
           mixed : BOOLEAN, unexpected : BOOLEAN, forced : BOOLEAN]
Client == [content : [Ids -> Value], own : [Ids -> {"no", "unsent", "sent"}],
           data : [Ids -> Value], active : BOOLEAN, seq : Nat, local : Seq(LocalType), out : Seq(FromClient)]

-----------------------------------------------------------------------------
(* The invariant.  q is the server's queue, o what it wrote to the client,  *)
(* p the client, d the data and n the sequence number of the clipboard.     *)

SendFor(e, c, id) == e.kind = "send" /\ e.who = c /\ e.id = id
Touches(m, id) == m.kind \in {"set", "grab"} /\ m.id = id

Coming(q, c, id) == \E i \in 1 .. Len(q) : SendFor(q[i], c, id)
Untouched(o, id) == \A i \in 1 .. Len(o) : ~Touches(o[i], id)

\* What arrives last is the data.
LastSend(q, d, c, id) ==
    \A i \in 1 .. Len(q) :
      SendFor(q[i], c, id) /\ (\A j \in i + 1 .. Len(q) : ~SendFor(q[j], c, id))
      => q[i].data = d
LastSet(o, d, id) ==
    \A i \in 1 .. Len(o) :
      Touches(o[i], id) /\ (\A j \in i + 1 .. Len(o) : ~Touches(o[j], id))
      => o[i].kind = "set" /\ o[i].data = d

\* A grab that the server will not take for stale.
NewGrab(e, id, n) == e.id = id /\ e.seq >= n
FreshGrab(q, p, n, c, id) ==
    \/ \E i \in 1 .. Len(p.local) : p.local[i].kind = "grabbed" /\ p.local[i].id = id
    \/ \E i \in 1 .. Len(p.out) : p.out[i].kind = "grab" /\ NewGrab(p.out[i], id, n)
    \/ \E i \in 1 .. Len(q) :
         q[i].kind = "grabbed" /\ q[i].who = c /\ NewGrab(q[i], id, n)

\* The client knows a sequence number that makes its grabs fresh, or will
\* before it gets the clipboard.
Enter(m, n) == m.kind = "enter" /\ m.seq >= n
Caught(q, o, p, n, c, id) ==
    \/ p.seq >= n
    \/ \E i \in 1 .. Len(o) :
         /\ Enter(o[i], n)
         /\ Coming(q, c, id) \/ \E j \in i + 1 .. Len(o) : Touches(o[j], id)

There(q, o, d, n, p, c, id) ==
    /\ LastSend(q, d, c, id)
    /\ Coming(q, c, id) \/ LastSet(o, d, id)
    /\ Coming(q, c, id) \/ ~Untouched(o, id) \/ p.content[id] = d \/ FreshGrab(q, p, n, c, id)
    /\ Caught(q, o, p, n, c, id)

-----------------------------------------------------------------------------
(* Queues and what they do to There.                                        *)

Longer(q, r, e) ==
    /\ Len(q) \in Nat /\ Len(r) = Len(q) + 1
    /\ r[Len(q) + 1] = e /\ \A i \in 1 .. Len(q) : r[i] = q[i]
Shorter(q, r, e) ==
    /\ Len(r) \in Nat /\ Len(q) = Len(r) + 1
    /\ q[1] = e /\ \A i \in 1 .. Len(r) : r[i] = q[i + 1]

LEMMA Appended ==
    ASSUME NEW S, NEW q \in Seq(S), NEW e \in S
    PROVE  Append(q, e) \in Seq(S) /\ Longer(q, Append(q, e), e)
  BY DEF Longer

LEMMA Popped ==
    ASSUME NEW S, NEW q \in Seq(S), q # <<>>
    PROVE  Head(q) \in S /\ Tail(q) \in Seq(S) /\ Shorter(q, Tail(q), Head(q))
  BY DEF Shorter

\* An event that is no chunk for the client changes nothing.
LEMMA PostOther ==
    ASSUME NEW q, NEW r, NEW e, Longer(q, r, e), NEW o, NEW d, NEW n, NEW p, NEW c, NEW id,
           There(q, o, d, n, p, c, id), ~SendFor(e, c, id)
    PROVE  There(r, o, d, n, p, c, id)
<1> HIDE DEF SendFor
<1>1. \A i \in 1 .. Len(r) : i \in 1 .. Len(q) \/ i = Len(q) + 1
  BY DEF Longer
<1>2. Coming(r, c, id) <=> Coming(q, c, id)
  BY <1>1 DEF Longer, Coming
<1>3. LastSend(r, d, c, id)
  <2> SUFFICES ASSUME NEW i \in 1 .. Len(r), SendFor(r[i], c, id),
                      \A j \in i + 1 .. Len(r) : ~SendFor(r[j], c, id)
               PROVE  r[i].data = d
    BY DEF LastSend
  <2>1. i \in 1 .. Len(q)
    BY <1>1 DEF Longer
  <2>2. \A j \in i + 1 .. Len(q) : ~SendFor(q[j], c, id)
    BY <2>1 DEF Longer
  <2> QED
    BY <2>1, <2>2 DEF Longer, LastSend, There
<1>4. FreshGrab(q, p, n, c, id) => FreshGrab(r, p, n, c, id)
  BY <1>1 DEF FreshGrab, Longer
<1>5. Caught(q, o, p, n, c, id) => Caught(r, o, p, n, c, id)
  BY <1>2 DEF Caught
<1> QED
  BY <1>2, <1>3, <1>4, <1>5 DEF There

\* A chunk for a client that knows the sequence number brings it the data.
LEMMA PostSend ==
    ASSUME NEW q, NEW r, NEW e, Longer(q, r, e), NEW o, NEW d, NEW n, NEW p, NEW c, NEW id,
           SendFor(e, c, id), e.data = d,
           p.seq >= n \/ \E i \in 1 .. Len(o) : Enter(o[i], n)
    PROVE  There(r, o, d, n, p, c, id)
<1> HIDE DEF SendFor
<1>1. Coming(r, c, id)
  BY DEF Longer, Coming
<1>2. LastSend(r, d, c, id)
  <2> SUFFICES ASSUME NEW i \in 1 .. Len(r), SendFor(r[i], c, id),
                      \A j \in i + 1 .. Len(r) : ~SendFor(r[j], c, id)
               PROVE  r[i].data = d
    BY DEF LastSend
  <2>1. i = Len(r)
    BY DEF Longer
  <2> QED
    BY <2>1 DEF Longer
<1> QED
  BY <1>1, <1>2 DEF There, Caught

\* So does a message that does not touch the clipboard.
LEMMA WriteOther ==
    ASSUME NEW o, NEW r, NEW m, Longer(o, r, m), NEW q, NEW d, NEW n, NEW p, NEW c, NEW id,
           There(q, o, d, n, p, c, id), ~Touches(m, id)
    PROVE  There(q, r, d, n, p, c, id)
<1> HIDE DEF Touches
<1>1. \A i \in 1 .. Len(r) : i \in 1 .. Len(o) \/ i = Len(o) + 1
  BY DEF Longer
<1>2. Untouched(r, id) <=> Untouched(o, id)
  BY <1>1 DEF Longer, Untouched
<1>3. LastSet(o, d, id) => LastSet(r, d, id)
  <2> SUFFICES ASSUME LastSet(o, d, id), NEW i \in 1 .. Len(r), Touches(r[i], id),
                      \A j \in i + 1 .. Len(r) : ~Touches(r[j], id)
               PROVE  r[i].kind = "set" /\ r[i].data = d
    BY DEF LastSet
  <2>1. i \in 1 .. Len(o)
    BY <1>1 DEF Longer
  <2>2. \A j \in i + 1 .. Len(o) : ~Touches(o[j], id)
    BY <2>1 DEF Longer
  <2> QED
    BY <2>1, <2>2 DEF Longer, LastSet
<1>4. Caught(q, o, p, n, c, id) => Caught(q, r, p, n, c, id)
  <2> SUFFICES ASSUME NEW i \in 1 .. Len(o), Enter(o[i], n),
                      Coming(q, c, id) \/ \E j \in i + 1 .. Len(o) : Touches(o[j], id)
               PROVE  Caught(q, r, p, n, c, id)
    BY DEF Caught
  <2>1. i \in 1 .. Len(r) /\ r[i] = o[i]
    BY DEF Longer
  <2>2. \A j \in i + 1 .. Len(o) : j \in i + 1 .. Len(r) /\ r[j] = o[j]
    BY DEF Longer
  <2> QED
    BY <2>1, <2>2 DEF Caught
<1> QED
  BY <1>2, <1>3, <1>4 DEF There

\* An event that is dispatched, and was neither a chunk for the client nor a
\* grab of the client that is accepted.
LEMMA PopOther ==
    ASSUME NEW q, NEW r, NEW e, Shorter(q, r, e), NEW o, NEW d, NEW n, NEW p, NEW c, NEW id,
           There(q, o, d, n, p, c, id), ~SendFor(e, c, id),
           ~(e.kind = "grabbed" /\ e.who = c /\ NewGrab(e, id, n))
    PROVE  There(r, o, d, n, p, c, id)
<1> HIDE DEF SendFor, NewGrab
<1>1. \A i \in 1 .. Len(q) : i = 1 \/ (i - 1 \in 1 .. Len(r) /\ q[i] = r[i - 1])
  BY DEF Shorter
<1>2. \A i \in 1 .. Len(r) : i + 1 \in 1 .. Len(q) /\ r[i] = q[i + 1]
  BY DEF Shorter
<1>3. Coming(r, c, id) <=> Coming(q, c, id)
  BY <1>1, <1>2 DEF Shorter, Coming
<1>4. LastSend(r, d, c, id)
  <2> SUFFICES ASSUME NEW i \in 1 .. Len(r), SendFor(r[i], c, id),
                      \A j \in i + 1 .. Len(r) : ~SendFor(r[j], c, id)
               PROVE  r[i].data = d
    BY DEF LastSend
  <2>1. \A j \in (i + 1) + 1 .. Len(q) : ~SendFor(q[j], c, id)
    <3> SUFFICES ASSUME NEW j \in (i + 1) + 1 .. Len(q)
                 PROVE  ~SendFor(q[j], c, id)
      OBVIOUS
    <3>1. j - 1 \in i + 1 .. Len(r) /\ q[j] = r[j - 1]
      BY DEF Shorter
    <3> QED
      BY <3>1
  <2> QED
    BY <1>2, <2>1 DEF LastSend, There
<1>5. FreshGrab(q, p, n, c, id) => FreshGrab(r, p, n, c, id)
  BY <1>1 DEF FreshGrab, Shorter
<1>6. Caught(q, o, p, n, c, id) => Caught(r, o, p, n, c, id)
  BY <1>3 DEF Caught
<1> QED
  BY <1>3, <1>4, <1>5, <1>6 DEF There

\* A chunk that is written.
LEMMA PopSend ==
    ASSUME NEW q, NEW r, NEW e, Shorter(q, r, e), NEW o, NEW w, NEW m, Longer(o, w, m),
           NEW d, NEW n, NEW p, NEW c, NEW id,
           There(q, o, d, n, p, c, id), SendFor(e, c, id),
           m.kind = "set", m.id = id, m.data = e.data
    PROVE  There(r, w, d, n, p, c, id)
<1>0. Touches(m, id)
  BY DEF Touches
<1> HIDE DEF SendFor, Touches
<1>1. \A i \in 1 .. Len(r) : i + 1 \in 1 .. Len(q) /\ r[i] = q[i + 1]
  BY DEF Shorter
<1>2. LastSend(r, d, c, id)
  <2> SUFFICES ASSUME NEW i \in 1 .. Len(r), SendFor(r[i], c, id),
                      \A j \in i + 1 .. Len(r) : ~SendFor(r[j], c, id)
               PROVE  r[i].data = d
    BY DEF LastSend
  <2>1. \A j \in (i + 1) + 1 .. Len(q) : ~SendFor(q[j], c, id)
    <3> SUFFICES ASSUME NEW j \in (i + 1) + 1 .. Len(q)
                 PROVE  ~SendFor(q[j], c, id)
      OBVIOUS
    <3>1. j - 1 \in i + 1 .. Len(r) /\ q[j] = r[j - 1]
      BY DEF Shorter
    <3> QED
      BY <3>1
  <2> QED
    BY <1>1, <2>1 DEF LastSend, There
<1>3. Coming(r, c, id) \/ e.data = d
  <2> SUFFICES ASSUME ~Coming(r, c, id)
               PROVE  e.data = d
    OBVIOUS
  <2>1. \A j \in 1 + 1 .. Len(q) : ~SendFor(q[j], c, id)
    <3> SUFFICES ASSUME NEW j \in 1 + 1 .. Len(q)
                 PROVE  ~SendFor(q[j], c, id)
      OBVIOUS
    <3>1. j - 1 \in 1 .. Len(r) /\ q[j] = r[j - 1]
      BY DEF Shorter
    <3> QED
      BY <3>1 DEF Coming
  <2>2. 1 \in 1 .. Len(q) /\ q[1] = e
    BY DEF Shorter
  <2> QED
    BY <2>1, <2>2 DEF LastSend, There
<1>4. Len(w) \in 1 .. Len(w) /\ w[Len(w)] = m
  BY DEF Longer
<1>5. e.data = d => LastSet(w, d, id)
  <2> SUFFICES ASSUME e.data = d, NEW i \in 1 .. Len(w), Touches(w[i], id),
                      \A j \in i + 1 .. Len(w) : ~Touches(w[j], id)
               PROVE  w[i].kind = "set" /\ w[i].data = d
    BY DEF LastSet
  <2>1. i = Len(w)
    BY <1>0, <1>4 DEF Longer
  <2> QED
    BY <1>4, <2>1
<1>6. ~Untouched(w, id)
  BY <1>0, <1>4 DEF Untouched
<1>7. Caught(r, w, p, n, c, id)
  <2>1. CASE p.seq >= n
    BY <2>1 DEF Caught
  <2>2. ASSUME NEW i \in 1 .. Len(o), Enter(o[i], n)
        PROVE  Caught(r, w, p, n, c, id)
    <3>1. i \in 1 .. Len(w) /\ w[i] = o[i] /\ Len(w) \in i + 1 .. Len(w)
      BY DEF Longer
    <3> QED
      BY <1>0, <1>4, <2>2, <3>1 DEF Caught
  <2> QED
    BY <2>1, <2>2 DEF There, Caught
<1> QED
  BY <1>2, <1>3, <1>5, <1>6, <1>7 DEF There

\* The client takes a message.
LEMMA Taken ==
    ASSUME NEW o, NEW r, NEW m, Shorter(o, r, m), NEW q, NEW d, NEW n \in Nat, NEW c, NEW id,
           NEW p, NEW w, There(q, o, d, n, p, c, id), p.seq \in Nat, w.seq \in Nat,
           p.seq <= w.seq,
           m.kind = "enter" => w.seq = m.seq,
           ~Touches(m, id) => w.content[id] = p.content[id],
           Touches(m, id) /\ m.kind = "set" => w.content[id] = m.data,
           FreshGrab(q, p, n, c, id) => FreshGrab(q, w, n, c, id)
    PROVE  There(q, r, d, n, w, c, id)
<1>0. Touches(m, id) => m.kind # "enter"
  BY DEF Touches
<1> HIDE DEF Touches
<1>1. \A i \in 1 .. Len(r) : i + 1 \in 1 .. Len(o) /\ r[i] = o[i + 1]
  BY DEF Shorter
<1>2. LastSet(o, d, id) => LastSet(r, d, id)
  <2> SUFFICES ASSUME LastSet(o, d, id), NEW i \in 1 .. Len(r), Touches(r[i], id),
                      \A j \in i + 1 .. Len(r) : ~Touches(r[j], id)
               PROVE  r[i].kind = "set" /\ r[i].data = d
    BY DEF LastSet
  <2>1. \A j \in (i + 1) + 1 .. Len(o) : ~Touches(o[j], id)
    <3> SUFFICES ASSUME NEW j \in (i + 1) + 1 .. Len(o)
                 PROVE  ~Touches(o[j], id)
      OBVIOUS
    <3>1. j - 1 \in i + 1 .. Len(r) /\ o[j] = r[j - 1]
      BY DEF Shorter
    <3> QED
      BY <3>1
  <2> QED
    BY <1>1, <2>1 DEF LastSet
<1>3. LastSet(o, d, id) /\ Untouched(r, id) /\ Touches(m, id)
        => m.kind = "set" /\ m.data = d
  <2> SUFFICES ASSUME LastSet(o, d, id), Untouched(r, id), Touches(m, id)
               PROVE  m.kind = "set" /\ m.data = d
    OBVIOUS
  <2>1. \A j \in 1 + 1 .. Len(o) : ~Touches(o[j], id)
    <3> SUFFICES ASSUME NEW j \in 1 + 1 .. Len(o)
                 PROVE  ~Touches(o[j], id)
      OBVIOUS
    <3>1. j - 1 \in 1 .. Len(r) /\ o[j] = r[j - 1]
      BY DEF Shorter
    <3> QED
      BY <3>1 DEF Untouched
  <2>2. 1 \in 1 .. Len(o) /\ o[1] = m
    BY DEF Shorter
  <2> QED
    BY <2>1, <2>2 DEF LastSet
<1>4. ~Touches(m, id) => (Untouched(r, id) <=> Untouched(o, id))
  <2>1. \A i \in 1 .. Len(o) : i = 1 \/ (i - 1 \in 1 .. Len(r) /\ o[i] = r[i - 1])
    BY DEF Shorter
  <2> QED
    BY <1>1, <2>1 DEF Untouched, Shorter
<1>5. Caught(q, r, w, n, c, id)
  <2>1. CASE p.seq >= n
    BY <2>1 DEF Caught
  <2>2. ASSUME NEW i \in 1 .. Len(o), Enter(o[i], n),
               Coming(q, c, id) \/ \E j \in i + 1 .. Len(o) : Touches(o[j], id)
        PROVE  Caught(q, r, w, n, c, id)
    <3>1. CASE i = 1
      BY <2>2, <3>1 DEF Shorter, Enter, Caught
    <3>2. CASE i # 1
      <4>1. i - 1 \in 1 .. Len(r) /\ r[i - 1] = o[i]
        BY <3>2 DEF Shorter
      <4>2. \A j \in i + 1 .. Len(o) : j - 1 \in (i - 1) + 1 .. Len(r) /\ r[j - 1] = o[j]
        BY <3>2 DEF Shorter
      <4> QED
        BY <2>2, <4>1, <4>2 DEF Caught
    <3> QED
      BY <3>1, <3>2
  <2> QED
    BY <2>1, <2>2 DEF There, Caught
<1> QED
  BY <1>2, <1>3, <1>4, <1>5 DEF There

\* The client moves on its own.
LEMMA Moved ==
    ASSUME NEW o, NEW q, NEW d, NEW n \in Nat, NEW c, NEW id, NEW p, NEW w,
           There(q, o, d, n, p, c, id), Len(o) \in Nat, p.seq \in Nat, w.seq = p.seq,
           p.seq >= n => \/ FreshGrab(q, w, n, c, id)
                         \/ /\ w.content[id] = p.content[id]
                            /\ ~FreshGrab(q, p, n, c, id)
    PROVE  There(q, o, d, n, w, c, id)
<1>1. Caught(q, o, w, n, c, id)
  BY DEF There, Caught
<1>2. p.seq >= n \/ Coming(q, c, id) \/ ~Untouched(o, id)
  BY DEF There, Caught, Untouched
<1> QED
  BY <1>1, <1>2 DEF There

\* The proxies of other screens are deleted, and replaced.
Apart(q, r, c) ==
    /\ Len(r) = Len(q)
    /\ \A i \in 1 .. Len(q) : r[i] = q[i] \/ (q[i].who # c /\ r[i].who # c)

LEMMA Forgetting ==
    ASSUME NEW o, NEW q, NEW r, NEW d, NEW n, NEW c, NEW id, NEW p,
           There(q, o, d, n, p, c, id), Apart(q, r, c)
    PROVE  There(r, o, d, n, p, c, id)
<1>1. \A i \in 1 .. Len(q) : SendFor(r[i], c, id) <=> SendFor(q[i], c, id)
  BY DEF Apart, SendFor
<1>2. \A i \in 1 .. Len(q) : SendFor(q[i], c, id) => r[i] = q[i]
  BY DEF Apart, SendFor
<1>3. \A i \in 1 .. Len(q) : q[i].who = c => r[i] = q[i]
  BY DEF Apart
<1>4. Len(r) = Len(q)
  BY DEF Apart
<1> HIDE DEF SendFor
<1>5. Coming(r, c, id) <=> Coming(q, c, id)
  BY <1>1, <1>4 DEF Coming
<1>6. LastSend(r, d, c, id)
  <2> SUFFICES ASSUME NEW i \in 1 .. Len(r), SendFor(r[i], c, id),
                      \A j \in i + 1 .. Len(r) : ~SendFor(r[j], c, id)
               PROVE  r[i].data = d
    BY DEF LastSend
  <2>1. \A j \in i + 1 .. Len(q) : j \in 1 .. Len(q)
    BY <1>4
  <2> QED
    BY <1>1, <1>2, <1>4, <2>1 DEF LastSend, There
<1>7. FreshGrab(q, p, n, c, id) => FreshGrab(r, p, n, c, id)
  BY <1>3, <1>4 DEF FreshGrab
<1>8. Caught(q, o, p, n, c, id) => Caught(r, o, p, n, c, id)
  BY <1>5 DEF Caught
<1> QED
  BY <1>5, <1>6, <1>7, <1>8 DEF There

-----------------------------------------------------------------------------
(* The invariant of a server s and its clients k.                           *)

Ahead(q, id) ==
    \E i \in 1 .. Len(q) : q[i].kind = "grabbed" /\ q[i].who = Primary /\ q[i].id = id

Typed(s, k) ==
    /\ s \in Server /\ k \in [Clients -> Client]
    /\ Primary \in s.listed /\ s.active \in s.listed

\* What is over the limit never leaves the screen it was copied on.
Limited(s, k) ==
    /\ \A id \in Ids : s.data[id] \notin Big
    /\ \A c \in Clients, id \in Ids : s.copy[c][id] \notin Big
    /\ \A c \in Clients :
         /\ \A i \in 1 .. Len(k[c].out) : k[c].out[i].kind = "data" => k[c].out[i].data \notin Big
         /\ \A i \in 1 .. Len(k[c].local) :
              k[c].local[i].kind = "data" => k[c].local[i].data \notin Big

\* Nobody is ahead of the server's sequence number, and a client's only grows.
Increasing(o, n, top) ==
    \A i \in 1 .. Len(o) : o[i].kind = "enter" =>
      /\ n <= o[i].seq /\ o[i].seq <= top
      /\ \A j \in i + 1 .. Len(o) : o[j].kind = "enter" => o[i].seq <= o[j].seq
UpTo(q, top) == \A i \in 1 .. Len(q) : q[i].seq <= top
Numbered(s, k) ==
    /\ s.screenSeq <= s.seqNum /\ \A id \in Ids : s.seq[id] <= s.seqNum
    /\ UpTo(s.queue, s.seqNum)
    /\ \A c \in Clients :
         /\ k[c].seq <= s.seqNum /\ UpTo(k[c].out, s.seqNum) /\ UpTo(k[c].local, s.seqNum)
         /\ Increasing(s.out[c], k[c].seq, s.seqNum)

\* The events of a proxy go with it.
Known(s) == \A i \in 1 .. Len(s.queue) : s.queue[i].who \in s.listed \cup {Empty}

\* The active client knows the sequence number, or will.
Entered(s, k) ==
    s.active # Primary =>
      \/ k[s.active].seq >= s.seqNum
      \/ \E i \in 1 .. Len(s.out[s.active]) : Enter(s.out[s.active][i], s.seqNum)

\* What the server shows, and what the server's own screen has.
Here(s, id) ==
    /\ s.shown[id] \in Big \/ s.shown[id] = s.data[id]
    /\ s.shown[id] \in Big => s.owner[id] = Primary
    /\ s.owner[id] = Primary /\ s.shown[id] \in Big /\ ~Ahead(s.queue, id)
         => s.content[id] = s.shown[id]
    /\ s.owner[id] # Primary /\ ~s.dirty[Primary][id] /\ ~Ahead(s.queue, id)
         => s.content[id] = s.data[id]

UpToDate(s, k, c, id) ==
    ~s.dirty[c][id] /\ s.owner[id] # c
      => There(s.queue, s.out[c], s.data[id], s.seq[id], k[c], c, id)

Served(s, id) ==
    s.dirty[s.active][id]
      => s.data[id] = Empty \/ s.shown[id] \in Big \/ s.forced \/ Ahead(s.queue, id)

Sound(s, k) == Typed(s, k) /\ Limited(s, k) /\ Numbered(s, k) /\ Known(s)
Kept(s, k) ==
    s.unexpected \/
    /\ Entered(s, k)
    /\ \A id \in Ids :
         Here(s, id) /\ \A c \in s.listed \ {Primary} : UpToDate(s, k, c, id)
AllServed(s) == s.unexpected \/ \A id \in Ids : Served(s, id)

IInv == Sound(server, client) /\ Kept(server, client) /\ AllServed(server)

-----------------------------------------------------------------------------
(* What the server does, from one server to the next.                       *)

\* All but what SetClipboard changes.
SameBut(s, t) ==
    /\ t.listed = s.listed /\ t.active = s.active /\ t.seqNum = s.seqNum
    /\ t.owner = s.owner /\ t.seq = s.seq /\ t.shown = s.shown /\ t.data = s.data
    /\ t.screenSeq = s.screenSeq /\ t.out = s.out
    /\ t.unexpected = s.unexpected /\ t.forced = s.forced

Delivered(s, t, id) ==
    /\ SameBut(s, t) /\ ~t.dirty[t.active][id]
    /\ \A c \in Screens, i \in Ids : t.dirty[c][i] => s.dirty[c][i]
    /\ \A i \in Ids : Ahead(s.queue, i) => Ahead(t.queue, i)

\* The buffer of the proxies.
SameBuffer(s, t) == t.mixed = s.mixed /\ t.cached = s.cached /\ t.filling = s.filling

\* A chunk is posted to a client that did not have the clipboard.
Posted(s, t, id) ==
    \E e : SendFor(e, s.active, id) /\ e.seq = 0 /\ Longer(s.queue, t.queue, e)
Sent(s, t, id) ==
    /\ SameBuffer(s, t)
    /\ \A c \in Screens, i \in Ids : c # s.active \/ i # id => t.dirty[c][i] = s.dirty[c][i]
    /\ \A c \in Clients, i \in Ids : c # s.active \/ i # id => t.copy[c][i] = s.copy[c][i]
    /\ IF s.dirty[s.active][id] /\ s.active # Primary
       THEN Posted(s, t, id) ELSE t.queue = s.queue /\ t.copy = s.copy

LEMMA Posting ==
    ASSUME NEW q \in Seq(EventType), NEW e \in EventType
    PROVE  /\ Append(q, e) \in Seq(EventType) /\ Longer(q, Append(q, e), e)
           /\ \A id : ~(e.kind = "grabbed" /\ e.who = Primary /\ e.id = id)
                        => (Ahead(Append(q, e), id) <=> Ahead(q, id))
<1> DEFINE r == Append(q, e)
<1>1. r \in Seq(EventType) /\ Longer(q, r, e)
  BY Appended
<1> HIDE DEF r
<1>2. \A i \in 1 .. Len(r) : i \in 1 .. Len(q) \/ i = Len(q) + 1
  BY <1>1 DEF Longer
<1>3. ASSUME NEW id, ~(e.kind = "grabbed" /\ e.who = Primary /\ e.id = id)
      PROVE  Ahead(r, id) <=> Ahead(q, id)
  BY <1>1, <1>2, <1>3 DEF Longer, Ahead
<1>4. r \in Seq(EventType) /\ Longer(q, r, e)
           /\ \A id : ~(e.kind = "grabbed" /\ e.who = Primary /\ e.id = id)
                        => (Ahead(r, id) <=> Ahead(q, id))
  BY <1>1, <1>3
<1> QED
  BY <1>4 DEF r

\* What is written keeps the sequence numbers of the enters in order.
LEMMA WriteIncreasing ==
    ASSUME NEW o \in Seq(ToClient), NEW w, NEW m, Longer(o, w, m),
           NEW n \in Nat, NEW top \in Nat, NEW new \in Nat, top <= new,
           Increasing(o, n, top), m.kind = "enter" => n <= m.seq /\ m.seq = new
    PROVE  Increasing(w, n, new)
<1>a. \A i \in 1 .. Len(w) : i \in 1 .. Len(o) \/ i = Len(o) + 1
  BY DEF Longer
<1>1. \A i \in 1 .. Len(w) : (i \in 1 .. Len(o) /\ w[i] = o[i]) \/ (i = Len(w) /\ w[i] = m)
  BY <1>a DEF Longer
<1>2. \A i \in 1 .. Len(o) : o[i] \in ToClient
  OBVIOUS
<1>3. \A i \in 1 .. Len(o) : o[i].seq \in Nat
  BY <1>2 DEF ToClient
<1>4. Len(w) = Len(o) + 1 /\ Len(o) \in Nat
  BY DEF Longer
<1> SUFFICES ASSUME NEW i \in 1 .. Len(w), w[i].kind = "enter"
             PROVE  /\ n <= w[i].seq /\ w[i].seq <= new
                    /\ \A j \in i + 1 .. Len(w) : w[j].kind = "enter" => w[i].seq <= w[j].seq
  BY DEF Increasing
<1>5. CASE i = Len(w) /\ w[i] = m
  BY <1>4, <1>5
<1>6. CASE i \in 1 .. Len(o) /\ w[i] = o[i]
  <2>1. n <= o[i].seq /\ o[i].seq <= top
    BY <1>6 DEF Increasing
  <2>2. ASSUME NEW j \in i + 1 .. Len(w), w[j].kind = "enter"
        PROVE  o[i].seq <= w[j].seq
    <3>1. CASE j = Len(w) /\ w[j] = m
      BY <1>3, <1>6, <2>1, <2>2, <3>1
    <3>2. CASE j \in 1 .. Len(o) /\ w[j] = o[j]
      BY <1>4, <1>6, <2>2, <3>2 DEF Increasing
    <3> QED
      BY <1>1, <1>4, <1>6, <2>2, <3>1, <3>2
  <2> QED
    BY <1>3, <1>6, <2>1, <2>2
<1> QED
  BY <1>1, <1>5, <1>6

LEMMA SetClipboardKeeps ==
    ASSUME NEW s, NEW k, Sound(s, k), Kept(s, k), NEW id \in Ids, s.shown[id] \notin Big
    PROVE  LET t == SetClipboard(s, s.active, id)
           IN  Sound(t, k) /\ Kept(t, k) /\ Delivered(s, t, id) /\ Sent(s, t, id)
<1> DEFINE dst == s.active
           t == SetClipboard(s, dst, id)
           e == Event("send", dst, id, 0, s.shown[id])
           clean == [s.dirty EXCEPT ![dst] = [s.dirty[dst] EXCEPT ![id] = FALSE]]
<1>0. s \in Server /\ k \in [Clients -> Client] /\ dst \in Screens
  BY DEF Sound, Typed, Server
<1>a. /\ clean \in [Screens -> [Ids -> BOOLEAN]] /\ ~clean[dst][id]
      /\ \A c \in Screens, i \in Ids :
           (clean[c][i] => s.dirty[c][i]) /\ (c # dst \/ i # id => clean[c][i] = s.dirty[c][i])
  BY <1>0 DEF Server
<1>1. CASE ~s.dirty[dst][id]
  <2>1. t = s
    BY <1>1 DEF SetClipboard
  <2> QED
    BY <1>1, <2>1 DEF Delivered, SameBut, Sent, SameBuffer
<1>2. CASE s.dirty[dst][id] /\ dst = Primary
  <2> DEFINE new == [s.content EXCEPT ![id] = s.shown[id]]
  <2>1. t = [s EXCEPT !.dirty = clean, !.content = new]
    BY <1>2 DEF SetClipboard
  <2>2. new \in [Ids -> Value] /\ new[id] = s.shown[id]
        /\ \A i \in Ids : i # id => new[i] = s.content[i]
    BY <1>0 DEF Server
  <2> HIDE DEF t, clean, new
  <2>3. t \in Server
    BY <1>0, <1>a, <2>1, <2>2 DEF Server
  <2>4. /\ t.queue = s.queue /\ t.copy = s.copy /\ t.dirty = clean /\ t.content = new
        /\ SameBut(s, t)
    BY <1>0, <2>1 DEF Server, SameBut
  <2>5. Sound(t, k)
    BY <2>3, <2>4 DEF SameBut, Sound, Typed, Limited, Numbered, Known
  <2>6. Delivered(s, t, id)
    BY <1>a, <2>4 DEF Delivered, SameBut
  <2>7. Here(s, id) => Here(t, id)
    BY <1>0, <1>2, <1>a, <2>2, <2>4 DEF SameBut, Here
  <2>8. ASSUME NEW i \in Ids, i # id
        PROVE  Here(s, i) => Here(t, i)
    BY <1>0, <1>2, <1>a, <2>2, <2>4, <2>8 DEF SameBut, Here
  <2>9. ASSUME NEW i \in Ids, NEW c \in s.listed \ {Primary}
        PROVE  UpToDate(s, k, c, i) => UpToDate(t, k, c, i)
    <3>1. c \in Screens /\ c # dst
      BY <1>0, <1>2 DEF Server
    <3> QED
      BY <1>a, <2>4, <3>1 DEF SameBut, UpToDate
  <2>10. Kept(t, k)
    BY <2>4, <2>7, <2>8, <2>9 DEF SameBut, Kept, Entered
  <2>11. SameBuffer(s, t)
    BY <1>0, <2>1 DEF Server, SameBuffer
  <2>12. Sent(s, t, id)
    BY <1>2, <1>a, <2>4, <2>11 DEF Sent
  <2> QED
    BY <2>5, <2>6, <2>10, <2>12 DEF t
<1>3. CASE s.dirty[dst][id] /\ dst # Primary
  <2> DEFINE new == [s.copy EXCEPT ![dst] = [s.copy[dst] EXCEPT ![id] = s.shown[id]]]
             q == Append(s.queue, e)
  <2>1. t = [s EXCEPT !.dirty = clean, !.copy = new, !.queue = q]
    BY <1>0, <1>3 DEF SetClipboard, Post, Server
  <2>2. dst \in Clients
    BY <1>0, <1>3 DEF Screens
  <2>a. /\ new \in [Clients -> [Ids -> Value]]
        /\ \A c \in Clients, i \in Ids : new[c][i] \in {s.copy[c][i], s.shown[id]}
        /\ \A c \in Clients, i \in Ids : c # dst \/ i # id => new[c][i] = s.copy[c][i]
    BY <1>0, <2>2 DEF Server
  <2>b. /\ e \in EventType /\ e.kind = "send" /\ e.who = dst /\ e.id = id /\ e.seq = 0
        /\ e.data = s.shown[id]
    BY <1>0 DEF Server, EventType, Event, Screens
  <2>c. s.queue \in Seq(EventType)
    BY <1>0 DEF Server
  <2> HIDE DEF t, clean, new, e
  <2>d. /\ q \in Seq(EventType) /\ Longer(s.queue, q, e)
        /\ \A i : Ahead(q, i) <=> Ahead(s.queue, i)
    BY <2>b, <2>c, Posting
  <2> HIDE DEF q
  <2>3. t \in Server
    BY <1>0, <1>a, <2>1, <2>a, <2>d DEF Server
  <2>4. /\ t.queue = q /\ t.copy = new /\ t.dirty = clean /\ t.content = s.content
        /\ SameBut(s, t)
    BY <1>0, <2>1 DEF Server, SameBut
  <2>5. Sound(t, k)
    <3>1. Typed(t, k) /\ Limited(t, k)
      BY <2>3, <2>4, <2>a DEF SameBut, Sound, Typed, Limited
    <3>a. \A i \in 1 .. Len(q) : (i \in 1 .. Len(s.queue) /\ q[i] = s.queue[i]) \/ q[i] = e
      BY <2>d DEF Longer
    <3>b. s.seqNum \in Nat /\ dst \in s.listed
      BY <1>0 DEF Server, Sound, Typed
    <3>2. UpTo(q, s.seqNum) /\ Known(t)
      BY <2>b, <3>a, <3>b, <2>4 DEF SameBut, UpTo, Known, Sound, Numbered
    <3> QED
      BY <2>4, <3>1, <3>2 DEF SameBut, Sound, Numbered
  <2>6. Delivered(s, t, id)
    BY <1>a, <2>d, <2>4 DEF Delivered, SameBut
  <2>7. ASSUME NEW i \in Ids
        PROVE  Here(s, i) => Here(t, i)
    <3>1. Primary \in Screens /\ clean[Primary][i] = s.dirty[Primary][i]
      BY <1>3, <1>a DEF Screens
    <3> QED
      BY <2>d, <2>4, <3>1 DEF SameBut, Here
  <2>8. ASSUME NEW i \in Ids, NEW c \in s.listed \ {Primary}, c # dst \/ i # id
        PROVE  UpToDate(s, k, c, i) => UpToDate(t, k, c, i)
    <3>1. c \in Screens
      BY <1>0 DEF Server
    <3>2. ~SendFor(e, c, i)
      BY <2>b, <2>8 DEF SendFor
    <3> QED
      BY <1>a, <2>d, <2>4, <2>8, <3>1, <3>2, PostOther DEF SameBut, UpToDate
  <2>9. Entered(s, k) /\ Here(s, id) => UpToDate(t, k, dst, id)
    <3> SUFFICES ASSUME Entered(s, k), Here(s, id)
                 PROVE  There(q, s.out[dst], s.data[id], s.seq[id], k[dst], dst, id)
      BY <2>4 DEF SameBut, UpToDate
    <3>1. SendFor(e, dst, id) /\ e.data = s.data[id]
      BY <2>b DEF SendFor, Here
    <3>2. s.seq[id] <= s.seqNum /\ s.seq[id] \in Nat /\ s.seqNum \in Nat /\ k[dst].seq \in Nat
      BY <1>0, <2>2 DEF Sound, Numbered, Server, Client
    <3>3. \A i \in 1 .. Len(s.out[dst]) : s.out[dst][i].seq \in Nat
      <4>1. s.out[dst] \in Seq(ToClient)
        BY <1>0, <2>2 DEF Server
      <4>2. \A i \in 1 .. Len(s.out[dst]) : s.out[dst][i] \in ToClient
        BY <4>1
      <4> QED
        BY <4>2 DEF ToClient
    <3>4. k[dst].seq >= s.seq[id] \/ \E i \in 1 .. Len(s.out[dst]) : Enter(s.out[dst][i], s.seq[id])
      BY <1>3, <3>2, <3>3 DEF Entered, Enter
    <3> QED
      BY <2>d, <3>1, <3>4, PostSend
  <2>10. Kept(t, k)
    BY <2>4, <2>7, <2>8, <2>9 DEF SameBut, Kept, Entered
  <2>11. SameBuffer(s, t)
    BY <1>0, <2>1 DEF Server, SameBuffer
  <2>12. Posted(s, t, id)
    BY <2>b, <2>d, <2>4 DEF SendFor, Posted
  <2>13. Sent(s, t, id)
    BY <1>3, <1>a, <2>a, <2>4, <2>11, <2>12 DEF Sent
  <2> QED
    BY <2>5, <2>6, <2>10, <2>13 DEF t
<1> QED
  BY <1>0, <1>1, <1>2, <1>3 DEF Server

\* What an update of a clipboard leaves alone.
SameRound(s, t) ==
    /\ t.listed = s.listed /\ t.active = s.active /\ t.seqNum = s.seqNum
    /\ t.owner = s.owner /\ t.seq = s.seq /\ t.screenSeq = s.screenSeq
    /\ t.out = s.out /\ t.forced = s.forced
    /\ s.unexpected => t.unexpected

\* What becomes of the clipboards: the one that is updated is sent to the active screen.
Updated(s, t, sender, id, seq) ==
    /\ SameBuffer(s, t)
    /\ t = s \/ t.unexpected \/ s.owner[id] = sender
    /\ \A i \in Ids \ {id} : t.data[i] = s.data[i]
    /\ \A c \in Screens, i \in Ids \ {id} : t.dirty[c][i] = s.dirty[c][i]
    /\ \A c \in Clients, i \in Ids :
         c = sender \/ c # s.active \/ i # id => t.copy[c][i] = s.copy[c][i]
    /\ (t.queue = s.queue /\ t.copy = s.copy) \/ Posted(s, t, id)
    /\ sender # Primary => IF Stale(s, id, seq) THEN t = s ELSE t.data[id] = s.copy[sender][id]

\* onClipboardChanged keeps everything, and the active screen is served.
LEMMA ChangedKeeps ==
    ASSUME ClipboardAssumption,
           NEW s, NEW k, Sound(s, k), Kept(s, k), AllServed(s),
           NEW sender \in s.listed, NEW id \in Ids, NEW seq
    PROVE  LET t == OnClipboardChanged(s, sender, id, seq)
           IN  /\ Sound(t, k) /\ Kept(t, k) /\ AllServed(t) /\ SameRound(s, t)
               /\ Updated(s, t, sender, id, seq)
<1> DEFINE new == IF sender = Primary THEN s.content[id] ELSE s.copy[sender][id]
           got == [s EXCEPT !.shown[id] = new,
                            !.unexpected = @ \/ s.owner[id] # sender]
           t == OnClipboardChanged(s, sender, id, seq)
<1>0. /\ s \in Server /\ k \in [Clients -> Client] /\ sender \in Screens
      /\ Primary \in s.listed /\ s.listed \subseteq Screens
  BY DEF Sound, Typed, Server
<1>1. new \in Value /\ (sender = Primary => new = s.content[id])
      /\ (new \in Big => sender = Primary) /\ (sender # Primary => new = s.copy[sender][id])
  BY <1>0 DEF Server, Screens, Sound, Limited
<1>2. t = IF Stale(s, id, seq) THEN s
          ELSE IF new \in Big \/ new = s.data[id] THEN got
          ELSE Deliver([got EXCEPT !.data[id] = new], sender, id)
  BY DEF OnClipboardChanged
<1> DEFINE shown == [s.shown EXCEPT ![id] = new]
           bad == (s.unexpected \/ s.owner[id] # sender)
<1>3. /\ shown \in [Ids -> Value] /\ shown[id] = new
      /\ \A i \in Ids : i # id => shown[i] = s.shown[i]
  BY <1>0, <1>1 DEF Server
<1>4. bad \in BOOLEAN /\ got = [s EXCEPT !.shown = shown, !.unexpected = bad]
  BY <1>0 DEF Server
<1>5. ~bad => s.owner[id] = sender
  OBVIOUS
<1>6. bad \/ ~s.unexpected
  BY <1>0 DEF Server
<1>7. CASE Stale(s, id, seq)
  BY <1>2, <1>7 DEF SameRound, Updated, SameBuffer
<1>8. CASE ~Stale(s, id, seq) /\ (new \in Big \/ new = s.data[id])
  <2>1. t = got
    BY <1>2, <1>8
  <2> HIDE DEF t, got, shown, bad, new
  <2>2. got \in Server
    BY <1>0, <1>3, <1>4 DEF Server
  <2>3. /\ got.shown = shown /\ got.unexpected = bad /\ got.data = s.data
        /\ got.dirty = s.dirty /\ got.copy = s.copy /\ got.content = s.content
        /\ got.queue = s.queue /\ got.listed = s.listed /\ got.active = s.active
        /\ got.seqNum = s.seqNum /\ got.owner = s.owner /\ got.seq = s.seq
        /\ got.screenSeq = s.screenSeq /\ got.out = s.out /\ got.forced = s.forced
        /\ SameBuffer(s, got)
    BY <1>0, <1>4 DEF Server, SameBuffer
  <2>4. Sound(got, k)
    BY <2>2, <2>3 DEF Sound, Typed, Limited, Numbered, Known
  <2>5. SameRound(s, got)
    BY <1>6, <2>3 DEF SameRound
  <2>6. Here(s, id) /\ ~bad => Here(got, id)
    BY <1>1, <1>3, <1>5, <1>8, <2>3 DEF Here
  <2>7. ASSUME NEW i \in Ids, i # id
        PROVE  (Here(s, i) => Here(got, i)) /\ (Served(s, i) => Served(got, i))
    BY <1>3, <2>3, <2>7 DEF Here, Served
  <2>8. Here(s, id) /\ Served(s, id) /\ ~bad => Served(got, id)
    BY <1>1, <1>3, <1>5, <1>8, <2>3 DEF Here, Served
  <2>9. ASSUME NEW i \in Ids, NEW c \in s.listed \ {Primary}
        PROVE  UpToDate(s, k, c, i) => UpToDate(got, k, c, i)
    BY <2>3 DEF UpToDate
  <2>10. Kept(got, k) /\ AllServed(got)
    BY <1>6, <2>3, <2>6, <2>7, <2>8, <2>9 DEF Kept, AllServed, Entered
  <2>11. Updated(s, got, sender, id, seq)
    BY <1>1, <1>5, <1>8, <2>3 DEF Updated
  <2> QED
    BY <2>1, <2>4, <2>5, <2>10, <2>11 DEF t
<1>9. CASE ~Stale(s, id, seq) /\ ~(new \in Big \/ new = s.data[id])
  <2> DEFINE data == [s.data EXCEPT ![id] = new]
             dirty == [c \in Screens |-> IF c \in s.listed
                         THEN [s.dirty[c] EXCEPT ![id] = c # sender] ELSE s.dirty[c]]
             r == MarkDirty([got EXCEPT !.data[id] = new], sender, id)
  <2>1. t = SetClipboard(r, r.active, id)
    BY <1>0, <1>2, <1>4, <1>9 DEF Deliver, MarkDirty, Server
  <2>2. data \in [Ids -> Value] /\ data[id] = new /\ \A i \in Ids : i # id => data[i] = s.data[i]
    BY <1>0, <1>1 DEF Server
  <2>3. /\ dirty \in [Screens -> [Ids -> BOOLEAN]]
        /\ \A c \in s.listed : dirty[c][id] <=> c # sender
        /\ \A c \in Screens, i \in Ids : i # id => dirty[c][i] = s.dirty[c][i]
    BY <1>0 DEF Server
  <2>4. r = [s EXCEPT !.shown = shown, !.unexpected = bad, !.data = data, !.dirty = dirty]
    BY <1>0, <1>4 DEF MarkDirty, Server
  <2> HIDE DEF t, got, shown, bad, new, r, data, dirty
  <2>5. r \in Server
    BY <1>0, <1>3, <1>4, <2>2, <2>3, <2>4 DEF Server
  <2>6. /\ r.shown = shown /\ r.unexpected = bad /\ r.data = data
        /\ r.dirty = dirty /\ r.copy = s.copy /\ r.content = s.content
        /\ r.queue = s.queue /\ r.listed = s.listed /\ r.active = s.active
        /\ r.seqNum = s.seqNum /\ r.owner = s.owner /\ r.seq = s.seq
        /\ r.screenSeq = s.screenSeq /\ r.out = s.out /\ r.forced = s.forced
        /\ SameBuffer(s, r)
    BY <1>0, <2>4 DEF Server, SameBuffer
  <2>7. Sound(r, k)
    BY <1>9, <2>2, <2>5, <2>6 DEF Sound, Typed, Limited, Numbered, Known
  <2>8. SameRound(s, r)
    BY <1>6, <2>6 DEF SameRound
  <2>9. ~bad => Here(r, id)
    BY <1>0, <1>3, <1>5, <1>9, <2>2, <2>3, <2>6 DEF Here
  <2>10. ASSUME NEW i \in Ids, i # id
         PROVE  (Here(s, i) => Here(r, i)) /\ (Served(s, i) => Served(r, i))
    <3>1. Primary \in Screens /\ s.active \in Screens
      BY <1>0 DEF Server, Screens
    <3> QED
      BY <1>3, <2>2, <2>3, <2>6, <2>10, <3>1 DEF Here, Served
  <2>11. ASSUME NEW i \in Ids, NEW c \in s.listed \ {Primary}
         PROVE  UpToDate(s, k, c, i) /\ ~bad => UpToDate(r, k, c, i)
    <3>1. CASE i = id
      BY <1>5, <2>3, <2>6, <3>1 DEF UpToDate
    <3>2. CASE i # id
      BY <1>0, <2>2, <2>3, <2>6, <3>2 DEF UpToDate
    <3> QED
      BY <3>1, <3>2
  <2>12. Kept(r, k)
    BY <1>6, <2>6, <2>9, <2>10, <2>11 DEF Kept, Entered
  <2>13. r.shown[id] \notin Big
    BY <1>3, <1>9, <2>6
  <2>14. Sound(t, k) /\ Kept(t, k) /\ Delivered(r, t, id) /\ Sent(r, t, id)
    BY <2>1, <2>7, <2>12, <2>13, SetClipboardKeeps
  <2>15. SameRound(s, t)
    BY <2>8, <2>14 DEF Delivered, SameBut, SameRound
  <2>16. ASSUME NEW i \in Ids, i # id
         PROVE  Served(s, i) => Served(t, i)
    <3>1. Served(r, i) => Served(t, i)
      <4>1. r.active \in Screens
        BY <1>0, <2>6 DEF Server
      <4> QED
        BY <2>14, <4>1 DEF Delivered, SameBut, Served
    <3> QED
      BY <2>10, <2>16, <3>1
  <2>17. Served(t, id)
    BY <2>14 DEF Delivered, Served
  <2>18. AllServed(t)
    BY <2>15, <2>16, <2>17 DEF AllServed, SameRound
  <2>19. Updated(s, t, sender, id, seq)
    <3>1. SameBuffer(s, t)
      BY <2>6, <2>14 DEF Sent, SameBuffer
    <3>2. t.unexpected \/ s.owner[id] = sender
      BY <1>5, <2>6, <2>14 DEF Delivered, SameBut
    <3>3. /\ \A i \in Ids \ {id} : t.data[i] = s.data[i]
          /\ t.data[id] = new
      BY <2>2, <2>6, <2>14 DEF Delivered, SameBut
    <3>4. \A c \in Screens, i \in Ids \ {id} : t.dirty[c][i] = s.dirty[c][i]
      BY <2>3, <2>6, <2>14 DEF Sent
    <3>5. (t.queue = s.queue /\ t.copy = s.copy) \/ (Posted(s, t, id) /\ s.active # sender)
      <4>1. r.dirty[s.active][id] => s.active # sender
        BY <1>0, <2>3, <2>6 DEF Sound, Typed
      <4> QED
        BY <2>6, <2>14, <4>1 DEF Sent, Posted
    <3>6. \A c \in Clients, i \in Ids :
            c = sender \/ c # s.active \/ i # id => t.copy[c][i] = s.copy[c][i]
      BY <2>6, <2>14, <3>5 DEF Sent
    <3> QED
      BY <1>1, <1>9, <3>1, <3>2, <3>3, <3>4, <3>5, <3>6 DEF Updated
  <2> QED
    BY <2>14, <2>15, <2>18, <2>19 DEF t
<1> QED
  BY <1>7, <1>8, <1>9

-----------------------------------------------------------------------------
(* The next event of the server's loop.                                     *)

Advanced(u) == [u EXCEPT !.queue = Tail(u.queue)]

LEMMA PopKeepsSound ==
    ASSUME NEW u, NEW k, Sound(u, k), u.queue # <<>>
    PROVE  LET s == Advanced(u)
               e == Head(u.queue)
           IN  /\ Sound(s, k) /\ e \in EventType /\ Shorter(u.queue, s.queue, e)
               /\ e.seq <= u.seqNum /\ e.who \in u.listed \cup {Empty}
               /\ \A i : ~(e.kind = "grabbed" /\ e.who = Primary /\ e.id = i)
                           => (Ahead(s.queue, i) <=> Ahead(u.queue, i))
               /\ s = [u EXCEPT !.queue = s.queue] /\ s.queue \in Seq(EventType)
<1> DEFINE q == Tail(u.queue)
           e == Head(u.queue)
           s == Advanced(u)
<1>0. u \in Server /\ u.queue \in Seq(EventType) /\ k \in [Clients -> Client]
  BY DEF Sound, Typed, Server
<1>1. e \in EventType /\ q \in Seq(EventType) /\ Shorter(u.queue, q, e)
  BY <1>0, Popped
<1>2. s = [u EXCEPT !.queue = q]
  BY DEF Advanced
<1> HIDE DEF q, e, s
<1>3. s \in Server
  BY <1>0, <1>1, <1>2 DEF Server
<1>4. /\ s.shown = u.shown /\ s.unexpected = u.unexpected /\ s.data = u.data
      /\ s.dirty = u.dirty /\ s.copy = u.copy /\ s.content = u.content
      /\ s.queue = q /\ s.listed = u.listed /\ s.active = u.active
      /\ s.seqNum = u.seqNum /\ s.owner = u.owner /\ s.seq = u.seq
      /\ s.screenSeq = u.screenSeq /\ s.out = u.out /\ s.forced = u.forced
  BY <1>0, <1>2 DEF Server
<1>5. /\ \A i \in 1 .. Len(q) : i + 1 \in 1 .. Len(u.queue) /\ q[i] = u.queue[i + 1]
      /\ \A i \in 1 .. Len(u.queue) : i = 1 \/ (i - 1 \in 1 .. Len(q) /\ u.queue[i] = q[i - 1])
      /\ 1 \in 1 .. Len(u.queue) /\ u.queue[1] = e
  BY <1>1 DEF Shorter
<1>6. e.seq <= u.seqNum /\ UpTo(q, u.seqNum)
  BY <1>5 DEF Sound, Numbered, UpTo
<1>7. e.who \in u.listed \cup {Empty} /\ Known(s)
  BY <1>4, <1>5 DEF Sound, Known
<1>8. Sound(s, k)
  BY <1>3, <1>4, <1>6, <1>7 DEF Sound, Typed, Limited, Numbered
<1>9. ASSUME NEW i, ~(e.kind = "grabbed" /\ e.who = Primary /\ e.id = i)
      PROVE  Ahead(q, i) <=> Ahead(u.queue, i)
  BY <1>5, <1>9 DEF Ahead
<1>10. s = [u EXCEPT !.queue = s.queue]
  BY <1>2, <1>4
<1> QED
  BY <1>1, <1>4, <1>6, <1>7, <1>8, <1>9, <1>10 DEF e, s

\* An event that has no effect on a clipboard.
Idle(u, e) ==
    /\ ~(e.kind = "send" /\ e.who \in u.listed)
    /\ ~(e.kind = "grabbed" /\ e.who \in u.listed /\ (e.who = Primary \/ e.seq >= u.seq[e.id]))

LEMMA PopKeeps ==
    ASSUME NEW u, NEW k, Sound(u, k), Kept(u, k), AllServed(u),
           u.queue # <<>>, Idle(u, Head(u.queue))
    PROVE  Kept(Advanced(u), k) /\ AllServed(Advanced(u))
<1> DEFINE e == Head(u.queue)
           s == Advanced(u)
<1>0. u \in Server /\ u.listed \subseteq Screens /\ Primary \in u.listed
  BY DEF Sound, Typed, Server
<1>1. /\ e \in EventType /\ Shorter(u.queue, s.queue, e)
      /\ \A i : ~(e.kind = "grabbed" /\ e.who = Primary /\ e.id = i)
                  => (Ahead(s.queue, i) <=> Ahead(u.queue, i))
      /\ s = [u EXCEPT !.queue = s.queue]
  BY PopKeepsSound
<1>2. /\ ~(e.kind = "send" /\ e.who \in u.listed)
      /\ ~(e.kind = "grabbed" /\ e.who \in u.listed /\ (e.who = Primary \/ e.seq >= u.seq[e.id]))
  BY DEF Idle
<1> HIDE DEF e, s
<1>3. /\ s.shown = u.shown /\ s.unexpected = u.unexpected /\ s.data = u.data
      /\ s.dirty = u.dirty /\ s.content = u.content
      /\ s.listed = u.listed /\ s.active = u.active
      /\ s.seqNum = u.seqNum /\ s.owner = u.owner /\ s.seq = u.seq
      /\ s.out = u.out /\ s.forced = u.forced
  BY <1>0, <1>1 DEF Server
<1>4. \A i : Ahead(s.queue, i) <=> Ahead(u.queue, i)
  BY <1>0, <1>1, <1>2
<1>5. ASSUME NEW i \in Ids, NEW c \in u.listed \ {Primary}
      PROVE  UpToDate(u, k, c, i) => UpToDate(s, k, c, i)
  <2>1. ~SendFor(e, c, i)
    BY <1>2 DEF SendFor
  <2>2. ~(e.kind = "grabbed" /\ e.who = c /\ NewGrab(e, i, u.seq[i]))
    BY <1>2 DEF NewGrab
  <2> QED
    BY <1>1, <1>3, <2>1, <2>2, PopOther DEF UpToDate
<1>6. ASSUME NEW i \in Ids
      PROVE  (Here(u, i) => Here(s, i)) /\ (Served(u, i) => Served(s, i))
  BY <1>3, <1>4 DEF Here, Served
<1>7. Kept(s, k) /\ AllServed(s)
  BY <1>3, <1>5, <1>6 DEF Kept, AllServed, Entered
<1> QED
  BY <1>7 DEF s

\* The server when a grab has been accepted.
Accepted(u, e) == e.who \in u.listed /\ ~(e.who # Primary /\ Stale(u, e.id, e.seq))
Told(u, e) ==
    LET g == e.who
        id == e.id
    IN  [u EXCEPT !.queue = Tail(u.queue),
          !.dirty = [c \in Screens |-> IF c \in u.listed
                      THEN [u.dirty[c] EXCEPT ![id] = c # g] ELSE u.dirty[c]],
          !.owner = [u.owner EXCEPT ![id] = g],
          !.seq = [u.seq EXCEPT ![id] = e.seq],
          !.shown = [u.shown EXCEPT ![id] = Empty],
          !.data = [u.data EXCEPT ![id] = Empty],
          !.content = [u.content EXCEPT ![id] = IF g = Primary THEN u.content[id] ELSE Empty],
          !.out = [c \in Clients |-> IF c \in u.listed \ {g}
                    THEN Append(u.out[c], Msg("grab", id, 0, Empty)) ELSE u.out[c]]]
Resend(x, i) == OnClipboardChanged(x, Primary, i, x.seq[i])

\* What differs then.
ToldBy(u, t, e) ==
    /\ t.listed = u.listed /\ t.active = u.active /\ t.unexpected = u.unexpected
    /\ t.copy = u.copy /\ t.queue = Tail(u.queue) /\ SameBuffer(u, t)
    /\ t.owner[e.id] = e.who /\ t.seq[e.id] = e.seq
    /\ \A i \in Ids \ {e.id} :
         /\ t.owner[i] = u.owner[i] /\ t.seq[i] = u.seq[i] /\ t.data[i] = u.data[i]
         /\ \A c \in Screens : t.dirty[c][i] = u.dirty[c][i]
    /\ \A c \in Clients :
         IF c \in u.listed \ {e.who}
         THEN \E m : m.kind = "grab" /\ m.id = e.id /\ Longer(u.out[c], t.out[c], m)
         ELSE t.out[c] = u.out[c]

LEMMA GrabbedIs ==
    ASSUME NEW u, NEW k, Sound(u, k), u.queue # <<>>, Head(u.queue).kind = "grabbed"
    PROVE  LET e == Head(u.queue)
           IN  Grabbed(Advanced(u), e.who, e.id, e.seq)
                 = IF ~Accepted(u, e) THEN Advanced(u)
                   ELSE IF e.who = Primary /\ u.active # Primary
                        THEN Resend(Resend(Told(u, e), 0), 1)
                   ELSE Told(u, e)
<1> DEFINE e == Head(u.queue)
           s == Advanced(u)
           g == e.who
           id == e.id
           t == Grabbed(s, g, id, e.seq)
<1>0. /\ u \in Server /\ u.listed \subseteq Screens /\ Primary \in u.listed
      /\ k \in [Clients -> Client] /\ u.active \in Screens
  BY DEF Sound, Typed, Server
<1>1. /\ Sound(s, k) /\ e \in EventType /\ Shorter(u.queue, s.queue, e)
      /\ e.seq <= u.seqNum /\ e.who \in u.listed \cup {Empty}
      /\ \A i : ~(e.kind = "grabbed" /\ e.who = Primary /\ e.id = i)
                  => (Ahead(s.queue, i) <=> Ahead(u.queue, i))
      /\ s = [u EXCEPT !.queue = s.queue] /\ s.queue \in Seq(EventType)
  BY PopKeepsSound
<1>2. e.id \in Ids /\ e.seq \in Nat
  BY <1>1 DEF EventType
<1> DEFINE dirty == [c \in Screens |-> IF c \in u.listed
                      THEN [u.dirty[c] EXCEPT ![id] = c # g] ELSE u.dirty[c]]
           owner == [u.owner EXCEPT ![id] = g]
           seq == [u.seq EXCEPT ![id] = e.seq]
           shown == [u.shown EXCEPT ![id] = Empty]
           data == [u.data EXCEPT ![id] = Empty]
           content == [u.content EXCEPT ![id] = IF g = Primary THEN u.content[id] ELSE Empty]
           m == Msg("grab", id, 0, Empty)
           out == [c \in Clients |-> IF c \in u.listed \ {g} THEN Append(u.out[c], m)
                                     ELSE u.out[c]]
           told == [u EXCEPT !.queue = s.queue, !.dirty = dirty, !.owner = owner, !.seq = seq,
                             !.shown = shown, !.data = data, !.content = content, !.out = out]
<1>4. t = IF g \notin u.listed \/ (g # Primary /\ Stale(u, id, e.seq)) THEN s
          ELSE IF g = Primary /\ u.active # Primary THEN Resend(Resend(told, 0), 1)
          ELSE told
  <2>1. /\ s.listed = u.listed /\ s.seq = u.seq /\ s.active = u.active /\ s.out = u.out
        /\ s.dirty = u.dirty
    BY <1>0, <1>1 DEF Server
  <2>2. MarkDirty(s, g, id) = [u EXCEPT !.queue = s.queue, !.dirty = dirty]
    BY <1>0, <1>1, <2>1 DEF MarkDirty, Server
  <2> DEFINE y == MarkDirty(s, g, id)
             z == [y EXCEPT
                     !.owner[id] = g, !.seq[id] = e.seq,
                     !.shown[id] = Empty, !.data[id] = Empty,
                     !.content[id] = IF g = Primary THEN @ ELSE Empty,
                     !.out = [c \in Clients |-> IF c \in s.listed \ {g}
                               THEN Append(@[c], Msg("grab", id, 0, Empty)) ELSE @[c]]]
  <2>3. /\ y.owner = u.owner /\ y.seq = u.seq /\ y.shown = u.shown /\ y.data = u.data
        /\ y.content = u.content /\ y.out = u.out
    BY <1>0, <2>2 DEF Server
  <2>4. t = IF g \notin s.listed \/ (g # Primary /\ Stale(s, id, e.seq)) THEN s
            ELSE IF g = Primary /\ s.active # Primary THEN Resend(Resend(z, 0), 1)
            ELSE z
    BY DEF Grabbed, AllIds, Resend
  <2>5. z = [y EXCEPT !.owner = owner, !.seq = seq, !.shown = shown, !.data = data,
                      !.content = content, !.out = out]
    <3> HIDE DEF y, dirty, e, s
    <3> QED
      BY <2>1, <2>3
  <2>6. z = told
    <3>1. y = [u EXCEPT !.queue = s.queue, !.dirty = dirty]
      BY <2>2
    <3> HIDE DEF y, dirty, e, s, owner, seq, shown, data, content, out, z
    <3> QED
      BY <1>0, <2>5, <3>1 DEF Server
  <2> HIDE DEF z, y, told, t
  <2> QED
    BY <2>1, <2>4, <2>6 DEF Stale
<1>5. told = Told(u, e)
  BY DEF Told, Advanced, s
<1> HIDE DEF told
<1> QED
  BY <1>4, <1>5 DEF Accepted, t, s, e, g, id

LEMMA ToldKeeps ==
    ASSUME ClipboardAssumption,
           NEW u, NEW k, Sound(u, k), Kept(u, k), AllServed(u),
           u.queue # <<>>, Head(u.queue).kind = "grabbed", Accepted(u, Head(u.queue))
    PROVE  LET e == Head(u.queue)
               t == Told(u, e)
           IN  Sound(t, k) /\ Kept(t, k) /\ AllServed(t) /\ ToldBy(u, t, e)
<1> DEFINE e == Head(u.queue)
           s == Advanced(u)
           g == e.who
           id == e.id
<1>0. /\ u \in Server /\ u.listed \subseteq Screens /\ Primary \in u.listed
      /\ k \in [Clients -> Client] /\ u.active \in Screens
  BY DEF Sound, Typed, Server
<1>1. /\ Sound(s, k) /\ e \in EventType /\ Shorter(u.queue, s.queue, e)
      /\ e.seq <= u.seqNum /\ e.who \in u.listed \cup {Empty}
      /\ \A i : ~(e.kind = "grabbed" /\ e.who = Primary /\ e.id = i)
                  => (Ahead(s.queue, i) <=> Ahead(u.queue, i))
      /\ s = [u EXCEPT !.queue = s.queue] /\ s.queue \in Seq(EventType)
  BY PopKeepsSound
<1>2. e.id \in Ids /\ e.seq \in Nat
  BY <1>1 DEF EventType
<1>3. Empty \notin Big /\ Primary \notin Clients
  BY DEF ClipboardAssumption
<1> DEFINE dirty == [c \in Screens |-> IF c \in u.listed
                      THEN [u.dirty[c] EXCEPT ![id] = c # g] ELSE u.dirty[c]]
           owner == [u.owner EXCEPT ![id] = g]
           seq == [u.seq EXCEPT ![id] = e.seq]
           shown == [u.shown EXCEPT ![id] = Empty]
           data == [u.data EXCEPT ![id] = Empty]
           content == [u.content EXCEPT ![id] = IF g = Primary THEN u.content[id] ELSE Empty]
           m == Msg("grab", id, 0, Empty)
           out == [c \in Clients |-> IF c \in u.listed \ {g} THEN Append(u.out[c], m)
                                     ELSE u.out[c]]
           told == [u EXCEPT !.queue = s.queue, !.dirty = dirty, !.owner = owner, !.seq = seq,
                             !.shown = shown, !.data = data, !.content = content, !.out = out]
<1>4. told = Told(u, e)
  BY DEF Told, Advanced, s
<1>5. g \in u.listed
  BY DEF Accepted
<1>6. m \in ToClient /\ m.kind = "grab" /\ m.id = id
  BY <1>2 DEF ToClient, Msg, Value
<1>7. /\ dirty \in [Screens -> [Ids -> BOOLEAN]]
      /\ \A c \in u.listed : dirty[c][id] <=> c # g
      /\ \A c \in Screens, i \in Ids : i # id => dirty[c][i] = u.dirty[c][i]
  BY <1>0, <1>2 DEF Server
<1>8. /\ owner \in [Ids -> Screens] /\ owner[id] = g
      /\ seq \in [Ids -> Nat] /\ seq[id] = e.seq
      /\ shown \in [Ids -> Value] /\ shown[id] = Empty
      /\ data \in [Ids -> Value] /\ data[id] = Empty
      /\ content \in [Ids -> Value]
      /\ \A i \in Ids : i # id => /\ owner[i] = u.owner[i] /\ seq[i] = u.seq[i]
                                  /\ shown[i] = u.shown[i] /\ data[i] = u.data[i]
                                  /\ content[i] = u.content[i]
  BY <1>0, <1>2, <1>5 DEF Server, Value
<1> HIDE DEF m
<1>9. ASSUME NEW c \in Clients
      PROVE  /\ u.out[c] \in Seq(ToClient)
             /\ Append(u.out[c], m) \in Seq(ToClient)
             /\ Longer(u.out[c], Append(u.out[c], m), m)
  <2>1. u.out[c] \in Seq(ToClient)
    BY <1>0 DEF Server
  <2> QED
    BY <1>6, <2>1, Appended
<1>10. /\ out \in [Clients -> Seq(ToClient)]
      /\ \A c \in Clients : out[c] = u.out[c] \/ Longer(u.out[c], out[c], m)
  BY <1>9
<1> HIDE DEF e, s, g, id, dirty, owner, seq, shown, data, content, out
<1>11. told \in Server
  BY <1>0, <1>1, <1>7, <1>8, <1>10 DEF Server
<1>12. /\ told.shown = shown /\ told.unexpected = u.unexpected /\ told.data = data
      /\ told.dirty = dirty /\ told.copy = u.copy /\ told.content = content
      /\ told.queue = s.queue /\ told.listed = u.listed /\ told.active = u.active
      /\ told.seqNum = u.seqNum /\ told.owner = owner /\ told.seq = seq
      /\ told.screenSeq = u.screenSeq /\ told.out = out /\ told.forced = u.forced
  BY <1>0 DEF Server
<1> HIDE DEF told
<1>13. Sound(told, k)
  <2>1. Typed(told, k)
    BY <1>11, <1>12 DEF Sound, Typed
  <2>2. Limited(told, k)
    BY <1>3, <1>8, <1>12 DEF Sound, Limited
  <2>3. ASSUME NEW c \in Clients
        PROVE  Increasing(out[c], k[c].seq, u.seqNum)
    <3>1. Increasing(u.out[c], k[c].seq, u.seqNum)
      BY DEF Sound, Numbered
    <3>2. u.out[c] \in Seq(ToClient) /\ u.seqNum \in Nat /\ k[c].seq \in Nat
      BY <1>0 DEF Server, Client
    <3> QED
      BY <1>6, <1>10, <3>1, <3>2, WriteIncreasing
  <2>4. Numbered(told, k)
    <3>1. \A i \in Ids : seq[i] <= u.seqNum
      BY <1>1, <1>8 DEF Sound, Numbered, id
    <3>2. UpTo(s.queue, u.seqNum)
      <4>1. s.seqNum = u.seqNum
        BY <1>0, <1>1 DEF Server
      <4> QED
        BY <1>1, <4>1 DEF Sound, Numbered
    <3> QED
      BY <1>12, <2>3, <3>1, <3>2 DEF Sound, Numbered
  <2>5. Known(told)
    <3>1. s.listed = u.listed
      BY <1>0, <1>1 DEF Server
    <3> QED
      BY <1>1, <1>12, <3>1 DEF Sound, Known
  <2> QED
    BY <2>1, <2>2, <2>4, <2>5 DEF Sound
<1>14. Kept(told, k)
  <2>1. g \in u.listed
    BY <1>5
  <2>2. Entered(u, k) => Entered(told, k)
    <3>1. u.active # Primary => u.active \in Clients
      BY <1>0 DEF Screens
    <3>2. \A c \in Clients : \A i \in 1 .. Len(u.out[c]) :
            i \in 1 .. Len(out[c]) /\ out[c][i] = u.out[c][i]
      BY <1>9, <1>10 DEF Longer
    <3> QED
      BY <1>12, <3>1, <3>2 DEF Entered
  <2>3. Here(told, id)
    BY <1>0, <1>3, <1>7, <1>8, <1>12 DEF Here
  <2>4. ASSUME NEW i \in Ids, i # id
        PROVE  Here(u, i) => Here(told, i)
    <3>1. Ahead(s.queue, i) <=> Ahead(u.queue, i)
      BY <1>1, <2>4 DEF id
    <3>2. dirty[Primary][i] = u.dirty[Primary][i]
      BY <1>0, <1>7, <2>4
    <3> QED
      BY <1>8, <1>12, <2>4, <3>1, <3>2 DEF Here
  <2>5. ASSUME NEW c \in u.listed \ {Primary}
        PROVE  UpToDate(told, k, c, id)
    BY <1>7, <1>8, <1>12 DEF UpToDate
  <2>6. ASSUME NEW i \in Ids, i # id, NEW c \in u.listed \ {Primary}
        PROVE  UpToDate(u, k, c, i) => UpToDate(told, k, c, i)
    <3> SUFFICES ASSUME There(u.queue, u.out[c], u.data[i], u.seq[i], k[c], c, i)
                 PROVE  There(s.queue, out[c], u.data[i], u.seq[i], k[c], c, i)
      BY <1>0, <1>7, <1>8, <1>12, <2>6 DEF UpToDate
    <3>1. ~SendFor(e, c, i) /\ ~NewGrab(e, i, u.seq[i])
      BY <2>6 DEF SendFor, NewGrab, e, id
    <3>2. There(s.queue, u.out[c], u.data[i], u.seq[i], k[c], c, i)
      BY <1>1, <3>1, PopOther
    <3>3. c \in Clients /\ ~Touches(m, i)
      BY <1>0, <1>6, <2>6 DEF Screens, Touches
    <3> QED
      BY <1>10, <3>2, <3>3, WriteOther
  <2> QED
    BY <1>12, <2>2, <2>3, <2>4, <2>5, <2>6 DEF Kept
<1>15. AllServed(told)
  <2>1. Served(told, id)
    BY <1>8, <1>12 DEF Served
  <2>2. ASSUME NEW i \in Ids, i # id
        PROVE  Served(u, i) => Served(told, i)
    <3>1. Ahead(s.queue, i) <=> Ahead(u.queue, i)
      BY <1>1, <2>2 DEF id
    <3>2. dirty[u.active][i] = u.dirty[u.active][i]
      BY <1>0, <1>7, <2>2
    <3> QED
      BY <1>8, <1>12, <2>2, <3>1, <3>2 DEF Served
  <2> QED
    BY <1>12, <2>1, <2>2 DEF AllServed
<1>16. ToldBy(u, told, e)
  <2>1. SameBuffer(u, told)
    BY <1>0 DEF Server, SameBuffer, told
  <2>2. ASSUME NEW c \in Clients
        PROVE  IF c \in u.listed \ {g} THEN Longer(u.out[c], out[c], m) ELSE out[c] = u.out[c]
    BY <1>9 DEF out
  <2>3. s.queue = Tail(u.queue)
    BY <1>0 DEF Advanced, s, Server
  <2> QED
    BY <1>6, <1>7, <1>8, <1>12, <2>1, <2>2, <2>3 DEF ToldBy, g, id
<1> QED
  BY <1>4, <1>13, <1>14, <1>15, <1>16 DEF e

LEMMA GrabbedKeeps ==
    ASSUME ClipboardAssumption,
           NEW u, NEW k, Sound(u, k), Kept(u, k), AllServed(u),
           u.queue # <<>>, Head(u.queue).kind = "grabbed"
    PROVE  LET e == Head(u.queue)
               t == Grabbed(Advanced(u), e.who, e.id, e.seq)
           IN  Sound(t, k) /\ Kept(t, k) /\ AllServed(t)
<1> DEFINE e == Head(u.queue)
           s == Advanced(u)
           t == Grabbed(s, e.who, e.id, e.seq)
           told == Told(u, e)
<1>0. u \in Server /\ Primary \in u.listed
  BY DEF Sound, Typed
<1>1. Sound(s, k) /\ e \in EventType
  BY PopKeepsSound
<1>2. t = IF ~Accepted(u, e) THEN s
          ELSE IF e.who = Primary /\ u.active # Primary THEN Resend(Resend(told, 0), 1)
          ELSE told
  BY GrabbedIs
<1>3. CASE ~Accepted(u, e)
  <2>1. e.id \in Ids /\ e.seq \in Nat /\ e.kind = "grabbed"
    BY <1>1 DEF EventType
  <2>2. Idle(u, e)
    BY <1>0, <1>3, <2>1 DEF Accepted, Idle, Stale, Server
  <2>3. Kept(s, k) /\ AllServed(s)
    BY <2>2, PopKeeps
  <2> QED
    BY <1>1, <1>2, <1>3, <2>3
<1>4. CASE Accepted(u, e)
  <2>1. Sound(told, k) /\ Kept(told, k) /\ AllServed(told) /\ told.listed = u.listed
    BY <1>4, ToldKeeps DEF ToldBy
  <2> HIDE DEF e, s, t, told
  <2>2. CASE e.who = Primary /\ u.active # Primary
    <3> DEFINE x == Resend(told, 0)
               y == Resend(x, 1)
    <3>0. 0 \in Ids /\ 1 \in Ids
      BY DEF Ids, ClipboardEnd
    <3>1. Sound(x, k) /\ Kept(x, k) /\ AllServed(x) /\ SameRound(told, x)
      BY <1>0, <2>1, <3>0, ChangedKeeps DEF Resend
    <3> HIDE DEF x
    <3>2. Primary \in x.listed
      BY <1>0, <2>1, <3>1 DEF SameRound
    <3>3. Sound(y, k) /\ Kept(y, k) /\ AllServed(y)
      BY <3>0, <3>1, <3>2, ChangedKeeps DEF Resend
    <3>4. t = y
      BY <1>2, <1>4, <2>2 DEF x
    <3> QED
      BY <3>3, <3>4 DEF t, s, e
  <2>3. CASE ~(e.who = Primary /\ u.active # Primary)
    BY <1>2, <1>4, <2>1, <2>3 DEF t, s, e
  <2> QED
    BY <2>2, <2>3
<1> QED
  BY <1>3, <1>4

\* A chunk that is written to the client.
WrittenBy(u, t, e) ==
    /\ t.listed = u.listed /\ t.active = u.active /\ t.unexpected = u.unexpected
    /\ t.copy = u.copy /\ t.queue = Tail(u.queue) /\ SameBuffer(u, t)
    /\ t.owner = u.owner /\ t.seq = u.seq /\ t.data = u.data /\ t.dirty = u.dirty
    /\ \A c \in Clients :
         IF c = e.who
         THEN \E m : m.kind = "set" /\ m.id = e.id /\ Longer(u.out[c], t.out[c], m)
         ELSE t.out[c] = u.out[c]

LEMMA SendKeeps ==
    ASSUME NEW u, NEW k, Sound(u, k), Kept(u, k), AllServed(u),
           u.queue # <<>>, Head(u.queue).kind = "send"
    PROVE  LET e == Head(u.queue)
               t == Write(Advanced(u), e.who, Msg("set", e.id, 0, e.data))
           IN  Sound(t, k) /\ Kept(t, k) /\ AllServed(t) /\ WrittenBy(u, t, e)
<1> DEFINE e == Head(u.queue)
           s == Advanced(u)
           m == Msg("set", e.id, 0, e.data)
           t == Write(s, e.who, m)
           out == [u.out EXCEPT ![e.who] = Append(u.out[e.who], m)]
<1>0. /\ u \in Server /\ u.listed \subseteq Screens /\ Primary \in u.listed
      /\ k \in [Clients -> Client] /\ u.active \in Screens
  BY DEF Sound, Typed, Server
<1>1. /\ Sound(s, k) /\ e \in EventType /\ Shorter(u.queue, s.queue, e)
      /\ \A i : Ahead(s.queue, i) <=> Ahead(u.queue, i)
      /\ s = [u EXCEPT !.queue = s.queue] /\ s.queue \in Seq(EventType)
  BY PopKeepsSound
<1>2. m \in ToClient /\ m.kind = "set" /\ m.id = e.id /\ m.data = e.data
  BY <1>1 DEF ToClient, EventType, Msg
<1>3. e.kind = "send"
  OBVIOUS
<1>4. t = [u EXCEPT !.queue = s.queue, !.out = out]
  <2>1. s.out = u.out
    BY <1>0, <1>1 DEF Server
  <2>2. t = [s EXCEPT !.out = [s.out EXCEPT ![e.who] = Append(s.out[e.who], m)]]
    BY DEF Write
  <2> HIDE DEF s, t, e, m
  <2> QED
    BY <1>1, <2>1, <2>2
<1> HIDE DEF m, e, s, t
<1>5. ASSUME NEW c \in Clients
      PROVE  /\ u.out[c] \in Seq(ToClient)
             /\ Append(u.out[c], m) \in Seq(ToClient)
             /\ Longer(u.out[c], Append(u.out[c], m), m)
  <2>1. u.out[c] \in Seq(ToClient)
    BY <1>0 DEF Server
  <2> QED
    BY <1>2, <2>1, Appended
<1>6. u.out \in [Clients -> Seq(ToClient)]
  BY <1>0 DEF Server
<1>7. /\ out \in [Clients -> Seq(ToClient)]
      /\ \A c \in Clients : IF c = e.who THEN Longer(u.out[c], out[c], m) ELSE out[c] = u.out[c]
  BY <1>5, <1>6
<1> HIDE DEF out
<1>8. t \in Server
  BY <1>0, <1>1, <1>4, <1>7 DEF Server
<1>9. /\ t.shown = u.shown /\ t.unexpected = u.unexpected /\ t.data = u.data
      /\ t.dirty = u.dirty /\ t.copy = u.copy /\ t.content = u.content
      /\ t.queue = s.queue /\ t.listed = u.listed /\ t.active = u.active
      /\ t.seqNum = u.seqNum /\ t.owner = u.owner /\ t.seq = u.seq
      /\ t.screenSeq = u.screenSeq /\ t.out = out /\ t.forced = u.forced
  BY <1>0, <1>4 DEF Server
<1>10. s.seqNum = u.seqNum /\ s.listed = u.listed
  BY <1>0, <1>1 DEF Server
<1>11. Sound(t, k)
  <2>1. ASSUME NEW c \in Clients
        PROVE  Increasing(out[c], k[c].seq, u.seqNum)
    <3>1. Increasing(u.out[c], k[c].seq, u.seqNum)
      BY DEF Sound, Numbered
    <3>2. u.out[c] \in Seq(ToClient) /\ u.seqNum \in Nat /\ k[c].seq \in Nat
      BY <1>0 DEF Server, Client
    <3> QED
      BY <1>2, <1>7, <3>1, <3>2, WriteIncreasing
  <2>2. Typed(t, k) /\ Limited(t, k)
    BY <1>8, <1>9 DEF Sound, Typed, Limited
  <2>3. Numbered(t, k)
    BY <1>1, <1>9, <1>10, <2>1 DEF Sound, Numbered
  <2>4. Known(t)
    BY <1>1, <1>9, <1>10 DEF Sound, Known
  <2> QED
    BY <2>2, <2>3, <2>4 DEF Sound
<1>12. ASSUME NEW i \in Ids
       PROVE  (Here(u, i) => Here(t, i)) /\ (Served(u, i) => Served(t, i))
  BY <1>1, <1>9 DEF Here, Served
<1>13. ASSUME NEW i \in Ids, NEW c \in u.listed \ {Primary}
       PROVE  UpToDate(u, k, c, i) => UpToDate(t, k, c, i)
  <2> SUFFICES ASSUME There(u.queue, u.out[c], u.data[i], u.seq[i], k[c], c, i)
               PROVE  There(s.queue, out[c], u.data[i], u.seq[i], k[c], c, i)
    BY <1>9 DEF UpToDate
  <2>1. c \in Clients
    BY <1>0 DEF Screens
  <2>2. CASE c = e.who /\ i = e.id
    <3>1. SendFor(e, c, i)
      BY <1>3, <2>2 DEF SendFor
    <3>2. Longer(u.out[c], out[c], m)
      BY <1>7, <2>1, <2>2
    <3> QED
      BY <1>1, <1>2, <2>2, <3>1, <3>2, PopSend
  <2>3. CASE ~(c = e.who /\ i = e.id)
    <3>1. ~SendFor(e, c, i) /\ e.kind # "grabbed"
      BY <1>3, <2>3 DEF SendFor
    <3>2. There(s.queue, u.out[c], u.data[i], u.seq[i], k[c], c, i)
      BY <1>1, <3>1, PopOther
    <3>3. CASE c = e.who
      <4>1. Longer(u.out[c], out[c], m) /\ ~Touches(m, i)
        BY <1>2, <1>7, <2>1, <2>3, <3>3 DEF Touches
      <4> QED
        BY <3>2, <4>1, WriteOther
    <3>4. CASE c # e.who
      BY <1>7, <2>1, <3>2, <3>4
    <3> QED
      BY <3>3, <3>4
  <2> QED
    BY <2>2, <2>3
<1>14. Entered(u, k) => Entered(t, k)
  <2>1. u.active # Primary => u.active \in Clients
    BY <1>0 DEF Screens
  <2>2. \A c \in Clients : \A i \in 1 .. Len(u.out[c]) :
          i \in 1 .. Len(out[c]) /\ out[c][i] = u.out[c][i]
    BY <1>5, <1>7 DEF Longer
  <2> QED
    BY <1>9, <2>1, <2>2 DEF Entered
<1>15. Kept(t, k) /\ AllServed(t)
  BY <1>9, <1>12, <1>13, <1>14 DEF Kept, AllServed
<1>16. WrittenBy(u, t, e)
  <2>1. SameBuffer(u, t)
    BY <1>0, <1>4 DEF Server, SameBuffer
  <2>2. s.queue = Tail(u.queue)
    BY <1>0 DEF Advanced, s, Server
  <2> QED
    BY <1>2, <1>7, <1>9, <2>1, <2>2 DEF WrittenBy
<1> QED
  BY <1>11, <1>15, <1>16 DEF t, s, e, m

LEMMA DispatchKeeps ==
    ASSUME ClipboardAssumption, IInv, Dispatch
    PROVE  IInv'
<1> DEFINE e == Head(server.queue)
           s == Advanced(server)
<1>1. server.queue # <<>> /\ client' = client
  BY DEF Dispatch
<1>2. server' = CASE e.kind = "grabbed" -> Grabbed(s, e.who, e.id, e.seq)
                  [] e.kind = "changed" /\ e.who \in s.listed ->
                       OnClipboardChanged(s, e.who, e.id, e.seq)
                  [] e.kind = "send" /\ e.who \in s.listed ->
                       Write(s, e.who, Msg("set", e.id, 0, e.data))
                  [] OTHER -> s
  BY DEF Dispatch, Advanced
<1>3. Sound(server, client) /\ Kept(server, client) /\ AllServed(server)
  BY DEF IInv
<1>4. Sound(s, client) /\ e \in EventType /\ s.listed = server.listed
  <2>1. Sound(s, client) /\ e \in EventType /\ s = [server EXCEPT !.queue = s.queue]
    BY <1>1, <1>3, PopKeepsSound
  <2>2. server \in Server
    BY <1>3 DEF Sound, Typed
  <2> HIDE DEF s
  <2> QED
    BY <2>1, <2>2 DEF Server
<1>5. CASE e.kind = "grabbed"
  <2>1. server' = Grabbed(s, e.who, e.id, e.seq)
    BY <1>2, <1>5
  <2> HIDE DEF s, e
  <2> QED
    BY <1>1, <1>3, <1>5, <2>1, GrabbedKeeps DEF IInv, s, e
<1>6. CASE e.kind = "changed" /\ e.who \in s.listed
  <2>1. Idle(server, e)
    BY <1>6 DEF Idle
  <2>2. Kept(s, client) /\ AllServed(s)
    BY <1>1, <1>3, <2>1, PopKeeps
  <2>3. e.id \in Ids
    BY <1>4 DEF EventType
  <2>4. server' = OnClipboardChanged(s, e.who, e.id, e.seq)
    BY <1>2, <1>6
  <2> HIDE DEF s, e
  <2> QED
    BY <1>1, <1>4, <1>6, <2>2, <2>3, <2>4, ChangedKeeps DEF IInv
<1>7. CASE e.kind = "send" /\ e.who \in s.listed
  <2>1. server' = Write(s, e.who, Msg("set", e.id, 0, e.data))
    BY <1>2, <1>7
  <2> HIDE DEF s, e
  <2> QED
    BY <1>1, <1>3, <1>7, <2>1, SendKeeps DEF IInv, s, e
<1>8. CASE e.kind # "grabbed" /\ ~(e.kind \in {"changed", "send"} /\ e.who \in s.listed)
  <2>1. Idle(server, e)
    BY <1>4, <1>8 DEF Idle
  <2>2. Kept(s, client) /\ AllServed(s)
    BY <1>1, <1>3, <2>1, PopKeeps
  <2>3. server' = s
    BY <1>2, <1>8
  <2> QED
    BY <1>1, <1>4, <2>2, <2>3 DEF IInv
<1> QED
  BY <1>5, <1>6, <1>7, <1>8

-----------------------------------------------------------------------------
(* A switch.                                                                *)

\* Something other than a clipboard is written to one client.
Wrote(s, t, dst, m) ==
    /\ t \in Server /\ m \in ToClient /\ m.kind \in {"enter", "leave"}
    /\ t.shown = s.shown /\ t.unexpected = s.unexpected /\ t.data = s.data
    /\ t.dirty = s.dirty /\ t.copy = s.copy /\ t.content = s.content
    /\ t.queue = s.queue /\ t.listed = s.listed /\ t.owner = s.owner /\ t.seq = s.seq
    /\ \A c \in Clients : IF c = dst THEN Longer(s.out[c], t.out[c], m)
                           ELSE t.out[c] = s.out[c]

\* The numbers of a switch, or the ones before.
Counted(s, t, m) ==
    /\ t.seqNum \in {s.seqNum, s.seqNum + 1} /\ t.screenSeq <= t.seqNum
    /\ m.kind = "enter" => m.seq = t.seqNum

LEMMA WroteKeeps ==
    ASSUME NEW s, NEW k, Sound(s, k), Kept(s, k), NEW t, NEW dst, NEW m, Wrote(s, t, dst, m),
           t.active \in s.listed, Counted(s, t, m), Entered(s, k) => Entered(t, k)
    PROVE  Sound(t, k) /\ Kept(t, k)
<1>0. /\ s \in Server /\ s.listed \subseteq Screens /\ k \in [Clients -> Client]
      /\ s.seqNum \in Nat /\ t.seqNum \in Nat
  BY DEF Sound, Typed, Server, Wrote
<1>1. s.seqNum <= t.seqNum
  BY <1>0 DEF Counted
<1>2. ASSUME NEW c \in Clients
      PROVE  /\ s.out[c] \in Seq(ToClient) /\ k[c].seq \in Nat /\ k[c].seq <= s.seqNum
             /\ Increasing(s.out[c], k[c].seq, s.seqNum)
             /\ k[c].out \in Seq(FromClient) /\ UpTo(k[c].out, s.seqNum)
             /\ k[c].local \in Seq(LocalType) /\ UpTo(k[c].local, s.seqNum)
  BY <1>0 DEF Server, Client, Sound, Numbered
<1>3. ASSUME NEW c \in Clients
      PROVE  Increasing(t.out[c], k[c].seq, t.seqNum)
  <2>1. CASE c = dst
    <3>1. Longer(s.out[c], t.out[c], m) /\ (m.kind = "enter" => k[c].seq <= m.seq /\ m.seq = t.seqNum)
      BY <1>0, <1>1, <1>2, <2>1 DEF Wrote, Counted
    <3> QED
      BY <1>0, <1>1, <1>2, <3>1, WriteIncreasing
  <2>2. CASE c # dst
    <3>1. t.out[c] = s.out[c]
      BY <2>2 DEF Wrote
    <3>2. \A i \in 1 .. Len(s.out[c]) : s.out[c][i] \in ToClient
      BY <1>2
    <3>3. \A i \in 1 .. Len(s.out[c]) : s.out[c][i].seq \in Nat
      BY <3>2 DEF ToClient
    <3> QED
      BY <1>0, <1>1, <1>2, <3>1, <3>3 DEF Increasing
  <2> QED
    BY <2>1, <2>2
<1>4. ASSUME NEW q, UpTo(q, s.seqNum), \A i \in 1 .. Len(q) : q[i].seq \in Nat
      PROVE  UpTo(q, t.seqNum)
  BY <1>0, <1>1, <1>4 DEF UpTo
<1>5. UpTo(t.queue, t.seqNum)
  <2>1. s.queue \in Seq(EventType) /\ UpTo(s.queue, s.seqNum) /\ t.queue = s.queue
    BY <1>0 DEF Server, Sound, Numbered, Wrote
  <2>2. \A i \in 1 .. Len(s.queue) : s.queue[i] \in EventType
    BY <2>1
  <2>3. \A i \in 1 .. Len(s.queue) : s.queue[i].seq \in Nat
    BY <2>2 DEF EventType
  <2> QED
    BY <1>4, <2>1, <2>3
<1>6. ASSUME NEW c \in Clients
      PROVE  k[c].seq <= t.seqNum /\ UpTo(k[c].out, t.seqNum) /\ UpTo(k[c].local, t.seqNum)
  <2>1. /\ \A i \in 1 .. Len(k[c].out) : k[c].out[i] \in FromClient
        /\ \A i \in 1 .. Len(k[c].local) : k[c].local[i] \in LocalType
    BY <1>2
  <2>2. /\ \A i \in 1 .. Len(k[c].out) : k[c].out[i].seq \in Nat
        /\ \A i \in 1 .. Len(k[c].local) : k[c].local[i].seq \in Nat
    BY <2>1 DEF FromClient, LocalType
  <2>3. UpTo(k[c].out, t.seqNum)
    BY <1>2, <1>4, <2>2
  <2>4. UpTo(k[c].local, t.seqNum)
    BY <1>2, <1>4, <2>2
  <2> QED
    BY <1>0, <1>1, <1>2, <2>3, <2>4
<1>7. \A i \in Ids : t.seq[i] <= t.seqNum
  <2>1. \A i \in Ids : s.seq[i] \in Nat /\ s.seq[i] <= s.seqNum /\ t.seq[i] = s.seq[i]
    BY <1>0 DEF Server, Sound, Numbered, Wrote
  <2> QED
    BY <1>0, <1>1, <2>1
<1>8. Sound(t, k)
  <2>1. Typed(t, k) /\ Limited(t, k) /\ Known(t)
    BY DEF Sound, Typed, Limited, Known, Wrote
  <2>2. Numbered(t, k)
    BY <1>3, <1>5, <1>6, <1>7 DEF Numbered, Counted
  <2> QED
    BY <2>1, <2>2 DEF Sound
<1>9. ASSUME NEW i \in Ids
      PROVE  Here(s, i) => Here(t, i)
  BY DEF Wrote, Here
<1>10. ASSUME NEW i \in Ids, NEW c \in s.listed \ {Primary}
       PROVE  UpToDate(s, k, c, i) => UpToDate(t, k, c, i)
  <2> SUFFICES ASSUME There(s.queue, s.out[c], s.data[i], s.seq[i], k[c], c, i)
               PROVE  There(s.queue, t.out[c], s.data[i], s.seq[i], k[c], c, i)
    BY DEF Wrote, UpToDate
  <2>1. c \in Clients
    BY <1>0 DEF Screens
  <2>2. t.out[c] = s.out[c] \/ Longer(s.out[c], t.out[c], m)
    BY <2>1 DEF Wrote
  <2>3. ~Touches(m, i)
    BY DEF Wrote, Touches
  <2> QED
    BY <2>2, <2>3, WriteOther
<1>11. Kept(t, k)
  BY <1>9, <1>10 DEF Kept, Wrote
<1> QED
  BY <1>8, <1>11

\* The message to a client is written after all that was written before.
LEMMA Writing ==
    ASSUME NEW s \in Server, NEW dst \in Clients, NEW m \in ToClient
    PROVE  LET out == [s.out EXCEPT ![dst] = Append(s.out[dst], m)]
           IN  /\ Write(s, dst, m) = [s EXCEPT !.out = out]
               /\ out \in [Clients -> Seq(ToClient)]
               /\ \A c \in Clients : IF c = dst THEN Longer(s.out[c], out[c], m)
                                      ELSE out[c] = s.out[c]
<1>1. s.out \in [Clients -> Seq(ToClient)]
  BY DEF Server
<1>2. Append(s.out[dst], m) \in Seq(ToClient) /\ Longer(s.out[dst], Append(s.out[dst], m), m)
  BY <1>1, Appended
<1>3. Write(s, dst, m) = [s EXCEPT !.out = [s.out EXCEPT ![dst] = Append(s.out[dst], m)]]
  BY DEF Write
<1> QED
  BY <1>1, <1>2, <1>3

LEMMA LeaveKeeps ==
    ASSUME NEW s, NEW k, Sound(s, k), Kept(s, k), s.active # Primary
    PROVE  LET t == Write(s, s.active, Msg("leave", 0, 0, Empty))
           IN  /\ Sound(t, k) /\ Kept(t, k) /\ t.listed = s.listed
               /\ t.active = s.active /\ SameBuffer(s, t)
               /\ \E m : Wrote(s, t, s.active, m) /\ m.kind = "leave"
<1> DEFINE m == Msg("leave", 0, 0, Empty)
           dst == s.active
           t == Write(s, dst, m)
           out == [s.out EXCEPT ![dst] = Append(s.out[dst], m)]
<1>0. s \in Server /\ dst \in Clients /\ dst \in s.listed /\ s.seqNum \in Nat
  BY DEF Sound, Typed, Server, Screens
<1>1. m \in ToClient /\ m.kind = "leave"
  BY DEF ToClient, Msg, Ids, ClipboardEnd, Value
<1> HIDE DEF m
<1>2. /\ t = [s EXCEPT !.out = out] /\ out \in [Clients -> Seq(ToClient)]
      /\ \A c \in Clients : IF c = dst THEN Longer(s.out[c], out[c], m) ELSE out[c] = s.out[c]
  BY <1>0, <1>1, Writing
<1> HIDE DEF t, out
<1>3. /\ t \in Server
      /\ t.out = out /\ t.active = dst /\ t.seqNum = s.seqNum /\ t.screenSeq = s.screenSeq
  <2>1. t \in Server
    BY <1>0, <1>2 DEF Server
  <2>2. t.out = out /\ t.active = dst /\ t.seqNum = s.seqNum /\ t.screenSeq = s.screenSeq
    BY <1>0, <1>2 DEF Server
  <2> QED
    BY <2>1, <2>2
<1>4. Wrote(s, t, dst, m)
  BY <1>0, <1>1, <1>2, <1>3 DEF Server, Wrote
<1>5. Counted(s, t, m)
  BY <1>1, <1>3 DEF Counted, Sound, Numbered
<1>6. Entered(s, k) => Entered(t, k)
  <2>1. \A i \in 1 .. Len(s.out[dst]) : i \in 1 .. Len(out[dst]) /\ out[dst][i] = s.out[dst][i]
    BY <1>0, <1>2 DEF Longer
  <2> QED
    BY <1>3, <2>1 DEF Entered
<1>7. t.listed = s.listed
  BY <1>4 DEF Wrote
<1>8. Sound(t, k) /\ Kept(t, k)
  BY <1>0, <1>3, <1>4, <1>5, <1>6, WroteKeeps
<1>9. SameBuffer(s, t)
  BY <1>0, <1>2 DEF Server, SameBuffer
<1>10. \E x : Wrote(s, t, dst, x) /\ x.kind = "leave"
  BY <1>1, <1>4
<1> QED
  BY <1>3, <1>7, <1>8, <1>9, <1>10 DEF t, m

\* The server before the clipboards of a switch to dst are sent.
EnteredBy(s, dst) ==
    LET cut == [s EXCEPT !.active = dst, !.seqNum = @ + 1, !.forced = FALSE]
    IN  IF dst = Primary THEN [cut EXCEPT !.screenSeq = cut.seqNum]
        ELSE Write(cut, dst, Msg("enter", 0, cut.seqNum, Empty))

LEMMA EnterKeeps ==
    ASSUME ClipboardAssumption, NEW s, NEW k, Sound(s, k), Kept(s, k), NEW dst \in s.listed
    PROVE  LET t == EnteredBy(s, dst)
           IN  /\ Sound(t, k) /\ Kept(t, k) /\ t.active = dst /\ SameBuffer(s, t)
               /\ \E m : Wrote(s, t, dst, m) /\ m.kind = "enter" /\ m.seq = t.seqNum
<1> DEFINE top == s.seqNum + 1
           cut == [s EXCEPT !.active = dst, !.seqNum = top, !.forced = FALSE]
           t == EnteredBy(s, dst)
           m == Msg("enter", 0, top, Empty)
<1>0. s \in Server /\ dst \in Screens /\ s.seqNum \in Nat /\ s.screenSeq \in Nat
      /\ s.screenSeq <= s.seqNum
  BY DEF Sound, Typed, Server, Numbered
<1>a. top \in Nat /\ s.screenSeq <= top /\ top \in {s.seqNum, s.seqNum + 1}
  BY <1>0
<1>2. t = IF dst = Primary THEN [cut EXCEPT !.screenSeq = cut.seqNum]
          ELSE Write(cut, dst, m)
  BY <1>0 DEF EnteredBy, Server
<1> HIDE DEF top, t
<1>1. cut \in Server /\ cut.seqNum = top /\ cut.out = s.out /\ cut.active = dst
      /\ cut.screenSeq = s.screenSeq
  BY <1>0, <1>a DEF Server
<1>3. m \in ToClient /\ m.kind = "enter" /\ m.seq = top
  BY <1>a DEF ToClient, Msg, Ids, ClipboardEnd, Value
<1> HIDE DEF m
<1>4. CASE dst = Primary
  <2>1. t = [s EXCEPT !.active = dst, !.seqNum = top, !.forced = FALSE,
                      !.screenSeq = top]
    BY <1>1, <1>2, <1>4
  <2> HIDE DEF cut
  <2>2. t \in Server /\ t.active = dst /\ t.seqNum = top /\ t.screenSeq = top
    BY <1>0, <1>a, <2>1 DEF Server
  <2>3. Wrote(s, t, dst, m)
    BY <1>0, <1>3, <1>4, <2>1, <2>2 DEF Server, Wrote, ClipboardAssumption
  <2>4. Counted(s, t, m)
    BY <1>0, <1>a, <1>3, <2>2 DEF Counted
  <2>5. Entered(t, k)
    BY <1>4, <2>2 DEF Entered
  <2>6. Sound(t, k) /\ Kept(t, k)
    BY <2>2, <2>3, <2>4, <2>5, WroteKeeps
  <2>7. SameBuffer(s, t)
    BY <1>0, <2>1 DEF Server, SameBuffer
  <2>8. \E x : Wrote(s, t, dst, x) /\ x.kind = "enter" /\ x.seq = t.seqNum
    BY <1>3, <2>2, <2>3
  <2> QED
    BY <2>2, <2>6, <2>7, <2>8 DEF t
<1>5. CASE dst # Primary
  <2> DEFINE out == [cut.out EXCEPT ![dst] = Append(cut.out[dst], m)]
  <2>1. dst \in Clients
    BY <1>0, <1>5 DEF Screens
  <2> HIDE DEF cut
  <2>2. /\ t = [cut EXCEPT !.out = out] /\ out \in [Clients -> Seq(ToClient)]
        /\ \A c \in Clients : IF c = dst THEN Longer(cut.out[c], out[c], m)
                               ELSE out[c] = cut.out[c]
    BY <1>1, <1>2, <1>3, <1>5, <2>1, Writing
  <2> HIDE DEF out
  <2>3. t = [s EXCEPT !.active = dst, !.seqNum = top, !.forced = FALSE, !.out = out]
    BY <2>2 DEF cut
  <2>a. out \in [Clients -> Seq(ToClient)]
    BY <2>2
  <2>4. /\ t \in Server /\ t.active = dst /\ t.seqNum = top /\ t.out = out
        /\ t.screenSeq = s.screenSeq
    BY <1>0, <1>a, <2>a, <2>3 DEF Server
  <2>b. /\ t.shown = s.shown /\ t.unexpected = s.unexpected /\ t.data = s.data
        /\ t.dirty = s.dirty /\ t.copy = s.copy /\ t.content = s.content
        /\ t.queue = s.queue /\ t.listed = s.listed /\ t.owner = s.owner /\ t.seq = s.seq
    BY <1>0, <2>3 DEF Server
  <2>5. Wrote(s, t, dst, m)
    BY <1>1, <1>3, <2>2, <2>4, <2>b DEF Wrote
  <2>6. Counted(s, t, m)
    BY <1>0, <1>a, <1>3, <2>4 DEF Counted
  <2>7. Entered(t, k)
    <3>1. Longer(s.out[dst], out[dst], m)
      BY <1>1, <2>1, <2>2
    <3>2. Len(out[dst]) \in 1 .. Len(out[dst]) /\ out[dst][Len(out[dst])] = m
      BY <3>1 DEF Longer
    <3> QED
      BY <1>a, <1>3, <2>4, <3>2 DEF Entered, Enter
  <2>8. Sound(t, k) /\ Kept(t, k)
    BY <2>4, <2>5, <2>6, <2>7, WroteKeeps
  <2>9. SameBuffer(s, t)
    BY <1>0, <2>3 DEF Server, SameBuffer
  <2>10. \E x : Wrote(s, t, dst, x) /\ x.kind = "enter" /\ x.seq = t.seqNum
    BY <1>3, <2>4, <2>5
  <2> QED
    BY <2>4, <2>8, <2>9, <2>10 DEF t
<1> QED
  BY <1>4, <1>5

\* A clipboard is sent to the screen that was entered.
LEMMA OfferKeeps ==
    ASSUME NEW s, NEW k, Sound(s, k), Kept(s, k), NEW id \in Ids
    PROVE  LET t == IF WithinLimit(s, id) THEN SetClipboard(s, s.active, id) ELSE s
           IN  /\ Sound(t, k) /\ Kept(t, k) /\ t.active = s.active
               /\ Served(t, id)
               /\ \A i \in Ids : Served(s, i) => Served(t, i)
               /\ IF WithinLimit(s, id) THEN SameBut(s, t) /\ Sent(s, t, id) ELSE t = s
<1> DEFINE t == IF WithinLimit(s, id) THEN SetClipboard(s, s.active, id) ELSE s
<1>0. s.active \in Screens
  BY DEF Sound, Typed, Server
<1>1. CASE WithinLimit(s, id)
  <2>1. t = SetClipboard(s, s.active, id)
    BY <1>1
  <2> HIDE DEF t
  <2>2. Sound(t, k) /\ Kept(t, k) /\ Delivered(s, t, id) /\ Sent(s, t, id)
    BY <1>1, <2>1, SetClipboardKeeps DEF WithinLimit
  <2>3. t.active = s.active /\ Served(t, id)
    BY <2>2 DEF Delivered, SameBut, Served
  <2>4. \A i \in Ids : Served(s, i) => Served(t, i)
    BY <1>0, <2>2 DEF Delivered, SameBut, Served
  <2> QED
    BY <1>1, <2>2, <2>3, <2>4 DEF Delivered, t
<1>2. CASE ~WithinLimit(s, id)
  <2>1. t = s
    BY <1>2
  <2>2. Served(s, id)
    BY <1>2 DEF WithinLimit, Served
  <2> QED
    BY <1>2, <2>1, <2>2
<1> QED
  BY <1>1, <1>2

LEMMA SwitchKeeps ==
    ASSUME ClipboardAssumption, IInv, SwitchScreen
    PROVE  IInv'
<1> PICK dst \in server.listed \ {server.active} : server' = Switched(dst)
  BY DEF SwitchScreen
<1> DEFINE k == client
           Update(s, id) == IF s.owner[id] = Primary
                            THEN OnClipboardChanged(s, Primary, id, s.seq[id]) ELSE s
           Send(s, id) == IF WithinLimit(s, id) THEN SetClipboard(s, dst, id) ELSE s
           left == IF server.active = Primary THEN Update(Update(server, 0), 1)
                   ELSE Write(server, server.active, Msg("leave", 0, 0, Empty))
           entered == EnteredBy(left, dst)
           first == Send(entered, 0)
           second == Send(first, 1)
<1>0. client' = client /\ 0 \in Ids /\ 1 \in Ids /\ Ids = {0, 1}
  BY DEF SwitchScreen, Ids, ClipboardEnd
<1>1. Sound(server, k) /\ Kept(server, k) /\ AllServed(server) /\ Primary \in server.listed
  BY DEF IInv, Sound, Typed
<1>2. server' = second
  BY DEF Switched, AllIds, EnteredBy
<1>3. Sound(left, k) /\ Kept(left, k) /\ left.listed = server.listed
  <2>1. CASE server.active = Primary
    <3> DEFINE x == Update(server, 0)
               y == Update(x, 1)
    <3>1. Sound(x, k) /\ Kept(x, k) /\ AllServed(x) /\ x.listed = server.listed
      BY <1>0, <1>1, ChangedKeeps DEF SameRound
    <3>2. left = y
      BY <2>1
    <3> HIDE DEF x, left
    <3>3. Sound(y, k) /\ Kept(y, k) /\ y.listed = x.listed
      BY <1>0, <1>1, <3>1, ChangedKeeps DEF SameRound
    <3> QED
      BY <3>1, <3>2, <3>3
  <2>2. CASE server.active # Primary
    <3> DEFINE y == Write(server, server.active, Msg("leave", 0, 0, Empty))
    <3>1. left = y
      BY <2>2
    <3>2. Sound(y, k) /\ Kept(y, k) /\ y.listed = server.listed
      BY <1>1, <2>2, LeaveKeeps
    <3> HIDE DEF left, y
    <3> QED
      BY <3>1, <3>2
  <2> QED
    BY <2>1, <2>2
<1> HIDE DEF left, second
<1>4. Sound(entered, k) /\ Kept(entered, k) /\ entered.active = dst
  BY <1>3, EnterKeeps
<1> HIDE DEF entered
<1>5. Sound(first, k) /\ Kept(first, k) /\ first.active = dst /\ Served(first, 0)
  BY <1>0, <1>4, OfferKeeps
<1> HIDE DEF first
<1>6. /\ Sound(second, k) /\ Kept(second, k) /\ Served(second, 1)
      /\ \A i \in Ids : Served(first, i) => Served(second, i)
  BY <1>0, <1>5, OfferKeeps DEF second
<1>7. AllServed(second)
  BY <1>0, <1>5, <1>6 DEF AllServed
<1> QED
  BY <1>0, <1>2, <1>6, <1>7 DEF IInv

-----------------------------------------------------------------------------
(* What a client does on its own.                                           *)

\* What it has written, or will, is numbered and within the limit.
Proper(m, top) == m.seq <= top /\ (m.kind = "data" => m.data \notin Big)
Fine(q, top) == \A i \in 1 .. Len(q) : Proper(q[i], top)
Ready(w, top) == Fine(w.out, top) /\ Fine(w.local, top)

LEMMA FineLonger ==
    ASSUME NEW q, NEW r, NEW e, Longer(q, r, e), NEW top, Fine(q, top), Proper(e, top)
    PROVE  Fine(r, top)
<1>1. \A i \in 1 .. Len(r) : i \in 1 .. Len(q) \/ i = Len(q) + 1
  BY DEF Longer
<1> HIDE DEF Proper
<1> QED
  BY <1>1 DEF Longer, Fine

LEMMA FineShorter ==
    ASSUME NEW q, NEW r, NEW e, Shorter(q, r, e), NEW top, Fine(q, top)
    PROVE  Fine(r, top) /\ Proper(e, top)
<1>1. /\ \A i \in 1 .. Len(r) : i + 1 \in 1 .. Len(q)
      /\ 1 \in 1 .. Len(q)
  BY DEF Shorter
<1> HIDE DEF Proper
<1> QED
  BY <1>1 DEF Shorter, Fine

\* Its grabs are on their way, and its clipboard is the same or grabbed.
StillFresh(s, p, w, c) ==
    \A id \in Ids : p.seq >= s.seq[id] =>
      \/ FreshGrab(s.queue, w, s.seq[id], c, id)
      \/ w.content[id] = p.content[id] /\ ~FreshGrab(s.queue, p, s.seq[id], c, id)

LEMMA ReadyNow ==
    ASSUME NEW s, NEW k, Sound(s, k), NEW c \in Clients
    PROVE  Ready(k[c], s.seqNum) /\ k[c] \in Client /\ s.seqNum \in Nat /\ k[c].seq <= s.seqNum
  BY DEF Sound, Typed, Server, Limited, Numbered, Ready, Fine, Proper, UpTo

LEMMA ClientAlone ==
    ASSUME NEW s, NEW k, Sound(s, k), Kept(s, k), NEW c \in Clients, NEW w \in Client,
           w.seq = k[c].seq, Ready(w, s.seqNum), c \in s.listed => StillFresh(s, k[c], w, c)
    PROVE  LET j == [k EXCEPT ![c] = w]
           IN  Sound(s, j) /\ Kept(s, j)
<1> DEFINE j == [k EXCEPT ![c] = w]
<1>0. s \in Server /\ k \in [Clients -> Client] /\ s.listed \subseteq Screens
  BY DEF Sound, Typed, Server
<1>1. j \in [Clients -> Client] /\ j[c] = w /\ \A d \in Clients : d # c => j[d] = k[d]
  BY <1>0
<1> HIDE DEF j
<1>2. Sound(s, j)
  <2>1. Typed(s, j) /\ Limited(s, j)
    BY <1>1 DEF Sound, Typed, Limited, Ready, Fine, Proper
  <2>a. UpTo(w.out, s.seqNum) /\ UpTo(w.local, s.seqNum)
    BY DEF Ready, Fine, Proper, UpTo
  <2>2. Numbered(s, j)
    BY <1>1, <2>a DEF Sound, Numbered
  <2> QED
    BY <2>1, <2>2 DEF Sound
<1>3. Entered(s, k) => Entered(s, j)
  <2>1. s.active # Primary => s.active \in Clients
    BY <1>0 DEF Sound, Typed, Server, Screens
  <2> QED
    BY <1>1, <2>1 DEF Entered
<1>4. ASSUME NEW i \in Ids, NEW d \in s.listed \ {Primary}
      PROVE  UpToDate(s, k, d, i) => UpToDate(s, j, d, i)
  <2>0. d \in Clients
    BY <1>0 DEF Screens
  <2>1. CASE d # c
    BY <1>1, <2>0, <2>1 DEF UpToDate
  <2>2. CASE d = c
    <3> SUFFICES ASSUME There(s.queue, s.out[c], s.data[i], s.seq[i], k[c], c, i)
                 PROVE  There(s.queue, s.out[c], s.data[i], s.seq[i], w, c, i)
      BY <1>1, <2>2 DEF UpToDate
    <3>1. s.out[c] \in Seq(ToClient) /\ s.seq[i] \in Nat /\ k[c].seq \in Nat
      BY <1>0 DEF Server, Client
    <3>2. Len(s.out[c]) \in Nat
      BY <3>1
    <3>3. k[c].seq >= s.seq[i] =>
            \/ FreshGrab(s.queue, w, s.seq[i], c, i)
            \/ w.content[i] = k[c].content[i] /\ ~FreshGrab(s.queue, k[c], s.seq[i], c, i)
      BY <2>2 DEF StillFresh
    <3> QED
      BY <3>1, <3>2, <3>3, Moved
  <2> QED
    BY <2>1, <2>2
<1>5. Kept(s, j)
  BY <1>3, <1>4 DEF Kept
<1> QED
  BY <1>2, <1>5 DEF j

\* sendClipboard.
LEMMA SendClipboardReady ==
    ASSUME NEW p \in Client, NEW top \in Nat, Ready(p, top), p.seq <= top, NEW id \in Ids
    PROVE  LET w == SendClipboard(p, id)
           IN  /\ w \in Client /\ Ready(w, top)
               /\ w.seq = p.seq /\ w.content = p.content /\ w.out = p.out
               /\ \A i \in 1 .. Len(p.local) : i \in 1 .. Len(w.local) /\ w.local[i] = p.local[i]
               /\ \A i \in 1 .. Len(w.local) :
                    i \in 1 .. Len(p.local) \/ w.local[i].kind # "grabbed"
<1> DEFINE m == Msg("start", id, p.seq, Empty)
           n == Msg("data", id, p.seq, p.content[id])
           w == SendClipboard(p, id)
<1>1. CASE ~Unsent(p, id) \/ p.content[id] \in Big
  <2>1. w = p
    BY <1>1 DEF SendClipboard
  <2> QED
    BY <2>1
<1>2. CASE ~(~Unsent(p, id) \/ p.content[id] \in Big)
  <2> DEFINE local == p.local \o <<m, n>>
             own == [p.own EXCEPT ![id] = "sent"]
             data == [p.data EXCEPT ![id] = p.content[id]]
  <2>1. w = [p EXCEPT !.own = own, !.data = data, !.local = local]
    BY <1>2 DEF SendClipboard
  <2>2. own \in [Ids -> {"no", "unsent", "sent"}] /\ data \in [Ids -> Value]
    BY DEF Client
  <2>3. p.local \in Seq(LocalType) /\ p.content[id] \in Value /\ p.seq \in Nat
    BY DEF Client
  <2>4. /\ m \in LocalType /\ m.kind = "start" /\ m.seq = p.seq
        /\ n \in LocalType /\ n.kind = "data" /\ n.seq = p.seq /\ n.data = p.content[id]
    BY <2>3 DEF LocalType, Msg, Value
  <2> HIDE DEF m, n
  <2>5. /\ local \in Seq(LocalType) /\ Len(local) = Len(p.local) + 2
        /\ \A i \in 1 .. Len(p.local) : local[i] = p.local[i]
        /\ local[Len(p.local) + 1] = m /\ local[Len(p.local) + 2] = n
    <3>1. <<m, n>> \in Seq(LocalType) /\ Len(<<m, n>>) = 2 /\ <<m, n>>[1] = m /\ <<m, n>>[2] = n
      BY <2>4
    <3> DEFINE mn == <<m, n>>
    <3> HIDE DEF mn
    <3>2. p.local \o mn \in Seq(LocalType) /\ Len(p.local \o mn) = Len(p.local) + Len(mn)
          /\ \A i \in 1 .. Len(p.local) + Len(mn) :
               (p.local \o mn)[i] = IF i <= Len(p.local) THEN p.local[i] ELSE mn[i - Len(p.local)]
      BY <2>3, <3>1, ConcatProperties DEF mn
    <3>3. Len(p.local) \in Nat
      BY <2>3
    <3> QED
      BY <3>1, <3>2, <3>3 DEF mn
  <2> HIDE DEF local, own, data, w
  <2>6. w \in Client /\ w.seq = p.seq /\ w.content = p.content /\ w.out = p.out /\ w.local = local
    BY <2>1, <2>2, <2>5 DEF Client
  <2>7. \A i \in 1 .. Len(local) : \/ i \in 1 .. Len(p.local) /\ local[i] = p.local[i]
                                   \/ local[i] \in {m, n}
    <3>1. Len(p.local) \in Nat
      BY <2>3
    <3>2. \A i \in 1 .. Len(local) : \/ i \in 1 .. Len(p.local)
                                     \/ i = Len(p.local) + 1 \/ i = Len(p.local) + 2
      BY <2>5, <3>1
    <3> QED
      BY <2>5, <3>2
  <2>8. Ready(w, top)
    BY <1>2, <2>4, <2>6, <2>7 DEF Ready, Fine, Proper
  <2>9. \A i \in 1 .. Len(p.local) : i \in 1 .. Len(local)
    BY <2>3, <2>5
  <2> QED
    BY <2>4, <2>5, <2>6, <2>7, <2>8, <2>9 DEF w
<1> QED
  BY <1>1, <1>2

LEMMA ClientDispatchKeeps ==
    ASSUME IInv, NEW c \in Clients, ClientDispatch(c)
    PROVE  IInv'
<1> DEFINE p == client[c]
           e == Head(p.local)
           k == [p EXCEPT !.local = Tail(p.local)]
           top == server.seqNum
           w == IF e.kind = "grabbed" THEN GrabHandled(k, e.id)
                ELSE [k EXCEPT !.out = Append(@, e)]
<1>0. Sound(server, client) /\ Kept(server, client) /\ AllServed(server) /\ server' = server
  BY DEF IInv, ClientDispatch
<1>1. p \in Client /\ Ready(p, top) /\ top \in Nat /\ p.seq <= top
  BY <1>0, ReadyNow
<1>2. p.local # <<>> /\ client' = [client EXCEPT ![c] = w]
  BY DEF ClientDispatch
<1>3. p.local \in Seq(LocalType) /\ p.out \in Seq(FromClient) /\ p.seq \in Nat
  BY <1>1 DEF Client
<1> DEFINE local == Tail(p.local)
<1>4. e \in LocalType /\ local \in Seq(LocalType) /\ Shorter(p.local, local, e)
  BY <1>2, <1>3, Popped
<1>5. w = IF e.kind = "grabbed" THEN GrabHandled(k, e.id)
          ELSE [p EXCEPT !.local = local, !.out = Append(p.out, e)]
  BY <1>1 DEF Client
<1> HIDE DEF w, e, local, p, top
<1>6. /\ \A i \in 1 .. Len(local) : i + 1 \in 1 .. Len(p.local) /\ local[i] = p.local[i + 1]
      /\ \A i \in 1 .. Len(p.local) : i = 1 \/ (i - 1 \in 1 .. Len(local) /\ p.local[i] = local[i - 1])
      /\ 1 \in 1 .. Len(p.local) /\ p.local[1] = e
  BY <1>4 DEF Shorter
<1>7. k = [p EXCEPT !.local = local]
  BY DEF local
<1> HIDE DEF k
<1>8. CASE e.kind = "grabbed"
  <2> DEFINE id == e.id
             m == Msg("grab", id, p.seq, Empty)
             out == Append(p.out, m)
             own == [p.own EXCEPT ![id] = "unsent"]
             grabbed == [p EXCEPT !.local = local, !.out = out, !.own = own]
  <2>1. id \in Ids
    BY <1>4 DEF LocalType
  <2>2. w = IF p.active THEN grabbed ELSE SendClipboard(grabbed, id)
    <3>1. w = GrabHandled(k, id)
      BY <1>5, <1>8
    <3>2. k.active = p.active /\ k.seq = p.seq /\ k.out = p.out /\ k.own = p.own
      BY <1>1, <1>7 DEF Client
    <3>3. [k EXCEPT !.out = Append(@, Msg("grab", id, k.seq, Empty)), !.own[id] = "unsent"] = grabbed
      BY <1>1, <1>7, <3>2 DEF Client
    <3> HIDE DEF id, grabbed
    <3> QED
      BY <3>1, <3>2, <3>3 DEF GrabHandled
  <2>3. m \in FromClient /\ m.kind = "grab" /\ m.id = id /\ m.seq = p.seq
    BY <1>3, <2>1 DEF FromClient, Msg, Value
  <2> HIDE DEF m
  <2>4. out \in Seq(FromClient) /\ Longer(p.out, out, m)
    BY <1>3, <2>3, Appended
  <2>5. own \in [Ids -> {"no", "unsent", "sent"}]
    BY <1>1 DEF Client
  <2> HIDE DEF id, out, own
  <2>6. /\ grabbed \in Client /\ grabbed.seq = p.seq /\ grabbed.content = p.content
        /\ grabbed.out = out /\ grabbed.local = local
    BY <1>1, <1>4, <2>4, <2>5 DEF Client
  <2> HIDE DEF grabbed
  <2>7. /\ \A i \in 1 .. Len(out) : (i \in 1 .. Len(p.out) /\ out[i] = p.out[i]) \/ out[i] = m
        /\ \A i \in 1 .. Len(p.out) : i \in 1 .. Len(out) /\ out[i] = p.out[i]
        /\ Len(out) \in 1 .. Len(out) /\ out[Len(out)] = m
    <3>1. \A i \in 1 .. Len(out) : i \in 1 .. Len(p.out) \/ i = Len(p.out) + 1
      BY <2>4 DEF Longer
    <3> QED
      BY <2>4, <3>1 DEF Longer
  <2>8. Ready(grabbed, top)
    <3>1. Proper(m, top)
      BY <1>1, <2>3 DEF Proper
    <3> QED
      BY <1>1, <1>4, <2>4, <2>6, <3>1, FineLonger, FineShorter DEF Ready
  <2>9. /\ w \in Client /\ Ready(w, top) /\ w.seq = p.seq /\ w.content = p.content /\ w.out = out
        /\ \A i \in 1 .. Len(local) : i \in 1 .. Len(w.local) /\ w.local[i] = local[i]
        /\ \A i \in 1 .. Len(w.local) : i \in 1 .. Len(local) \/ w.local[i].kind # "grabbed"
    <3> DEFINE v == SendClipboard(grabbed, id)
    <3>1. /\ v \in Client /\ Ready(v, top) /\ v.seq = p.seq /\ v.content = p.content /\ v.out = out
          /\ \A i \in 1 .. Len(local) : i \in 1 .. Len(v.local) /\ v.local[i] = local[i]
          /\ \A i \in 1 .. Len(v.local) : i \in 1 .. Len(local) \/ v.local[i].kind # "grabbed"
      BY <1>1, <2>1, <2>6, <2>8, SendClipboardReady
    <3>2. w = v \/ w = grabbed
      BY <2>2
    <3> HIDE DEF v
    <3> QED
      BY <2>6, <2>8, <3>1, <3>2
  <2>10. ASSUME NEW i \in Ids, p.seq >= server.seq[i]
         PROVE  \/ FreshGrab(server.queue, w, server.seq[i], c, i)
                \/ w.content[i] = p.content[i] /\ ~FreshGrab(server.queue, p, server.seq[i], c, i)
    <3>1. CASE i = id
      <4>1. NewGrab(m, i, server.seq[i])
        BY <2>3, <2>10, <3>1 DEF NewGrab
      <4> QED
        BY <2>3, <2>7, <2>9, <4>1 DEF FreshGrab
    <3>2. CASE i # id
      <4>1. FreshGrab(server.queue, p, server.seq[i], c, i) => FreshGrab(server.queue, w, server.seq[i], c, i)
        <5>1. ASSUME NEW j \in 1 .. Len(p.local), p.local[j].kind = "grabbed", p.local[j].id = i
              PROVE  FreshGrab(server.queue, w, server.seq[i], c, i)
          <6>1. j - 1 \in 1 .. Len(local) /\ p.local[j] = local[j - 1]
            BY <1>6, <3>2, <5>1 DEF id
          <6> QED
            BY <2>9, <5>1, <6>1 DEF FreshGrab
        <5>2. ASSUME NEW j \in 1 .. Len(p.out), p.out[j].kind = "grab", NewGrab(p.out[j], i, server.seq[i])
              PROVE  FreshGrab(server.queue, w, server.seq[i], c, i)
          BY <2>7, <2>9, <5>2 DEF FreshGrab
        <5> QED
          BY <5>1, <5>2 DEF FreshGrab
      <4> QED
        BY <2>9, <4>1
    <3> QED
      BY <3>1, <3>2
  <2>11. StillFresh(server, p, w, c)
    BY <2>10 DEF StillFresh
  <2> QED
    BY <1>0, <1>2, <2>9, <2>11, ClientAlone DEF IInv, p, top
<1>9. CASE e.kind # "grabbed"
  <2> DEFINE out == Append(p.out, e)
  <2>1. w = [p EXCEPT !.local = local, !.out = out]
    BY <1>5, <1>9
  <2>2. e \in FromClient
    BY <1>4, <1>9 DEF FromClient, LocalType
  <2>3. out \in Seq(FromClient) /\ Longer(p.out, out, e)
    BY <1>3, <2>2, Appended
  <2> HIDE DEF out
  <2>4. /\ w \in Client /\ w.seq = p.seq /\ w.content = p.content /\ w.out = out /\ w.local = local
    BY <1>1, <1>4, <2>1, <2>3 DEF Client
  <2>5. /\ \A i \in 1 .. Len(out) : (i \in 1 .. Len(p.out) /\ out[i] = p.out[i]) \/ out[i] = e
        /\ \A i \in 1 .. Len(p.out) : i \in 1 .. Len(out) /\ out[i] = p.out[i]
    <3>1. \A i \in 1 .. Len(out) : i \in 1 .. Len(p.out) \/ i = Len(p.out) + 1
      BY <2>3 DEF Longer
    <3> QED
      BY <2>3, <3>1 DEF Longer
  <2>6. Ready(w, top)
    BY <1>1, <1>4, <2>3, <2>4, FineLonger, FineShorter DEF Ready
  <2>7. ASSUME NEW i \in Ids
        PROVE  FreshGrab(server.queue, p, server.seq[i], c, i) => FreshGrab(server.queue, w, server.seq[i], c, i)
    BY <1>6, <1>9, <2>4, <2>5 DEF FreshGrab
  <2>8. StillFresh(server, p, w, c)
    BY <2>4, <2>7 DEF StillFresh
  <2> QED
    BY <1>0, <1>2, <2>4, <2>6, <2>8, ClientAlone DEF IInv, p, top
<1> QED
  BY <1>8, <1>9

LEMMA CopyOnClientKeeps ==
    ASSUME ClipboardAssumption, IInv, NEW c \in Clients, CopyOnClient(c)
    PROVE  IInv'
<1> DEFINE p == client[c]
           top == server.seqNum
<1>0. Sound(server, client) /\ Kept(server, client) /\ AllServed(server) /\ server' = server
  BY DEF IInv, CopyOnClient
<1>1. p \in Client /\ Ready(p, top) /\ top \in Nat
  BY <1>0, ReadyNow
<1>2. p.local \in Seq(LocalType)
  BY <1>1 DEF Client
<1>3. PICK id \in Ids, d \in Data :
        client' = [client EXCEPT ![c].content[id] = d,
                                 ![c].local = IF c \notin server.listed THEN @
                                              ELSE Append(@, Msg("grabbed", id, 0, Empty))]
  BY DEF CopyOnClient, ClipboardAssumption
<1> DEFINE e == Msg("grabbed", id, 0, Empty)
           local == IF c \notin server.listed THEN p.local ELSE Append(p.local, e)
           content == [p.content EXCEPT ![id] = d]
           w == [p EXCEPT !.content = content, !.local = local]
<1>4. client' = [client EXCEPT ![c] = w]
  <2>1. client \in [Clients -> Client]
    BY <1>0 DEF Sound, Typed
  <2> QED
    BY <1>1, <1>3, <2>1 DEF Client
<1>5. e \in LocalType /\ e.kind = "grabbed" /\ e.id = id /\ e.seq = 0
  BY DEF LocalType, Msg, Value
<1>6. content \in [Ids -> Value] /\ \A i \in Ids : i # id => content[i] = p.content[i]
  BY <1>1 DEF Client, Value
<1> HIDE DEF e
<1>7. Append(p.local, e) \in Seq(LocalType) /\ Longer(p.local, Append(p.local, e), e)
  BY <1>2, <1>5, Appended
<1>8. /\ local \in Seq(LocalType)
      /\ IF c \in server.listed THEN Longer(p.local, local, e) ELSE local = p.local
  BY <1>2, <1>7
<1> HIDE DEF local, content, p, top
<1>9. w \in Client /\ w.seq = p.seq /\ w.content = content /\ w.out = p.out /\ w.local = local
  BY <1>1, <1>6, <1>8 DEF Client
<1> HIDE DEF w
<1>11. Ready(w, top)
  <2>1. Proper(e, top)
    BY <1>1, <1>5 DEF Proper
  <2> QED
    BY <1>1, <1>8, <1>9, <2>1, FineLonger DEF Ready
<1>12. ASSUME c \in server.listed, NEW i \in Ids
       PROVE  \/ FreshGrab(server.queue, w, server.seq[i], c, i)
              \/ w.content[i] = p.content[i] /\ ~FreshGrab(server.queue, p, server.seq[i], c, i)
  <2>1. /\ \A j \in 1 .. Len(p.local) : j \in 1 .. Len(local) /\ local[j] = p.local[j]
        /\ Len(local) \in 1 .. Len(local) /\ local[Len(local)] = e
    BY <1>8, <1>12 DEF Longer
  <2>2. CASE i = id
    BY <1>5, <1>9, <2>1, <2>2 DEF FreshGrab
  <2>3. CASE i # id
    <3>1. FreshGrab(server.queue, p, server.seq[i], c, i) => FreshGrab(server.queue, w, server.seq[i], c, i)
      BY <1>9, <2>1 DEF FreshGrab
    <3> QED
      BY <1>6, <1>9, <2>3, <3>1
  <2> QED
    BY <2>2, <2>3
<1>13. c \in server.listed => StillFresh(server, p, w, c)
  BY <1>12 DEF StillFresh
<1> QED
  BY <1>0, <1>4, <1>9, <1>11, <1>13, ClientAlone DEF IInv, p, top

-----------------------------------------------------------------------------
(* What the server receives.                                                *)

\* All but the queue, and what a proxy has assembled.
SameBoard(s, t) ==
    /\ t.shown = s.shown /\ t.unexpected = s.unexpected /\ t.data = s.data
    /\ t.dirty = s.dirty /\ t.content = s.content /\ t.listed = s.listed
    /\ t.active = s.active /\ t.seqNum = s.seqNum /\ t.owner = s.owner /\ t.seq = s.seq
    /\ t.screenSeq = s.screenSeq /\ t.out = s.out /\ t.forced = s.forced

LEMMA NoteKeeps ==
    ASSUME ClipboardAssumption, NEW s, NEW k, Sound(s, k), Kept(s, k), AllServed(s),
           NEW t \in Server, SameBoard(s, t),
           \A c \in Clients, i \in Ids : t.copy[c][i] \notin Big,
           NEW e, t.queue = s.queue \/ Longer(s.queue, t.queue, e),
           e.kind \in {"grabbed", "changed"}, e.who \in s.listed \ {Primary}, e.seq <= s.seqNum
    PROVE  Sound(t, k) /\ Kept(t, k) /\ AllServed(t)
<1>0. s \in Server
  BY DEF Sound, Typed
<1>1. \A i \in 1 .. Len(t.queue) :
        (i \in 1 .. Len(s.queue) /\ t.queue[i] = s.queue[i]) \/ t.queue[i] = e
  <2>1. Longer(s.queue, t.queue, e) =>
          \A i \in 1 .. Len(t.queue) : i \in 1 .. Len(s.queue) \/ i = Len(s.queue) + 1
    BY DEF Longer
  <2> QED
    BY <2>1 DEF Longer
<1>2. UpTo(t.queue, s.seqNum) /\ Known(t)
  BY <1>1 DEF SameBoard, Sound, Numbered, UpTo, Known
<1>3. Sound(t, k)
  <2>1. Typed(t, k) /\ Limited(t, k)
    BY DEF SameBoard, Sound, Typed, Limited
  <2>2. Numbered(t, k)
    BY <1>2 DEF SameBoard, Sound, Numbered
  <2> QED
    BY <1>2, <2>1, <2>2 DEF Sound
<1>4. \A i : Ahead(t.queue, i) <=> Ahead(s.queue, i)
  <2>1. \A i \in 1 .. Len(s.queue) : i \in 1 .. Len(t.queue) /\ t.queue[i] = s.queue[i]
    BY DEF Longer
  <2> QED
    BY <1>1, <2>1 DEF Ahead
<1>5. ASSUME NEW i \in Ids
      PROVE  (Here(s, i) => Here(t, i)) /\ (Served(s, i) => Served(t, i))
  BY <1>4 DEF SameBoard, Here, Served
<1>6. ASSUME NEW i \in Ids, NEW c \in s.listed \ {Primary}
      PROVE  UpToDate(s, k, c, i) => UpToDate(t, k, c, i)
  <2>1. ~SendFor(e, c, i)
    BY DEF SendFor
  <2> QED
    BY <2>1, PostOther DEF SameBoard, UpToDate
<1>7. Kept(t, k) /\ AllServed(t)
  BY <1>5, <1>6 DEF SameBoard, Kept, AllServed, Entered
<1> QED
  BY <1>3, <1>7

\* A message of a client that is not a grab, or whose event is in the queue.
LEMMA HandedOver ==
    ASSUME NEW s, NEW k, Sound(s, k), Kept(s, k), NEW c \in Clients, k[c].out # <<>>,
           LET m == Head(k[c].out) IN
             m.kind = "grab" => \E i \in 1 .. Len(s.queue) :
               /\ s.queue[i].kind = "grabbed" /\ s.queue[i].who = c
               /\ s.queue[i].id = m.id /\ s.queue[i].seq = m.seq
    PROVE  LET j == [k EXCEPT ![c].out = Tail(@)]
           IN  Sound(s, j) /\ Kept(s, j)
<1> DEFINE p == k[c]
           m == Head(p.out)
           out == Tail(p.out)
           w == [p EXCEPT !.out = out]
           j == [k EXCEPT ![c].out = Tail(@)]
<1>1. p \in Client /\ Ready(p, s.seqNum)
  BY ReadyNow
<1>2. p.out \in Seq(FromClient)
  BY <1>1 DEF Client
<1>3. out \in Seq(FromClient) /\ Shorter(p.out, out, m)
  BY <1>2, Popped
<1>4. j = [k EXCEPT ![c] = w]
  OBVIOUS
<1> HIDE DEF p, m, out, j
<1>5. w \in Client /\ w.seq = p.seq /\ w.content = p.content /\ w.local = p.local /\ w.out = out
  BY <1>1, <1>3 DEF Client
<1> HIDE DEF w
<1>6. Ready(w, s.seqNum)
  BY <1>1, <1>3, <1>5, FineShorter DEF Ready
<1>7. ASSUME NEW i \in Ids, FreshGrab(s.queue, p, s.seq[i], c, i)
      PROVE  FreshGrab(s.queue, w, s.seq[i], c, i)
  <2>1. ASSUME NEW x \in 1 .. Len(p.out), p.out[x].kind = "grab", NewGrab(p.out[x], i, s.seq[i])
        PROVE  FreshGrab(s.queue, w, s.seq[i], c, i)
    <3>1. CASE x = 1
      <4>1. m.kind = "grab" /\ NewGrab(m, i, s.seq[i])
        BY <1>3, <2>1, <3>1 DEF Shorter
      <4> QED
        BY <4>1 DEF FreshGrab, NewGrab, m, p
    <3>2. CASE x # 1
      <4>1. x - 1 \in 1 .. Len(out) /\ out[x - 1] = p.out[x]
        BY <1>3, <3>2 DEF Shorter
      <4> QED
        BY <1>5, <2>1, <4>1 DEF FreshGrab
    <3> QED
      BY <3>1, <3>2
  <2> QED
    BY <1>5, <1>7, <2>1 DEF FreshGrab
<1>8. StillFresh(s, p, w, c)
  BY <1>5, <1>7 DEF StillFresh
<1> QED
  BY <1>4, <1>5, <1>6, <1>8, ClientAlone DEF j, p

LEMMA ServerReceiveKeeps ==
    ASSUME ClipboardAssumption, IInv, NEW c \in Clients, ServerReceive(c)
    PROVE  IInv'
<1> DEFINE p == client[c]
           msg == Head(p.out)
           e == Event("grabbed", c, msg.id, msg.seq, Empty)
           f == Event("changed", c, msg.id, msg.seq, Empty)
<1>0. /\ Sound(server, client) /\ Kept(server, client) /\ AllServed(server)
      /\ c \in server.listed \ {Primary} /\ p.out # <<>>
      /\ server \in Server
  BY DEF IInv, ServerReceive, Sound, Typed, ClipboardAssumption
<1>1. p \in Client /\ Ready(p, server.seqNum)
  BY <1>0, ReadyNow
<1>2. p.out \in Seq(FromClient)
  BY <1>1 DEF Client
<1>3. msg \in FromClient /\ Proper(msg, server.seqNum)
  BY <1>0, <1>1, <1>2, Popped, FineShorter DEF Ready
<1>4. msg.id \in Ids /\ msg.seq \in Nat /\ msg.seq <= server.seqNum /\ msg.data \in Value
  BY <1>3 DEF FromClient, Proper
<1>5. e \in EventType /\ f \in EventType
  BY <1>4 DEF EventType, Event, Screens, Value
<1>6. server.queue \in Seq(EventType)
  BY <1>0 DEF Server
<1>7. server' = IF msg.kind = "grab" THEN Post(server, e) ELSE Assembled(server, c, msg)
  BY DEF ServerReceive
<1>8. client' = [client EXCEPT ![c].out = Tail(@)]
  BY DEF ServerReceive
<1>9. /\ Sound(server', client) /\ Kept(server', client) /\ AllServed(server')
      /\ msg.kind = "grab" => \E i \in 1 .. Len(server'.queue) : server'.queue[i] = e
  <2>1. CASE msg.kind = "grab"
    <3> DEFINE q == Append(server.queue, e)
               t == [server EXCEPT !.queue = q]
    <3>1. server' = t
      BY <1>7, <2>1 DEF Post
    <3>2. q \in Seq(EventType) /\ Longer(server.queue, q, e)
      BY <1>5, <1>6, Appended
    <3> HIDE DEF q
    <3>3. t \in Server /\ SameBoard(server, t) /\ t.queue = q /\ t.copy = server.copy
      BY <1>0, <3>2 DEF Server, SameBoard
    <3>4. e.kind = "grabbed" /\ e.who = c /\ e.seq = msg.seq
      BY DEF Event
    <3>5. \A d \in Clients, i \in Ids : t.copy[d][i] \notin Big
      BY <1>0, <3>3 DEF Sound, Limited
    <3> HIDE DEF t, e, msg
    <3>6. Sound(t, client) /\ Kept(t, client) /\ AllServed(t)
      BY <1>0, <1>4, <3>2, <3>3, <3>4, <3>5, NoteKeeps
    <3>7. Len(q) \in 1 .. Len(q) /\ q[Len(q)] = e
      BY <3>2 DEF Longer
    <3> QED
      BY <3>1, <3>3, <3>6, <3>7
  <2>2. CASE msg.kind # "grab"
    <3> DEFINE t == Assembled(server, c, msg)
    <3>1. server' = t
      BY <1>7, <2>2
    <3>2. f.kind = "changed" /\ f.who = c /\ f.seq = msg.seq
      BY DEF Event
    <3>3. CASE msg.kind = "start"
      <4>1. t = [server EXCEPT !.cached = 0,
                    !.mixed = server.mixed \/ server.filling \notin {Empty, c}, !.filling = c]
        BY <3>3 DEF Assembled
      <4>2. (server.mixed \/ server.filling \notin {Empty, c}) \in BOOLEAN
        BY <1>0 DEF Server
      <4> HIDE DEF t, f, msg
      <4>3. t \in Server /\ SameBoard(server, t) /\ t.queue = server.queue /\ t.copy = server.copy
        BY <1>0, <4>1, <4>2 DEF Server, SameBoard
      <4>4. \A d \in Clients, i \in Ids : t.copy[d][i] \notin Big
        BY <1>0, <4>3 DEF Sound, Limited
      <4> QED
        BY <1>0, <1>4, <2>2, <3>1, <3>2, <4>3, <4>4, NoteKeeps
    <3>4. CASE msg.kind # "start"
      <4> DEFINE n == server.cached + 1
                 copy == [server.copy EXCEPT ![c] = [server.copy[c] EXCEPT ![msg.id] = msg.data]]
                 q == Append(server.queue, f)
      <4>0. n \in Nat
        BY <1>0 DEF Server
      <4>1. t = IF server.cached # 0 THEN [server EXCEPT !.cached = n, !.filling = Empty]
                ELSE [server EXCEPT !.cached = n, !.filling = Empty, !.copy = copy, !.queue = q]
        BY <1>0, <3>4 DEF Assembled, Post, Server
      <4>2. q \in Seq(EventType) /\ Longer(server.queue, q, f)
        BY <1>5, <1>6, Appended
      <4>3. /\ copy \in [Clients -> [Ids -> Value]]
            /\ \A d \in Clients, i \in Ids : copy[d][i] \in {server.copy[d][i], msg.data}
        BY <1>0, <1>4 DEF Server
      <4>4. msg.data \notin Big
        BY <1>3, <2>2, <3>4 DEF FromClient, Proper
      <4> HIDE DEF t, f, msg, n, copy, q
      <4>5. CASE server.cached # 0
        <5>1. t = [server EXCEPT !.cached = n, !.filling = Empty]
          BY <4>1, <4>5
        <5>2. t \in Server /\ SameBoard(server, t) /\ t.queue = server.queue /\ t.copy = server.copy
          BY <1>0, <4>0, <5>1 DEF Server, SameBoard
        <5>3. \A d \in Clients, i \in Ids : t.copy[d][i] \notin Big
          BY <1>0, <5>2 DEF Sound, Limited
        <5> QED
          BY <1>0, <1>4, <2>2, <3>1, <3>2, <5>2, <5>3, NoteKeeps
      <4>6. CASE ~(server.cached # 0)
        <5>1. t = [server EXCEPT !.cached = n, !.filling = Empty, !.copy = copy, !.queue = q]
          BY <4>1, <4>6
        <5>2. t \in Server /\ SameBoard(server, t) /\ t.queue = q /\ t.copy = copy
          BY <1>0, <4>0, <4>2, <4>3, <5>1 DEF Server, SameBoard
        <5>3. \A d \in Clients, i \in Ids : t.copy[d][i] \notin Big
          BY <1>0, <4>3, <4>4, <5>2 DEF Sound, Limited
        <5> QED
          BY <1>0, <1>4, <2>2, <3>1, <3>2, <4>2, <5>2, <5>3, NoteKeeps
      <4> QED
        BY <4>5, <4>6
    <3> QED
      BY <3>3, <3>4
  <2> QED
    BY <2>1, <2>2
<1>10. msg.kind = "grab" => \E i \in 1 .. Len(server'.queue) :
         /\ server'.queue[i].kind = "grabbed" /\ server'.queue[i].who = c
         /\ server'.queue[i].id = msg.id /\ server'.queue[i].seq = msg.seq
  BY <1>9 DEF Event
<1>11. Sound(server', client') /\ Kept(server', client')
  BY <1>0, <1>8, <1>9, <1>10, HandedOver
<1> QED
  BY <1>9, <1>11 DEF IInv

-----------------------------------------------------------------------------
(* What a client receives.                                                  *)

LEMMA ReceivedKeeps ==
    ASSUME NEW p \in Client, NEW top \in Nat, Ready(p, top), p.seq <= top, NEW m \in ToClient
    PROVE  LET w == Received(p, m)
           IN  /\ w \in Client /\ Ready(w, top)
               /\ w.seq = IF m.kind = "enter" THEN m.seq ELSE p.seq
               /\ \A i \in Ids : /\ ~Touches(m, i) => w.content[i] = p.content[i]
                                 /\ Touches(m, i) /\ m.kind = "set" => w.content[i] = m.data
               /\ \A q, n, c, i : FreshGrab(q, p, n, c, i) => FreshGrab(q, w, n, c, i)
<1> DEFINE w == Received(p, m)
<1>0. m.kind \in {"set", "grab", "enter", "leave"} /\ m.id \in Ids /\ m.seq \in Nat /\ m.data \in Value
  BY DEF ToClient
<1>1. CASE m.kind = "enter"
  <2>1. w = [p EXCEPT !.active = TRUE, !.seq = m.seq]
    BY <1>1 DEF Received
  <2> HIDE DEF w
  <2>2. /\ w \in Client /\ w.seq = m.seq /\ w.content = p.content
        /\ w.local = p.local /\ w.out = p.out
    BY <1>0, <2>1 DEF Client
  <2> QED
    BY <1>1, <2>2 DEF Ready, FreshGrab, Touches, w
<1>2. CASE m.kind = "leave"
  <2> DEFINE a == [p EXCEPT !.active = FALSE]
             x == SendClipboard(a, 0)
             y == SendClipboard(x, 1)
  <2>0. 0 \in Ids /\ 1 \in Ids
    BY DEF Ids, ClipboardEnd
  <2>1. w = y
    BY <1>2 DEF Received, AllIds
  <2>2. /\ a \in Client /\ a.seq = p.seq /\ a.content = p.content
        /\ a.local = p.local /\ a.out = p.out
    BY DEF Client
  <2> HIDE DEF w, a
  <2>3. Ready(a, top)
    BY <2>2 DEF Ready
  <2>4. /\ x \in Client /\ Ready(x, top) /\ x.seq = p.seq /\ x.content = p.content /\ x.out = p.out
        /\ \A i \in 1 .. Len(p.local) : i \in 1 .. Len(x.local) /\ x.local[i] = p.local[i]
    BY <2>0, <2>2, <2>3, SendClipboardReady
  <2> HIDE DEF x
  <2>5. /\ y \in Client /\ Ready(y, top) /\ y.seq = p.seq /\ y.content = p.content /\ y.out = p.out
        /\ \A i \in 1 .. Len(x.local) : i \in 1 .. Len(y.local) /\ y.local[i] = x.local[i]
    BY <2>0, <2>4, SendClipboardReady
  <2> HIDE DEF y
  <2>6. \A i \in 1 .. Len(p.local) : i \in 1 .. Len(y.local) /\ y.local[i] = p.local[i]
    BY <2>4, <2>5
  <2>7. ASSUME NEW q, NEW n, NEW c, NEW i, FreshGrab(q, p, n, c, i)
        PROVE  FreshGrab(q, y, n, c, i)
    BY <2>5, <2>6, <2>7 DEF FreshGrab
  <2>8. \A i : ~Touches(m, i)
    BY <1>2 DEF Touches
  <2> QED
    BY <1>2, <2>1, <2>5, <2>7, <2>8 DEF w
<1>3. CASE m.kind \in {"set", "grab"}
  <2> DEFINE d == IF m.kind = "set" THEN m.data ELSE Empty
             content == [p.content EXCEPT ![m.id] = d]
             own == [p.own EXCEPT ![m.id] = "no"]
  <2>1. w = [p EXCEPT !.content = content, !.own = own]
    BY <1>3 DEF Received
  <2>2. /\ content \in [Ids -> Value] /\ own \in [Ids -> {"no", "unsent", "sent"}]
        /\ content[m.id] = d /\ \A i \in Ids : i # m.id => content[i] = p.content[i]
    BY <1>0 DEF Client, Value
  <2> HIDE DEF w, content, own
  <2>3. /\ w \in Client /\ w.seq = p.seq /\ w.content = content
        /\ w.local = p.local /\ w.out = p.out
    BY <2>1, <2>2 DEF Client
  <2>4. ASSUME NEW i \in Ids
        PROVE  /\ ~Touches(m, i) => w.content[i] = p.content[i]
               /\ Touches(m, i) /\ m.kind = "set" => w.content[i] = m.data
    BY <1>3, <2>2, <2>3 DEF Touches
  <2>5. Ready(w, top) /\ \A q, n, c, i : FreshGrab(q, p, n, c, i) => FreshGrab(q, w, n, c, i)
    BY <2>3 DEF Ready, FreshGrab
  <2> QED
    BY <1>3, <2>3, <2>4, <2>5 DEF w
<1> QED
  BY <1>0, <1>1, <1>2, <1>3

LEMMA ClientReceiveKeeps ==
    ASSUME IInv, NEW c \in Clients, ClientReceive(c)
    PROVE  IInv'
<1> DEFINE s == server
           k == client
           p == client[c]
           o == server.out[c]
           m == Head(o)
           r == Tail(o)
           w == Received(p, m)
           out == [server.out EXCEPT ![c] = r]
           t == [server EXCEPT !.out = out]
           j == [client EXCEPT ![c] = w]
           top == server.seqNum
<1>0. /\ Sound(s, k) /\ Kept(s, k) /\ AllServed(s) /\ o # <<>>
      /\ s \in Server /\ k \in [Clients -> Client] /\ s.listed \subseteq Screens
  BY DEF IInv, ClientReceive, Sound, Typed, Server
<1>1. server' = t /\ client' = j
  BY DEF ClientReceive
<1>2. p \in Client /\ Ready(p, top) /\ top \in Nat /\ p.seq <= top /\ p.seq \in Nat
  <2>1. p \in Client /\ Ready(p, top) /\ top \in Nat /\ p.seq <= top
    BY <1>0, ReadyNow
  <2> QED
    BY <2>1 DEF Client
<1>3. o \in Seq(ToClient) /\ server.out \in [Clients -> Seq(ToClient)]
  BY <1>0 DEF Server
<1>4. m \in ToClient /\ r \in Seq(ToClient) /\ Shorter(o, r, m)
  BY <1>0, <1>3, Popped
<1>5. /\ w \in Client /\ Ready(w, top)
      /\ w.seq = IF m.kind = "enter" THEN m.seq ELSE p.seq
      /\ \A i \in Ids : /\ ~Touches(m, i) => w.content[i] = p.content[i]
                        /\ Touches(m, i) /\ m.kind = "set" => w.content[i] = m.data
      /\ \A q, n, i : FreshGrab(q, p, n, c, i) => FreshGrab(q, w, n, c, i)
  BY <1>2, <1>4, ReceivedKeeps
<1>6. /\ out \in [Clients -> Seq(ToClient)] /\ out[c] = r
      /\ \A d \in Clients : d # c => out[d] = server.out[d]
  BY <1>3, <1>4
<1>7. /\ j \in [Clients -> Client] /\ j[c] = w
      /\ \A d \in Clients : d # c => j[d] = k[d]
  BY <1>0, <1>5
<1>8. Increasing(o, p.seq, top)
  BY <1>0 DEF Sound, Numbered
<1> HIDE DEF p, o, m, r, w, out, j, top
<1>9. t \in Server /\ t.queue = s.queue /\ t.copy = s.copy /\ t.out = out
  BY <1>0, <1>6 DEF Server
<1>10. /\ t.shown = s.shown /\ t.unexpected = s.unexpected /\ t.data = s.data
       /\ t.dirty = s.dirty /\ t.content = s.content /\ t.listed = s.listed
       /\ t.active = s.active /\ t.seqNum = s.seqNum /\ t.owner = s.owner /\ t.seq = s.seq
       /\ t.screenSeq = s.screenSeq /\ t.forced = s.forced
  BY <1>0, <1>6 DEF Server
<1> HIDE DEF t
<1>11. /\ \A i \in 1 .. Len(r) : i + 1 \in 1 .. Len(o) /\ r[i] = o[i + 1]
       /\ \A i \in 1 .. Len(o) : i = 1 \/ (i - 1 \in 1 .. Len(r) /\ o[i] = r[i - 1])
       /\ 1 \in 1 .. Len(o) /\ o[1] = m
  BY <1>4 DEF Shorter
<1>12. w.seq \in Nat /\ p.seq <= w.seq /\ w.seq <= top
  BY <1>2, <1>4, <1>5, <1>8, <1>11 DEF Increasing, ToClient
<1>13. Increasing(r, w.seq, top)
  <2> SUFFICES ASSUME NEW i \in 1 .. Len(r), r[i].kind = "enter"
               PROVE  /\ w.seq <= r[i].seq /\ r[i].seq <= top
                      /\ \A x \in i + 1 .. Len(r) : r[x].kind = "enter" => r[i].seq <= r[x].seq
    BY DEF Increasing
  <2>1. i + 1 \in 1 .. Len(o) /\ r[i] = o[i + 1] /\ i + 1 \in 1 + 1 .. Len(o)
    BY <1>11
  <2>2. w.seq <= r[i].seq
    <3>1. CASE m.kind = "enter"
      BY <1>5, <1>8, <1>11, <2>1, <3>1 DEF Increasing
    <3>2. CASE m.kind # "enter"
      BY <1>5, <1>8, <2>1, <3>2 DEF Increasing
    <3> QED
      BY <3>1, <3>2
  <2>3. ASSUME NEW x \in i + 1 .. Len(r), r[x].kind = "enter"
        PROVE  r[i].seq <= r[x].seq
    <3>1. x + 1 \in (i + 1) + 1 .. Len(o) /\ r[x] = o[x + 1]
      BY <1>4 DEF Shorter
    <3> QED
      BY <1>8, <2>1, <2>3, <3>1 DEF Increasing
  <2> QED
    BY <1>8, <2>1, <2>2, <2>3 DEF Increasing
<1>14. Sound(t, j)
  <2>1. Typed(t, j)
    BY <1>0, <1>7, <1>9, <1>10 DEF Sound, Typed
  <2>2. Limited(t, j)
    BY <1>0, <1>5, <1>7, <1>9, <1>10 DEF Sound, Limited, Ready, Fine, Proper
  <2>a. UpTo(w.out, top) /\ UpTo(w.local, top)
    BY <1>5 DEF Ready, Fine, Proper, UpTo
  <2>3. ASSUME NEW d \in Clients
        PROVE  /\ j[d].seq <= top /\ UpTo(j[d].out, top) /\ UpTo(j[d].local, top)
               /\ Increasing(out[d], j[d].seq, top)
    <3>1. CASE d = c
      BY <1>6, <1>7, <1>12, <1>13, <2>a, <3>1
    <3>2. CASE d # c
      BY <1>0, <1>6, <1>7, <3>2 DEF Sound, Numbered, top
    <3> QED
      BY <3>1, <3>2
  <2>4. Numbered(t, j)
    BY <1>0, <1>9, <1>10, <2>3 DEF Sound, Numbered, top
  <2>5. Known(t)
    BY <1>0, <1>9, <1>10 DEF Sound, Known
  <2> QED
    BY <2>1, <2>2, <2>4, <2>5 DEF Sound
<1>15. Entered(s, k) => Entered(t, j)
  <2>1. CASE s.active = c
    <3>1. ASSUME NEW i \in 1 .. Len(o), Enter(o[i], top)
          PROVE  w.seq >= top \/ \E x \in 1 .. Len(r) : Enter(r[x], top)
      <4>1. CASE i = 1
        BY <1>5, <1>11, <3>1, <4>1 DEF Enter
      <4>2. CASE i # 1
        BY <1>11, <3>1, <4>2
      <4> QED
        BY <4>1, <4>2
    <3>2. p.seq >= top => w.seq >= top
      BY <1>2, <1>12
    <3> QED
      BY <1>6, <1>7, <1>9, <1>10, <2>1, <3>1, <3>2 DEF Entered, top, p, o
  <2>2. CASE s.active # c
    <3>1. s.active # Primary => s.active \in Clients
      BY <1>0 DEF Sound, Typed, Screens
    <3> QED
      BY <1>6, <1>7, <1>9, <1>10, <2>2, <3>1 DEF Entered
  <2> QED
    BY <2>1, <2>2
<1>16. ASSUME NEW i \in Ids
       PROVE  (Here(s, i) => Here(t, i)) /\ (Served(s, i) => Served(t, i))
  BY <1>9, <1>10 DEF Here, Served
<1>17. ASSUME NEW i \in Ids, NEW d \in s.listed \ {Primary}
       PROVE  UpToDate(s, k, d, i) => UpToDate(t, j, d, i)
  <2>0. d \in Clients
    BY <1>0 DEF Screens
  <2>1. CASE d # c
    BY <1>6, <1>7, <1>9, <1>10, <2>0, <2>1 DEF UpToDate
  <2>2. CASE d = c
    <3> SUFFICES ASSUME There(s.queue, o, s.data[i], s.seq[i], p, c, i)
                 PROVE  There(s.queue, r, s.data[i], s.seq[i], w, c, i)
      BY <1>6, <1>7, <1>9, <1>10, <2>2 DEF UpToDate, o, p
    <3>1. s.seq[i] \in Nat
      BY <1>0 DEF Server
    <3> QED
      BY <1>2, <1>4, <1>5, <1>12, <3>1, Taken
  <2> QED
    BY <2>1, <2>2
<1>18. Kept(t, j) /\ AllServed(t)
  BY <1>0, <1>10, <1>15, <1>16, <1>17 DEF Kept, AllServed
<1> QED
  BY <1>1, <1>14, <1>18 DEF IInv

-----------------------------------------------------------------------------
(* Users and connections.                                                   *)

LEMMA CopyOnPrimaryKeeps ==
    ASSUME ClipboardAssumption, IInv, CopyOnPrimary
    PROVE  IInv'
<1> DEFINE s == server
           k == client
<1>0. /\ Sound(s, k) /\ Kept(s, k) /\ AllServed(s) /\ client' = client
      /\ s \in Server /\ Primary \in s.listed /\ s.queue \in Seq(EventType)
      /\ s.screenSeq \in Nat /\ s.screenSeq <= s.seqNum
  BY DEF IInv, CopyOnPrimary, Sound, Typed, Server, Numbered
<1>1. PICK id \in Ids, d \in Data :
        server' = Post([server EXCEPT !.content[id] = d],
                       Event("grabbed", Primary, id, server.screenSeq, Empty))
  BY DEF CopyOnPrimary, ClipboardAssumption
<1> DEFINE e == Event("grabbed", Primary, id, s.screenSeq, Empty)
           q == Append(s.queue, e)
           content == [s.content EXCEPT ![id] = d]
           t == [s EXCEPT !.content = content, !.queue = q]
<1>2. server' = t
  BY <1>0, <1>1 DEF Post, Server
<1>3. /\ e \in EventType /\ e.kind = "grabbed" /\ e.who = Primary /\ e.id = id
      /\ e.seq <= s.seqNum
  BY <1>0 DEF EventType, Event, Screens, Value
<1>4. content \in [Ids -> Value] /\ \A i \in Ids : i # id => content[i] = s.content[i]
  BY <1>0 DEF Server, Value
<1> HIDE DEF e
<1>5. /\ q \in Seq(EventType) /\ Longer(s.queue, q, e)
      /\ \A i : i # id => (Ahead(q, i) <=> Ahead(s.queue, i))
  BY <1>0, <1>3, Posting
<1> HIDE DEF q, content
<1>6. t \in Server
  BY <1>0, <1>4, <1>5 DEF Server
<1>7. /\ t.shown = s.shown /\ t.unexpected = s.unexpected /\ t.data = s.data
      /\ t.dirty = s.dirty /\ t.content = content /\ t.listed = s.listed
      /\ t.active = s.active /\ t.seqNum = s.seqNum /\ t.owner = s.owner /\ t.seq = s.seq
      /\ t.screenSeq = s.screenSeq /\ t.out = s.out /\ t.forced = s.forced
      /\ t.queue = q /\ t.copy = s.copy
  BY <1>0 DEF Server
<1> HIDE DEF t
<1>8. \A i \in 1 .. Len(q) : (i \in 1 .. Len(s.queue) /\ q[i] = s.queue[i]) \/ q[i] = e
  <2>1. \A i \in 1 .. Len(q) : i \in 1 .. Len(s.queue) \/ i = Len(s.queue) + 1
    BY <1>5 DEF Longer
  <2> QED
    BY <1>5, <2>1 DEF Longer
<1>9. UpTo(q, s.seqNum) /\ Known(t)
  BY <1>0, <1>3, <1>7, <1>8 DEF Sound, Numbered, UpTo, Known
<1>10. Sound(t, k)
  <2>1. Typed(t, k) /\ Limited(t, k)
    BY <1>0, <1>6, <1>7 DEF Sound, Typed, Limited
  <2>2. Numbered(t, k)
    BY <1>0, <1>7, <1>9 DEF Sound, Numbered
  <2> QED
    BY <1>9, <2>1, <2>2 DEF Sound
<1>11. Ahead(q, id)
  <2>1. Len(q) \in 1 .. Len(q) /\ q[Len(q)] = e
    BY <1>5 DEF Longer
  <2> QED
    BY <1>3, <2>1 DEF Ahead
<1>12. ASSUME NEW i \in Ids
       PROVE  (Here(s, i) => Here(t, i)) /\ (Served(s, i) => Served(t, i))
  BY <1>4, <1>5, <1>7, <1>11 DEF Here, Served
<1>13. ASSUME NEW i \in Ids, NEW c \in s.listed \ {Primary}
       PROVE  UpToDate(s, k, c, i) => UpToDate(t, k, c, i)
  <2>1. ~SendFor(e, c, i)
    BY <1>3 DEF SendFor
  <2> QED
    BY <1>5, <1>7, <2>1, PostOther DEF UpToDate
<1>14. Kept(t, k) /\ AllServed(t)
  BY <1>0, <1>7, <1>12, <1>13 DEF Kept, AllServed, Entered
<1> QED
  BY <1>0, <1>2, <1>10, <1>14 DEF IInv

\* The events of the proxy of c when it is deleted.
Orphans(q, c) == [i \in DOMAIN q |-> IF q[i].who = c THEN Orphan(q[i]) ELSE q[i]]

LEMMA Orphaned ==
    ASSUME ClipboardAssumption, NEW q \in Seq(EventType), NEW c \in Clients
    PROVE  /\ Orphans(q, c) \in Seq(EventType) /\ Len(Orphans(q, c)) = Len(q)
           /\ \A i \in 1 .. Len(q) :
                IF q[i].who = c THEN Orphans(q, c)[i].who = Empty /\ Orphans(q, c)[i].seq = q[i].seq
                ELSE Orphans(q, c)[i] = q[i]
<1> DEFINE r == Orphans(q, c)
<1>1. Len(q) \in Nat /\ DOMAIN q = 1 .. Len(q)
  OBVIOUS
<1>2. ASSUME NEW e \in EventType
      PROVE  Orphan(e) \in EventType /\ Orphan(e).who = Empty /\ Orphan(e).seq = e.seq
  BY <1>2 DEF Orphan, EventType
<1>3. \A i \in 1 .. Len(q) : q[i] \in EventType
  OBVIOUS
<1>4. r = [i \in 1 .. Len(q) |-> IF q[i].who = c THEN Orphan(q[i]) ELSE q[i]]
  BY <1>1 DEF Orphans
<1>5. r \in [1 .. Len(q) -> EventType]
  BY <1>2, <1>3, <1>4
<1> HIDE DEF r
<1>6. r \in Seq(EventType) /\ Len(r) = Len(q)
  BY <1>1, <1>5
<1> QED
  BY <1>2, <1>3, <1>4, <1>6 DEF r

\* The chunks that wait for deleted proxies when one of them has a successor.
Adopts(q, c, reused) == IF reused THEN [i \in DOMAIN q |-> Adopted(q[i], c)] ELSE q

LEMMA AdoptedOnly ==
    ASSUME ClipboardAssumption, NEW q \in Seq(EventType), NEW c \in Clients, NEW reused \in BOOLEAN
    PROVE  /\ Adopts(q, c, reused) \in Seq(EventType) /\ Len(Adopts(q, c, reused)) = Len(q)
           /\ \A i \in 1 .. Len(q) :
                \/ Adopts(q, c, reused)[i] = q[i]
                \/ q[i].who = Empty /\ Adopts(q, c, reused)[i].who = c /\ Adopts(q, c, reused)[i].seq = 0
<1> DEFINE r == [i \in DOMAIN q |-> Adopted(q[i], c)]
<1>1. Len(q) \in Nat /\ DOMAIN q = 1 .. Len(q)
  OBVIOUS
<1>2. ASSUME NEW e \in EventType
      PROVE  /\ Adopted(e, c) \in EventType
             /\ Adopted(e, c) = e \/ (e.who = Empty /\ Adopted(e, c).who = c /\ Adopted(e, c).seq = 0)
  <2>1. e.id \in Ids /\ e.data \in Value /\ c \in Screens
    BY DEF EventType, Screens
  <2>2. Event("send", c, e.id, 0, e.data) \in EventType
    BY <2>1 DEF Event, EventType
  <2> QED
    BY <2>2 DEF Adopted, Event
<1>3. \A i \in 1 .. Len(q) : q[i] \in EventType
  OBVIOUS
<1>4. r = [i \in 1 .. Len(q) |-> Adopted(q[i], c)]
  BY <1>1
<1> HIDE DEF r
<1>5. r \in [1 .. Len(q) -> EventType]
  BY <1>2, <1>3, <1>4
<1>6. r \in Seq(EventType) /\ Len(r) = Len(q)
  BY <1>1, <1>5
<1>7. \A i \in 1 .. Len(q) : r[i] = q[i] \/ (q[i].who = Empty /\ r[i].who = c /\ r[i].seq = 0)
  BY <1>2, <1>3, <1>4
<1>8. Adopts(q, c, reused) = IF reused THEN r ELSE q
  BY DEF Adopts, r
<1> QED
  BY <1>6, <1>7, <1>8

LEMMA ConnectKeeps ==
    ASSUME ClipboardAssumption, IInv, NEW c \in Clients, Connect(c)
    PROVE  IInv'
<1> DEFINE s == server
           k == client
<1>0. /\ Sound(s, k) /\ Kept(s, k) /\ AllServed(s)
      /\ s \in Server /\ k \in [Clients -> Client] /\ s.listed \subseteq Screens
      /\ s.active \in s.listed /\ c \notin s.listed /\ Primary \in s.listed
      /\ c # Primary /\ c # Empty /\ Empty \notin Big /\ Empty # Primary
  BY DEF IInv, Connect, Sound, Typed, Server, ClipboardAssumption
<1>17. PICK reused \in BOOLEAN :
      server' = [server EXCEPT !.listed = @ \cup {c}, !.out[c] = <<>>,
                  !.dirty[c] = [id \in Ids |-> TRUE], !.copy[c] = Blank,
                  !.queue = IF reused THEN [i \in DOMAIN @ |-> Adopted(@[i], c)] ELSE @]
  BY DEF Connect
<1> DEFINE listed == s.listed \cup {c}
           out == [s.out EXCEPT ![c] = <<>>]
           dirty == [s.dirty EXCEPT ![c] = [id \in Ids |-> TRUE]]
           copy == [s.copy EXCEPT ![c] = Blank]
           own == [id \in Ids |-> "no"]
           q == Adopts(s.queue, c, reused)
           t == [s EXCEPT !.listed = listed, !.out = out, !.dirty = dirty, !.copy = copy,
                          !.queue = q]
           w == [k[c] EXCEPT !.own = own, !.seq = 0, !.local = <<>>, !.out = <<>>]
           j == [k EXCEPT ![c] = w]
<1>1. server' = t /\ client' = j
  BY <1>17 DEF Connect, Adopts
<1>15. /\ q \in Seq(EventType) /\ Len(q) = Len(s.queue)
      /\ \A i \in 1 .. Len(s.queue) : q[i] = s.queue[i] \/ (s.queue[i].who = Empty /\ q[i].who = c /\ q[i].seq = 0)
  <2>1. s.queue \in Seq(EventType)
    BY <1>0 DEF Server
  <2> QED
    BY <2>1, AdoptedOnly
<1>2. /\ listed \subseteq Screens
      /\ out \in [Clients -> Seq(ToClient)] /\ out[c] = <<>>
      /\ \A d \in Clients : d # c => out[d] = s.out[d]
      /\ dirty \in [Screens -> [Ids -> BOOLEAN]] /\ (\A i \in Ids : dirty[c][i])
      /\ \A d \in Screens : d # c => dirty[d] = s.dirty[d]
  BY <1>0 DEF Server, Screens
<1>3. /\ copy \in [Clients -> [Ids -> Value]]
      /\ \A d \in Clients, i \in Ids : copy[d][i] \in {s.copy[d][i], Empty}
  BY <1>0 DEF Server, Blank, Value
<1>4. own \in [Ids -> {"no", "unsent", "sent"}] /\ k[c] \in Client
  BY <1>0
<1> HIDE DEF listed, out, dirty, copy, own, q
<1>5. w \in Client /\ w.seq = 0 /\ w.local = <<>> /\ w.out = <<>>
  <2>1. <<>> \in Seq(LocalType) /\ <<>> \in Seq(FromClient) /\ 0 \in Nat
    OBVIOUS
  <2> QED
    BY <1>4, <2>1 DEF Client
<1> HIDE DEF w
<1>6. j \in [Clients -> Client] /\ j[c] = w /\ \A d \in Clients : d # c => j[d] = k[d]
  BY <1>0, <1>5
<1> HIDE DEF j
<1>7. t \in Server
  BY <1>0, <1>2, <1>3, <1>15 DEF Server
<1>8. /\ t.shown = s.shown /\ t.unexpected = s.unexpected /\ t.data = s.data
      /\ t.dirty = dirty /\ t.content = s.content /\ t.listed = listed
      /\ t.active = s.active /\ t.seqNum = s.seqNum /\ t.owner = s.owner /\ t.seq = s.seq
      /\ t.screenSeq = s.screenSeq /\ t.out = out /\ t.forced = s.forced
      /\ t.queue = q /\ t.copy = copy
  BY <1>0 DEF Server
<1> HIDE DEF t
<1>9. Sound(t, j)
  <2>1. Typed(t, j)
    BY <1>0, <1>6, <1>7, <1>8 DEF Sound, Typed, listed
  <2>2. Limited(t, j)
    <3>1. \A d \in Clients, i \in Ids : copy[d][i] \notin Big
      BY <1>0, <1>3 DEF Sound, Limited
    <3>2. \A i \in 1 .. Len(<<>>) : FALSE
      OBVIOUS
    <3> QED
      BY <1>0, <1>5, <1>6, <1>8, <3>1, <3>2 DEF Sound, Limited
  <2>3. ASSUME NEW d \in Clients
        PROVE  /\ j[d].seq <= s.seqNum /\ UpTo(j[d].out, s.seqNum) /\ UpTo(j[d].local, s.seqNum)
               /\ Increasing(out[d], j[d].seq, s.seqNum)
    <3>1. CASE d = c
      <4>1. s.seqNum \in Nat
        BY <1>0 DEF Server
      <4> QED
        BY <1>2, <1>5, <1>6, <3>1, <4>1 DEF UpTo, Increasing
    <3>2. CASE d # c
      BY <1>0, <1>2, <1>6, <3>2 DEF Sound, Numbered
    <3> QED
      BY <3>1, <3>2
  <2>6. UpTo(q, s.seqNum)
    <3>1. s.seqNum \in Nat
      BY <1>0 DEF Server
    <3> QED
      BY <1>0, <1>15, <3>1 DEF Sound, Numbered, UpTo
  <2>4. Numbered(t, j)
    BY <1>0, <1>8, <2>3, <2>6 DEF Sound, Numbered
  <2>5. Known(t)
    BY <1>0, <1>8, <1>15 DEF Sound, Known, listed
  <2> QED
    BY <2>1, <2>2, <2>4, <2>5 DEF Sound
<1>10. s.active \in Screens /\ s.active # c /\ Primary \in Screens
  BY <1>0
<1>11. Entered(s, k) => Entered(t, j)
  <2>1. s.active # Primary => s.active \in Clients
    BY <1>10 DEF Screens
  <2> QED
    BY <1>2, <1>6, <1>8, <1>10, <2>1 DEF Entered
<1>16. \A i : Ahead(q, i) <=> Ahead(s.queue, i)
  BY <1>0, <1>15 DEF Ahead
<1>12. ASSUME NEW i \in Ids
       PROVE  (Here(s, i) => Here(t, i)) /\ (Served(s, i) => Served(t, i))
  BY <1>0, <1>2, <1>8, <1>10, <1>16 DEF Here, Served
<1>13. ASSUME NEW i \in Ids, NEW d \in listed \ {Primary}
       PROVE  (d \in s.listed => UpToDate(s, k, d, i)) => UpToDate(t, j, d, i)
  <2>1. CASE d = c
    BY <1>2, <1>8, <2>1 DEF UpToDate
  <2>2. CASE d # c
    <3>1. d \in Clients /\ d \in Screens /\ d \in s.listed
      BY <1>0, <2>2 DEF Screens, listed
    <3>2. Apart(s.queue, q, d)
      BY <1>0, <1>15, <2>2, <3>1 DEF Apart, ClipboardAssumption
    <3> QED
      BY <1>2, <1>6, <1>8, <2>2, <3>1, <3>2, Forgetting DEF UpToDate
  <2> QED
    BY <2>1, <2>2
<1>14. Kept(t, j) /\ AllServed(t)
  BY <1>0, <1>8, <1>11, <1>12, <1>13 DEF Kept, AllServed
<1> QED
  BY <1>1, <1>9, <1>14 DEF IInv

LEMMA DropKeeps ==
    ASSUME ClipboardAssumption, IInv, NEW c \in Clients, Drop(c)
    PROVE  IInv'
<1> DEFINE s == server
           k == client
<1>0. /\ Sound(s, k) /\ Kept(s, k) /\ AllServed(s)
      /\ s \in Server /\ k \in [Clients -> Client] /\ s.listed \subseteq Screens
      /\ s.active \in s.listed /\ Primary \in s.listed
      /\ c # Primary /\ Empty # Primary /\ Empty \notin Clients
  BY DEF IInv, Drop, Sound, Typed, Server, ClipboardAssumption
<1>10. PICK ended \in BOOLEAN :
      client' = [client EXCEPT ![c].local = <<>>, ![c].out = <<>>, ![c].active = @ /\ ~ended]
  BY DEF Drop
<1> DEFINE listed == s.listed \ {c}
           out == [s.out EXCEPT ![c] = <<>>]
           active == IF s.active = c THEN Primary ELSE s.active
           forced == (s.forced \/ s.active = c)
           screenSeq == IF s.active = c THEN s.seqNum ELSE s.screenSeq
           filling == IF s.filling = c THEN Empty ELSE s.filling
           q == Orphans(s.queue, c)
           still == (k[c].active /\ ~ended)
           t == [s EXCEPT !.listed = listed, !.out = out, !.active = active, !.forced = forced,
                          !.screenSeq = screenSeq, !.filling = filling, !.queue = q]
           w == [k[c] EXCEPT !.local = <<>>, !.out = <<>>, !.active = still]
           j == [k EXCEPT ![c] = w]
<1>1. server' = t /\ client' = j
  <2>1. server' = t
    BY DEF Drop, Orphans
  <2>2. client' = j
    BY <1>10
  <2> QED
    BY <2>1, <2>2
<1>2. /\ listed \subseteq Screens /\ active \in listed /\ active \in Screens
      /\ forced \in BOOLEAN /\ screenSeq \in Nat /\ screenSeq <= s.seqNum
      /\ filling \in Clients \cup {Empty}
  BY <1>0 DEF Server, Sound, Numbered
<1>3. /\ out \in [Clients -> Seq(ToClient)] /\ out[c] = <<>>
      /\ \A d \in Clients : d # c => out[d] = s.out[d]
  BY <1>0 DEF Server
<1>4. /\ q \in Seq(EventType) /\ Len(q) = Len(s.queue)
      /\ \A i \in 1 .. Len(s.queue) :
           IF s.queue[i].who = c THEN q[i].who = Empty /\ q[i].seq = s.queue[i].seq
           ELSE q[i] = s.queue[i]
  <2>1. s.queue \in Seq(EventType)
    BY <1>0 DEF Server
  <2> QED
    BY <2>1, Orphaned
<1>5. k[c] \in Client
  BY <1>0
<1>6. w \in Client /\ w.seq = k[c].seq /\ w.local = <<>> /\ w.out = <<>>
  <2>1. <<>> \in Seq(LocalType) /\ <<>> \in Seq(FromClient) /\ still \in BOOLEAN
    BY <1>5 DEF Client
  <2> HIDE DEF still
  <2> QED
    BY <1>5, <2>1 DEF Client
<1> HIDE DEF w
<1>7. j \in [Clients -> Client] /\ j[c] = w /\ \A d \in Clients : d # c => j[d] = k[d]
  BY <1>0, <1>6
<1> HIDE DEF j, listed, out, active, forced, screenSeq, filling, q
<1>8. t \in Server
  BY <1>0, <1>2, <1>3, <1>4 DEF Server
<1>9. /\ t.shown = s.shown /\ t.unexpected = s.unexpected /\ t.data = s.data
      /\ t.dirty = s.dirty /\ t.content = s.content /\ t.listed = listed
      /\ t.active = active /\ t.seqNum = s.seqNum /\ t.owner = s.owner /\ t.seq = s.seq
      /\ t.screenSeq = screenSeq /\ t.out = out /\ t.forced = forced
      /\ t.queue = q /\ t.copy = s.copy
  BY <1>0 DEF Server
<1> HIDE DEF t
<1>12. Sound(t, j)
  <2>0. s.seqNum \in Nat
    BY <1>0 DEF Server
  <2>1. Typed(t, j)
    BY <1>0, <1>2, <1>7, <1>8, <1>9 DEF Typed, listed
  <2>2. Limited(t, j)
    <3>1. \A i \in 1 .. Len(<<>>) : FALSE
      OBVIOUS
    <3> QED
      BY <1>0, <1>6, <1>7, <1>9, <3>1 DEF Sound, Limited
  <2>3. ASSUME NEW d \in Clients
        PROVE  /\ j[d].seq <= s.seqNum /\ UpTo(j[d].out, s.seqNum) /\ UpTo(j[d].local, s.seqNum)
               /\ Increasing(out[d], j[d].seq, s.seqNum)
    <3>1. CASE d = c
      <4>1. k[c].seq <= s.seqNum
        BY <1>0 DEF Sound, Numbered
      <4> QED
        BY <1>3, <1>6, <1>7, <3>1, <4>1 DEF UpTo, Increasing
    <3>2. CASE d # c
      BY <1>0, <1>3, <1>7, <3>2 DEF Sound, Numbered
    <3> QED
      BY <3>1, <3>2
  <2>4. UpTo(q, s.seqNum)
    BY <1>0, <1>4, <2>0 DEF Sound, Numbered, UpTo
  <2>5. Numbered(t, j)
    BY <1>0, <1>2, <1>9, <2>3, <2>4 DEF Sound, Numbered
  <2>6. Known(t)
    BY <1>0, <1>4, <1>9 DEF Sound, Known, listed
  <2> QED
    BY <2>1, <2>2, <2>5, <2>6 DEF Sound
<1>13. \A i : Ahead(q, i) <=> Ahead(s.queue, i)
  BY <1>0, <1>4 DEF Ahead
<1>14. Entered(s, k) => Entered(t, j)
  <2>1. CASE s.active = c
    BY <1>9, <2>1 DEF Entered, active
  <2>2. CASE s.active # c
    <3>1. s.active # Primary => s.active \in Clients
      BY <1>0 DEF Screens
    <3>2. t.active = s.active
      BY <1>9, <2>2 DEF active
    <3> QED
      BY <1>3, <1>7, <1>9, <2>2, <3>1, <3>2 DEF Entered
  <2> QED
    BY <2>1, <2>2
<1>15. ASSUME NEW i \in Ids
       PROVE  Here(s, i) => Here(t, i)
  BY <1>9, <1>13 DEF Here
<1>16. ASSUME NEW i \in Ids
       PROVE  Served(s, i) => Served(t, i)
  <2>1. CASE s.active = c
    <3>1. t.forced
      BY <1>9, <2>1 DEF forced
    <3> QED
      BY <3>1 DEF Served
  <2>2. CASE s.active # c
    <3>1. t.active = s.active /\ (s.forced => t.forced)
      BY <1>9, <2>2 DEF active, forced
    <3> QED
      BY <1>9, <1>13, <3>1 DEF Served
  <2> QED
    BY <2>1, <2>2
<1>17. ASSUME NEW i \in Ids, NEW d \in listed \ {Primary}
       PROVE  UpToDate(s, k, d, i) => UpToDate(t, j, d, i)
  <2>1. d \in Clients /\ d # c
    BY <1>0 DEF Screens, listed
  <2>2. t.out[d] = s.out[d] /\ j[d] = k[d]
    BY <1>3, <1>7, <1>9, <2>1
  <2>3. Apart(s.queue, q, d)
    BY <1>0, <1>4, <2>1 DEF Apart
  <2> QED
    BY <1>9, <2>1, <2>2, <2>3, Forgetting DEF UpToDate
<1>18. Kept(t, j) /\ AllServed(t)
  BY <1>0, <1>9, <1>14, <1>15, <1>16, <1>17 DEF Kept, AllServed, listed
<1> QED
  BY <1>1, <1>12, <1>18 DEF IInv

-----------------------------------------------------------------------------
(* The theorems.                                                            *)

LEMMA InitHolds == ASSUME ClipboardAssumption, Init PROVE IInv
<1> DEFINE s == server
           k == client
<1>0. 0 \in Ids /\ Blank \in [Ids -> Value] /\ Primary \in Screens
  BY DEF Ids, ClipboardEnd, Blank, Value, Screens
<1>1. s \in Server
  <2>1. /\ [id \in Ids |-> Primary] \in [Ids -> Screens] /\ [id \in Ids |-> 0] \in [Ids -> Nat]
        /\ [c \in Screens |-> [id \in Ids |-> c # Primary]] \in [Screens -> [Ids -> BOOLEAN]]
        /\ [c \in Clients |-> Blank] \in [Clients -> [Ids -> Value]]
        /\ [c \in Clients |-> <<>>] \in [Clients -> Seq(ToClient)]
        /\ <<>> \in Seq(EventType)
    BY <1>0
  <2> QED
    BY <1>0, <2>1 DEF Init, Server
<1>2. k \in [Clients -> Client]
  <2>1. /\ [id \in Ids |-> "no"] \in [Ids -> {"no", "unsent", "sent"}]
        /\ <<>> \in Seq(FromClient) /\ <<>> \in Seq(LocalType)
    OBVIOUS
  <2>2. [content |-> Blank, own |-> [id \in Ids |-> "no"], data |-> Blank, active |-> FALSE,
         seq |-> 0, local |-> <<>>, out |-> <<>>] \in Client
    BY <1>0, <2>1 DEF Client
  <2> QED
    BY <2>2 DEF Init
<1>3. /\ s.listed = Screens /\ s.active = Primary /\ s.queue = <<>> /\ s.screenSeq = 0
      /\ s.seqNum = 0 /\ \A id \in Ids : /\ s.seq[id] = 0 /\ s.shown[id] = Empty
                                         /\ s.data[id] = Empty /\ s.content[id] = Empty
                                         /\ s.owner[id] = Primary
                                         /\ \A c \in Screens : s.dirty[c][id] <=> c # Primary
  BY DEF Init, Blank
<1>4. \A c \in Clients : /\ s.out[c] = <<>> /\ k[c].out = <<>> /\ k[c].local = <<>>
                          /\ k[c].seq = 0 /\ \A id \in Ids : s.copy[c][id] = Empty
  BY DEF Init, Blank
<1>5. Empty \notin Big /\ \A i \in 1 .. Len(<<>>) : FALSE
  BY DEF ClipboardAssumption
<1>6. Sound(s, k)
  <2>1. Typed(s, k)
    BY <1>0, <1>1, <1>2, <1>3 DEF Typed
  <2>2. Limited(s, k)
    BY <1>3, <1>4, <1>5 DEF Limited
  <2>3. Numbered(s, k)
    BY <1>3, <1>4, <1>5 DEF Numbered, UpTo, Increasing
  <2>4. Known(s)
    BY <1>3, <1>5 DEF Known
  <2> QED
    BY <2>1, <2>2, <2>3, <2>4 DEF Sound
<1>7. Kept(s, k)
  <2>1. Entered(s, k)
    BY <1>3 DEF Entered
  <2>2. \A id \in Ids : Here(s, id)
    BY <1>3, <1>5 DEF Here
  <2>3. \A id \in Ids, c \in s.listed \ {Primary} : UpToDate(s, k, c, id)
    BY <1>3 DEF UpToDate
  <2> QED
    BY <2>1, <2>2, <2>3 DEF Kept
<1>8. AllServed(s)
  BY <1>0, <1>3 DEF AllServed, Served
<1> QED
  BY <1>6, <1>7, <1>8 DEF IInv

\* Every reachable state has the invariant, of which the properties are a part:
\* types (Sound), dirty flags (Kept) and the active screen (AllServed).
THEOREM InvariantHolds == Spec => []IInv
<1>1. Init => IInv
  BY ClipboardAssumption, InitHolds
<1>2. IInv /\ [Next]_vars => IInv'
  <2> SUFFICES ASSUME IInv, [Next]_vars
               PROVE  IInv'
    OBVIOUS
  <2>1. CASE SwitchScreen
    BY <2>1, ClipboardAssumption, SwitchKeeps
  <2>2. CASE Dispatch
    BY <2>2, ClipboardAssumption, DispatchKeeps
  <2>3. CASE CopyOnPrimary
    BY <2>3, ClipboardAssumption, CopyOnPrimaryKeeps
  <2>4. ASSUME NEW c \in Clients, ServerReceive(c)
        PROVE  IInv'
    BY <2>4, ClipboardAssumption, ServerReceiveKeeps
  <2>5. ASSUME NEW c \in Clients, ClientDispatch(c)
        PROVE  IInv'
    BY <2>5, ClientDispatchKeeps
  <2>6. ASSUME NEW c \in Clients, ClientReceive(c)
        PROVE  IInv'
    BY <2>6, ClientReceiveKeeps
  <2>7. ASSUME NEW c \in Clients, CopyOnClient(c)
        PROVE  IInv'
    BY <2>7, ClipboardAssumption, CopyOnClientKeeps
  <2>8. ASSUME NEW c \in Clients, Connect(c)
        PROVE  IInv'
    BY <2>8, ClipboardAssumption, ConnectKeeps
  <2>9. ASSUME NEW c \in Clients, Drop(c)
        PROVE  IInv'
    BY <2>9, ClipboardAssumption, DropKeeps
  <2>10. CASE UNCHANGED vars
    BY <2>10 DEF vars, IInv
  <2> QED
    BY <2>1, <2>2, <2>3, <2>4, <2>5, <2>6, <2>7, <2>8, <2>9, <2>10 DEF Next
<1> QED
  BY <1>1, <1>2, PTL DEF Spec

\* The active screen has been sent what the server has, but for the exceptions
\* that the property names (Server::switchScreen, onClipboardChanged).
THEOREM ActiveScreenIsServed == Spec => []ActiveIsServed
<1>1. IInv => ActiveIsServed
  BY DEF IInv, AllServed, Served, Ahead, ActiveIsServed, GrabQueued
<1> QED
  BY <1>1, InvariantHolds, PTL

\* A screen that the server takes for up to date, and to and from which nothing
\* is on its way, has the clipboard that the server has.
THEOREM CleanScreensAreCurrent == Spec => []CleanIsCurrent
<1>1. IInv => CleanIsCurrent
  <2> SUFFICES ASSUME IInv, ~server.unexpected, NEW c \in server.listed, NEW id \in Ids,
                      Settled(c), ~server.dirty[c][id], server.owner[id] # c
               PROVE  ContentOf(c)[id] = server.data[id]
    BY DEF CleanIsCurrent
  <2>1. Kept(server, client) /\ server \in Server
    BY DEF IInv, Sound, Typed
  <2>2. \A i \in 1 .. Len(server.queue) : server.queue[i].who # c
    BY DEF Settled
  <2>3. CASE c = Primary
    <3>1. ~Ahead(server.queue, id)
      BY <2>2, <2>3 DEF Ahead
    <3> QED
      BY <2>1, <2>3, <3>1 DEF Kept, Here, ContentOf
  <2>4. CASE c # Primary
    <3>1. There(server.queue, server.out[c], server.data[id], server.seq[id], client[c], c, id)
      BY <2>1, <2>4 DEF Kept, UpToDate
    <3>2. /\ server.out[c] = <<>> /\ client[c].local = <<>> /\ client[c].out = <<>>
          /\ \A i \in 1 .. Len(<<>>) : FALSE
      BY <2>4 DEF Settled
    <3>3. ~Coming(server.queue, c, id)
      BY <2>2 DEF Coming, SendFor
    <3>4. Untouched(server.out[c], id)
      BY <3>2 DEF Untouched
    <3>5. ~FreshGrab(server.queue, client[c], server.seq[id], c, id)
      BY <2>2, <3>2 DEF FreshGrab
    <3> QED
      BY <2>4, <3>1, <3>3, <3>4, <3>5 DEF There, ContentOf
  <2> QED
    BY <2>3, <2>4
<1> QED
  BY <1>1, InvariantHolds, PTL

-----------------------------------------------------------------------------
(* The invariant about uploads.  s is the server, k its clients, p one of   *)
(* them, u the number of its last upload of a clipboard.                    *)

\* Elements of a queue that are in a set, and the last of them.
Has(q, P) == \E i \in 1 .. Len(q) : q[i] \in P
EndsIn(q, P, Q) ==
    \A i \in 1 .. Len(q) : q[i] \in P /\ (\A j \in i + 1 .. Len(q) : q[j] \notin P) => q[i] \in Q

\* What a client has to say about a clipboard: copies its loop has not come to,
\* uploads that are not written yet, messages, and events of its proxy.
Copies(id) == {m \in LocalType : m.kind = "grabbed" /\ m.id = id}
Uploads(id) == {m \in LocalType : m.kind = "data" /\ m.id = id}
Reports(id) == {m \in FromClient : m.kind \in {"grab", "data"} /\ m.id = id}
Notes(c, id) == {e \in EventType : e.kind \in {"grabbed", "changed"} /\ e.who = c /\ e.id = id}

\* Of those, an upload of d with number u, its event, and grabs after number u.
With(d, u) == {m \in FromClient : m.kind = "data" /\ m.data = d /\ m.seq = u}
ChangedAt(u) == {e \in EventType : e.kind = "changed" /\ e.seq = u}
LateGrabs(id, u) == {m \in FromClient : m.kind = "grab" /\ m.id = id /\ m.seq > u}
LateNotes(c, id, u) ==
    {e \in EventType : e.kind = "grabbed" /\ e.who = c /\ e.id = id /\ e.seq > u}

\* Start and data alternate in q: a and b tell whether a start is open before
\* and after it.
Opens(m, a, b) ==
    IF m.kind = "start" THEN ~a /\ b ELSE IF m.kind = "data" THEN a /\ ~b ELSE b = a
Alternate(q, a, b) ==
    \E open \in [0 .. Len(q) -> BOOLEAN] :
      /\ open[0] = a /\ open[Len(q)] = b
      /\ \A i \in 1 .. Len(q) : Opens(q[i], open[i - 1], open[i])
\* The shared buffer holds the start of one client or of none.
OneAtATime(s, k) ==
    /\ s.filling \in s.listed \cup {Empty} /\ (s.filling # Empty => s.cached = 0)
    /\ \A c \in Clients : \E a, b \in BOOLEAN :
         /\ a <=> s.filling = c
         /\ Alternate(k[c].out, a, b) /\ Alternate(k[c].local, b, FALSE)

\* A client has sent nothing with a number it does not know.
Mine(q, p, c) == \A i \in 1 .. Len(q) : q[i].who = c => q[i].seq <= p.seq
Own(s, p, c) == UpTo(p.out, p.seq) /\ UpTo(p.local, p.seq) /\ Mine(s.queue, p, c)

\* A clipboard is on its way to the client.
Due(s, c, id) == Coming(s.queue, c, id) \/ ~Untouched(s.out[c], id)
\* A client that has connected again, and will be sent the clipboard when it is entered.
Old(s, p, c, id) ==
    /\ s.dirty[c][id] /\ s.active # c /\ p.seq < s.seq[id]
    /\ \A i \in 1 .. Len(s.out[c]) : ~Enter(s.out[c][i], s.seq[id])
Void(s, p, c, id) == Due(s, c, id) \/ Old(s, p, c, id)
InTime(s, p, c, id) == Caught(s.queue, s.out[c], p, s.seq[id], c, id)
Owner(s, p, c, id) == s.owner[id] = c => InTime(s, p, c, id) \/ Old(s, p, c, id)

\* Where the last upload of the clipboard is, which has the number u.
Reported(p, id) == Has(p.local, Uploads(id)) \/ Has(p.out, Reports(id))
Sending(p, id, u) ==
    /\ ~Has(p.out, LateGrabs(id, u))
    /\ EndsIn(p.local, Uploads(id), With(p.content[id], u))
    /\ Has(p.local, Uploads(id)) \/ EndsIn(p.out, Reports(id), With(p.content[id], u))
Arrived(s, p, c, id, u) ==
    /\ EndsIn(s.queue, Notes(c, id), ChangedAt(u))
    /\ IF Has(s.queue, Notes(c, id))
       THEN s.copy[c][id] = p.content[id] \/ Due(s, c, id)
       ELSE s.owner[id] = c => s.data[id] = p.content[id] \/ Void(s, p, c, id)
HeardAt(s, p, c, id, u) ==
    /\ Sending(p, id, u) /\ (Reported(p, id) \/ Arrived(s, p, c, id, u))
    /\ ~Has(s.queue, LateNotes(c, id, u))
    /\ s.owner[id] = c => s.seq[id] <= u \/ Void(s, p, c, id)
Heard(s, p, c, id) ==
    p.own[id] = "sent" /\ ~Has(p.local, Copies(id))
      => \E u \in 0 .. p.seq : HeardAt(s, p, c, id, u)

Followed(s, p, c, id) == Own(s, p, c) /\ Owner(s, p, c, id) /\ Heard(s, p, c, id)
AllFollowed(s, k) ==
    s.mixed \/ s.unexpected \/
    /\ OneAtATime(s, k)
    /\ \A c \in s.listed \ {Primary}, id \in Ids : Followed(s, k[c], c, id)

-----------------------------------------------------------------------------
(* Queues and what they do to Has, EndsIn, Alternate and Caught.            *)

LEMMA HasLonger ==
    ASSUME NEW q, NEW r, NEW e, Longer(q, r, e), NEW P
    PROVE  Has(r, P) <=> Has(q, P) \/ e \in P
<1>1. \A i \in 1 .. Len(r) : i \in 1 .. Len(q) \/ i = Len(q) + 1
  BY DEF Longer
<1>2. \A i \in 1 .. Len(q) : i \in 1 .. Len(r) /\ r[i] = q[i]
  BY DEF Longer
<1>3. Len(q) + 1 \in 1 .. Len(r) /\ r[Len(q) + 1] = e
  BY DEF Longer
<1> QED
  BY <1>1, <1>2, <1>3 DEF Has

LEMMA HasShorter ==
    ASSUME NEW q, NEW r, NEW e, Shorter(q, r, e), NEW P
    PROVE  Has(q, P) <=> Has(r, P) \/ e \in P
<1>1. \A i \in 1 .. Len(q) : i = 1 \/ (i - 1 \in 1 .. Len(r) /\ q[i] = r[i - 1])
  BY DEF Shorter
<1>2. \A i \in 1 .. Len(r) : i + 1 \in 1 .. Len(q) /\ q[i + 1] = r[i]
  BY DEF Shorter
<1>3. 1 \in 1 .. Len(q) /\ q[1] = e
  BY DEF Shorter
<1> QED
  BY <1>1, <1>2, <1>3 DEF Has

LEMMA EndsInLonger ==
    ASSUME NEW q, NEW r, NEW e, Longer(q, r, e), NEW P, NEW Q,
           IF e \in P THEN e \in Q ELSE EndsIn(q, P, Q)
    PROVE  EndsIn(r, P, Q)
<1> SUFFICES ASSUME NEW i \in 1 .. Len(r), r[i] \in P, \A j \in i + 1 .. Len(r) : r[j] \notin P
             PROVE  r[i] \in Q
  BY DEF EndsIn
<1>1. i \in 1 .. Len(q) \/ i = Len(q) + 1
  BY DEF Longer
<1>2. CASE i = Len(q) + 1
  BY <1>2 DEF Longer
<1>3. CASE i \in 1 .. Len(q)
  <2>1. r[i] = q[i] /\ \A j \in i + 1 .. Len(q) : j \in i + 1 .. Len(r) /\ r[j] = q[j]
    BY <1>3 DEF Longer
  <2>2. Len(q) + 1 \in i + 1 .. Len(r) /\ r[Len(q) + 1] = e
    BY <1>3 DEF Longer
  <2> QED
    BY <1>3, <2>1, <2>2 DEF EndsIn
<1> QED
  BY <1>1, <1>2, <1>3

LEMMA EndsInShorter ==
    ASSUME NEW q, NEW r, NEW e, Shorter(q, r, e), NEW P, NEW Q, EndsIn(q, P, Q)
    PROVE  EndsIn(r, P, Q) /\ (e \in P /\ ~Has(r, P) => e \in Q)
<1>0. \A i \in 1 .. Len(r) : i + 1 \in 1 .. Len(q) /\ q[i + 1] = r[i]
  BY DEF Shorter
<1>1. ASSUME NEW i \in 1 .. Len(r), r[i] \in P, \A j \in i + 1 .. Len(r) : r[j] \notin P
      PROVE  r[i] \in Q
  <2>1. \A j \in (i + 1) + 1 .. Len(q) : j - 1 \in i + 1 .. Len(r) /\ q[j] = r[j - 1]
    BY DEF Shorter
  <2> QED
    BY <1>0, <1>1, <2>1 DEF EndsIn
<1>2. ASSUME e \in P, ~Has(r, P)
      PROVE  e \in Q
  <2>1. 1 \in 1 .. Len(q) /\ q[1] = e
    BY DEF Shorter
  <2>2. \A j \in 1 + 1 .. Len(q) : j - 1 \in 1 .. Len(r) /\ q[j] = r[j - 1]
    BY DEF Shorter
  <2> QED
    BY <1>2, <2>1, <2>2 DEF EndsIn, Has
<1> QED
  BY <1>1, <1>2 DEF EndsIn

LEMMA HasForgotten ==
    ASSUME NEW q, NEW r, NEW c, Apart(q, r, c), Len(q) \in Nat, NEW P, NEW Q,
           \A e \in P : e.who = c
    PROVE  /\ Has(r, P) <=> Has(q, P)
           /\ EndsIn(q, P, Q) => EndsIn(r, P, Q)
<1>1. \A i \in 1 .. Len(q) : (r[i] \in P <=> q[i] \in P) /\ (r[i] \in P => r[i] = q[i])
  BY DEF Apart
<1>2. Len(r) = Len(q)
  BY DEF Apart
<1>3. Has(r, P) <=> Has(q, P)
  BY <1>1, <1>2 DEF Has
<1>4. ASSUME EndsIn(q, P, Q), NEW i \in 1 .. Len(r), r[i] \in P,
             \A j \in i + 1 .. Len(r) : r[j] \notin P
      PROVE  r[i] \in Q
  <2>1. \A j \in i + 1 .. Len(q) : j \in 1 .. Len(q)
    OBVIOUS
  <2> QED
    BY <1>1, <1>2, <1>4, <2>1 DEF EndsIn
<1> QED
  BY <1>3, <1>4 DEF EndsIn

LEMMA AlternateEmpty ==
    ASSUME NEW q, Len(q) = 0, NEW a \in BOOLEAN
    PROVE  Alternate(q, a, a)
<1> DEFINE open == [i \in 0 .. Len(q) |-> a]
<1>1. open \in [0 .. Len(q) -> BOOLEAN] /\ open[0] = a /\ open[Len(q)] = a
  OBVIOUS
<1>2. \A i \in 1 .. Len(q) : FALSE
  OBVIOUS
<1> HIDE DEF open
<1> QED
  BY <1>1, <1>2 DEF Alternate

LEMMA AlternateLonger ==
    ASSUME NEW q, NEW r, NEW m, Longer(q, r, m), NEW a, NEW b, Alternate(q, a, b),
           NEW x \in BOOLEAN, Opens(m, b, x)
    PROVE  Alternate(r, a, x)
<1> PICK open \in [0 .. Len(q) -> BOOLEAN] :
      /\ open[0] = a /\ open[Len(q)] = b
      /\ \A i \in 1 .. Len(q) : Opens(q[i], open[i - 1], open[i])
  BY DEF Alternate
<1> DEFINE new == [i \in 0 .. Len(r) |-> IF i = Len(r) THEN x ELSE open[i]]
<1> HIDE DEF Opens
<1>1. Len(q) \in Nat /\ Len(r) = Len(q) + 1 /\ r[Len(r)] = m /\ \A i \in 1 .. Len(q) : r[i] = q[i]
  BY DEF Longer
<1>2. /\ new \in [0 .. Len(r) -> BOOLEAN] /\ new[Len(r)] = x
      /\ \A i \in 0 .. Len(q) : new[i] = open[i]
  BY <1>1
<1> HIDE DEF new
<1>3. ASSUME NEW i \in 1 .. Len(r)
      PROVE  Opens(r[i], new[i - 1], new[i])
  <2>1. CASE i = Len(r)
    <3>1. i - 1 = Len(q) /\ i - 1 \in 0 .. Len(q)
      BY <1>1, <2>1
    <3> QED
      BY <1>1, <1>2, <2>1, <3>1
  <2>2. CASE i # Len(r)
    <3>1. i \in 1 .. Len(q) /\ i - 1 \in 0 .. Len(q) /\ i \in 0 .. Len(q)
      BY <1>1, <2>2
    <3> QED
      BY <1>1, <1>2, <3>1
  <2> QED
    BY <2>1, <2>2
<1>4. new[0] = a
  BY <1>1, <1>2
<1> QED
  BY <1>2, <1>3, <1>4 DEF Alternate

LEMMA AlternateShorter ==
    ASSUME NEW q, NEW r, NEW m, Shorter(q, r, m), NEW a, NEW b, Alternate(q, a, b)
    PROVE  \E x \in BOOLEAN : Opens(m, a, x) /\ Alternate(r, x, b)
<1> PICK open \in [0 .. Len(q) -> BOOLEAN] :
      /\ open[0] = a /\ open[Len(q)] = b
      /\ \A i \in 1 .. Len(q) : Opens(q[i], open[i - 1], open[i])
  BY DEF Alternate
<1> DEFINE rest == [i \in 0 .. Len(r) |-> open[i + 1]]
<1> HIDE DEF Opens
<1>1. Len(r) \in Nat /\ Len(q) = Len(r) + 1 /\ q[1] = m /\ \A i \in 1 .. Len(r) : r[i] = q[i + 1]
  BY DEF Shorter
<1>2. \A i \in 0 .. Len(r) : i + 1 \in 0 .. Len(q)
  BY <1>1
<1>3. /\ rest \in [0 .. Len(r) -> BOOLEAN] /\ \A i \in 0 .. Len(r) : rest[i] = open[i + 1]
  BY <1>2
<1> HIDE DEF rest
<1>4. open[1] \in BOOLEAN /\ Opens(m, a, open[1])
  <2>1. 1 \in 1 .. Len(q) /\ 1 \in 0 .. Len(q) /\ 1 - 1 = 0
    BY <1>1
  <2> QED
    BY <1>1, <2>1
<1>5. rest[0] = open[1] /\ rest[Len(r)] = b
  BY <1>1, <1>3
<1>6. ASSUME NEW i \in 1 .. Len(r)
      PROVE  Opens(r[i], rest[i - 1], rest[i])
  <2>1. i + 1 \in 1 .. Len(q) /\ i - 1 \in 0 .. Len(r) /\ i \in 0 .. Len(r)
        /\ (i + 1) - 1 = i /\ (i - 1) + 1 = i
    BY <1>1
  <2> QED
    BY <1>1, <1>3, <2>1
<1>7. Alternate(r, open[1], b)
  BY <1>3, <1>5, <1>6 DEF Alternate
<1> QED
  BY <1>4, <1>7

\* What is on its way keeps coming.
LEMMA StillCaught ==
    ASSUME NEW q, NEW r, NEW o, NEW w, NEW m, NEW p, NEW n, NEW c, NEW id,
           Caught(q, o, p, n, c, id), Coming(q, c, id) => Coming(r, c, id),
           w = o \/ Longer(o, w, m)
    PROVE  Caught(r, w, p, n, c, id)
<1> HIDE DEF Touches, Enter
<1>1. CASE p.seq >= n
  BY <1>1 DEF Caught
<1>2. ASSUME NEW i \in 1 .. Len(o), Enter(o[i], n),
             Coming(q, c, id) \/ \E j \in i + 1 .. Len(o) : Touches(o[j], id)
      PROVE  Caught(r, w, p, n, c, id)
  <2>1. i \in 1 .. Len(w) /\ w[i] = o[i]
    BY DEF Longer
  <2>2. \A j \in i + 1 .. Len(o) : j \in i + 1 .. Len(w) /\ w[j] = o[j]
    BY DEF Longer
  <2> QED
    BY <1>2, <2>1, <2>2 DEF Caught
<1> QED
  BY <1>1, <1>2 DEF Caught

LEMMA CaughtByWrite ==
    ASSUME NEW q, NEW r, NEW o, NEW w, NEW m, NEW p, NEW n, NEW c, NEW id,
           Caught(q, o, p, n, c, id), Longer(o, w, m), Touches(m, id)
    PROVE  Caught(r, w, p, n, c, id)
<1> HIDE DEF Touches, Enter
<1>1. CASE p.seq >= n
  BY <1>1 DEF Caught
<1>2. ASSUME NEW i \in 1 .. Len(o), Enter(o[i], n)
      PROVE  Caught(r, w, p, n, c, id)
  <2>1. i \in 1 .. Len(w) /\ w[i] = o[i] /\ Len(w) \in i + 1 .. Len(w) /\ w[Len(w)] = m
    BY DEF Longer
  <2> QED
    BY <1>2, <2>1 DEF Caught
<1> QED
  BY <1>1, <1>2 DEF Caught

LEMMA CaughtByTaking ==
    ASSUME NEW o, NEW r, NEW m, Shorter(o, r, m), NEW q, NEW n \in Nat, NEW c, NEW id,
           NEW p, NEW w, Caught(q, o, p, n, c, id), p.seq \in Nat, w.seq \in Nat,
           p.seq <= w.seq, m.kind = "enter" => w.seq = m.seq
    PROVE  Caught(q, r, w, n, c, id)
<1> HIDE DEF Touches
<1>1. CASE p.seq >= n
  BY <1>1 DEF Caught
<1>2. ASSUME NEW i \in 1 .. Len(o), Enter(o[i], n),
             Coming(q, c, id) \/ \E j \in i + 1 .. Len(o) : Touches(o[j], id)
      PROVE  Caught(q, r, w, n, c, id)
  <2>1. CASE i = 1
    BY <1>2, <2>1 DEF Shorter, Enter, Caught
  <2>2. CASE i # 1
    <3>1. i - 1 \in 1 .. Len(r) /\ r[i - 1] = o[i]
      BY <2>2 DEF Shorter
    <3>2. \A j \in i + 1 .. Len(o) : j - 1 \in (i - 1) + 1 .. Len(r) /\ r[j - 1] = o[j]
      BY <2>2 DEF Shorter
    <3> QED
      BY <1>2, <3>1, <3>2 DEF Caught
  <2> QED
    BY <2>1, <2>2
<1> QED
  BY <1>1, <1>2 DEF Caught

-----------------------------------------------------------------------------
(* What the server does that is not about a message of the client.          *)

Nothing == Event("send", Empty, 0, 0, Empty)
IsNote(e, c, id) == e.kind \in {"grabbed", "changed"} /\ e.who = c /\ e.id = id

\* The same is left of what the client has said, in a queue q and a later one r.
News(q, r, c, id) ==
    /\ Has(r, Notes(c, id)) <=> Has(q, Notes(c, id))
    /\ \A u \in Nat :
         /\ EndsIn(q, Notes(c, id), ChangedAt(u)) => EndsIn(r, Notes(c, id), ChangedAt(u))
         /\ Has(r, LateNotes(c, id, u)) => Has(q, LateNotes(c, id, u))

\* From s to t, the client p is no worse off.
Steady(s, t, p, c, id) ==
    /\ News(s.queue, t.queue, c, id) /\ (Mine(s.queue, p, c) => Mine(t.queue, p, c))
    /\ Due(s, c, id) => Due(t, c, id)
    /\ t.copy[c][id] = s.copy[c][id] \/ Due(t, c, id)
    /\ t.owner[id] = c => /\ s.owner[id] = c /\ t.seq[id] = s.seq[id] /\ t.data[id] = s.data[id]
                          /\ InTime(s, p, c, id) => InTime(t, p, c, id)
Gentle(s, t, p, c, id) ==
    /\ Steady(s, t, p, c, id)
    /\ t.owner[id] = c /\ Old(s, p, c, id)
         => Old(t, p, c, id) \/ (Due(t, c, id) /\ InTime(t, p, c, id))

LEMMA QueueLonger ==
    ASSUME NEW q, NEW r, NEW e, Longer(q, r, e), NEW c, NEW id, ~IsNote(e, c, id)
    PROVE  News(q, r, c, id) /\ (Coming(q, c, id) \/ SendFor(e, c, id) => Coming(r, c, id))
<1>1. e \notin Notes(c, id) /\ \A u : e \notin LateNotes(c, id, u)
  BY DEF IsNote, Notes, LateNotes
<1>2. News(q, r, c, id)
  BY <1>1, HasLonger, EndsInLonger DEF News
<1>3. Coming(q, c, id) \/ SendFor(e, c, id) => Coming(r, c, id)
  <2>1. \A i \in 1 .. Len(q) : i \in 1 .. Len(r) /\ r[i] = q[i]
    BY DEF Longer
  <2>2. Len(r) \in 1 .. Len(r) /\ r[Len(r)] = e
    BY DEF Longer
  <2> HIDE DEF SendFor
  <2> QED
    BY <2>1, <2>2 DEF Coming
<1> QED
  BY <1>2, <1>3

LEMMA MineLonger ==
    ASSUME NEW q, NEW r, NEW e, Longer(q, r, e), NEW p, NEW c, Mine(q, p, c),
           e.who = c => e.seq <= p.seq
    PROVE  Mine(r, p, c)
<1>1. \A i \in 1 .. Len(r) : i \in 1 .. Len(q) \/ i = Len(q) + 1
  BY DEF Longer
<1> QED
  BY <1>1 DEF Longer, Mine

LEMMA QueueShorter ==
    ASSUME NEW q, NEW r, NEW e, Shorter(q, r, e), NEW p, NEW c, NEW id
    PROVE  /\ ~IsNote(e, c, id) => News(q, r, c, id)
           /\ Mine(q, p, c) => Mine(r, p, c) /\ (e.who = c => e.seq <= p.seq)
           /\ Coming(q, c, id) /\ ~SendFor(e, c, id) => Coming(r, c, id)
<1>0. /\ \A i \in 1 .. Len(r) : i + 1 \in 1 .. Len(q) /\ q[i + 1] = r[i]
      /\ \A i \in 1 .. Len(q) : i = 1 \/ (i - 1 \in 1 .. Len(r) /\ q[i] = r[i - 1])
      /\ 1 \in 1 .. Len(q) /\ q[1] = e
  BY DEF Shorter
<1>1. ~IsNote(e, c, id) => e \notin Notes(c, id) /\ \A u : e \notin LateNotes(c, id, u)
  BY DEF IsNote, Notes, LateNotes
<1>2. ~IsNote(e, c, id) => News(q, r, c, id)
  BY <1>1, HasShorter, EndsInShorter DEF News
<1>3. Mine(q, p, c) => Mine(r, p, c) /\ (e.who = c => e.seq <= p.seq)
  BY <1>0 DEF Mine
<1>4. Coming(q, c, id) /\ ~SendFor(e, c, id) => Coming(r, c, id)
  <2> HIDE DEF SendFor
  <2> QED
    BY <1>0 DEF Coming
<1> QED
  BY <1>2, <1>3, <1>4

LEMMA TouchedLonger ==
    ASSUME NEW o, NEW w, NEW m, Longer(o, w, m), NEW id
    PROVE  ~Untouched(o, id) \/ Touches(m, id) => ~Untouched(w, id)
<1>1. \A i \in 1 .. Len(o) : i \in 1 .. Len(w) /\ w[i] = o[i]
  BY DEF Longer
<1>2. Len(w) \in 1 .. Len(w) /\ w[Len(w)] = m
  BY DEF Longer
<1> HIDE DEF Touches
<1> QED
  BY <1>1, <1>2 DEF Untouched

\* An event that is posted, if any, and a message that is written, if any.
LEMMA Adding ==
    ASSUME NEW s, NEW t, NEW p, p.seq \in Nat, NEW c, NEW id, NEW e, NEW m,
           t.queue = s.queue \/ Longer(s.queue, t.queue, e),
           ~IsNote(e, c, id), e.who = c => e.seq = 0,
           t.out[c] = s.out[c] \/ Longer(s.out[c], t.out[c], m),
           t.copy[c][id] = s.copy[c][id] \/ (SendFor(e, c, id) /\ Longer(s.queue, t.queue, e)),
           t.owner[id] = c => s.owner[id] = c /\ t.seq[id] = s.seq[id] /\ t.data[id] = s.data[id]
    PROVE  Steady(s, t, p, c, id)
<1>1. /\ News(s.queue, t.queue, c, id)
      /\ Coming(s.queue, c, id) => Coming(t.queue, c, id)
      /\ SendFor(e, c, id) /\ Longer(s.queue, t.queue, e) => Coming(t.queue, c, id)
  BY QueueLonger DEF News
<1>2. Mine(s.queue, p, c) => Mine(t.queue, p, c)
  BY MineLonger
<1>3. ~Untouched(s.out[c], id) => ~Untouched(t.out[c], id)
  BY TouchedLonger
<1>4. t.seq[id] = s.seq[id] /\ InTime(s, p, c, id) => InTime(t, p, c, id)
  BY <1>1, StillCaught DEF InTime
<1> QED
  BY <1>1, <1>2, <1>3, <1>4 DEF Steady, Due

\* An event that is dispatched, which is written if it is a chunk for the client.
LEMMA Removing ==
    ASSUME NEW s, NEW t, NEW p, NEW c, NEW id, NEW e, NEW m,
           Shorter(s.queue, t.queue, e), ~IsNote(e, c, id),
           t.out[c] = s.out[c] \/ Longer(s.out[c], t.out[c], m),
           SendFor(e, c, id) => Longer(s.out[c], t.out[c], m) /\ Touches(m, id),
           t.copy[c][id] = s.copy[c][id],
           t.owner[id] = c => s.owner[id] = c /\ t.seq[id] = s.seq[id] /\ t.data[id] = s.data[id]
    PROVE  Steady(s, t, p, c, id)
<1>1. /\ News(s.queue, t.queue, c, id) /\ (Mine(s.queue, p, c) => Mine(t.queue, p, c))
      /\ Coming(s.queue, c, id) /\ ~SendFor(e, c, id) => Coming(t.queue, c, id)
  BY QueueShorter
<1>2. Due(s, c, id) => Due(t, c, id)
  BY <1>1, TouchedLonger DEF Due
<1>3. t.seq[id] = s.seq[id] /\ InTime(s, p, c, id) => InTime(t, p, c, id)
  <2>1. CASE SendFor(e, c, id)
    BY <2>1, CaughtByWrite DEF InTime
  <2>2. CASE ~SendFor(e, c, id)
    BY <1>1, <2>2, StillCaught DEF InTime
  <2> QED
    BY <2>1, <2>2
<1> QED
  BY <1>1, <1>2, <1>3 DEF Steady

\* A client that connected again stays one that did.
LEMMA StaysOld ==
    ASSUME NEW s, NEW t, NEW p, NEW c, NEW id, Old(s, p, c, id),
           t.dirty[c][id] = s.dirty[c][id], t.active # c, t.seq[id] = s.seq[id],
           NEW m, t.out[c] = s.out[c] \/ (Longer(s.out[c], t.out[c], m) /\ m.kind # "enter")
    PROVE  Old(t, p, c, id)
<1>1. Longer(s.out[c], t.out[c], m) =>
        \A i \in 1 .. Len(t.out[c]) : i \in 1 .. Len(s.out[c]) \/ i = Len(s.out[c]) + 1
  BY DEF Longer
<1>2. \A i \in 1 .. Len(t.out[c]) : ~Enter(t.out[c][i], s.seq[id])
  BY <1>1 DEF Longer, Old, Enter
<1> QED
  BY <1>2 DEF Old

LEMMA SteadyThen ==
    ASSUME NEW s, NEW t, NEW v, NEW p, NEW c, NEW id,
           Steady(s, t, p, c, id), Steady(t, v, p, c, id)
    PROVE  Steady(s, v, p, c, id)
<1>1. News(s.queue, v.queue, c, id)
  BY DEF Steady, News
<1> QED
  BY <1>1 DEF Steady

LEMMA GentleThen ==
    ASSUME NEW s, NEW t, NEW v, NEW p, NEW c, NEW id,
           Gentle(s, t, p, c, id), Gentle(t, v, p, c, id)
    PROVE  Gentle(s, v, p, c, id)
<1>1. Steady(s, v, p, c, id) /\ Steady(t, v, p, c, id)
  BY SteadyThen DEF Gentle
<1>2. /\ v.owner[id] = c => t.owner[id] = c /\ (InTime(t, p, c, id) => InTime(v, p, c, id))
      /\ Due(t, c, id) => Due(v, c, id)
  BY <1>1 DEF Steady
<1>3. v.owner[id] = c /\ Old(s, p, c, id) => Old(v, p, c, id) \/ (Due(v, c, id) /\ InTime(v, p, c, id))
  BY <1>2 DEF Gentle
<1> QED
  BY <1>1, <1>3 DEF Gentle

LEMMA Itself ==
    ASSUME NEW s, NEW p, NEW c, NEW id
    PROVE  Gentle(s, s, p, c, id)
  BY DEF Gentle, Steady, News

LEMMA GentleKeeps ==
    ASSUME NEW s, NEW t, NEW p, p.seq \in Nat, NEW c, NEW id, Gentle(s, t, p, c, id),
           Followed(s, p, c, id)
    PROVE  Followed(t, p, c, id)
<1>1. Own(t, p, c)
  BY DEF Gentle, Steady, Followed, Own
<1>2. Owner(t, p, c, id)
  BY DEF Gentle, Steady, Followed, Owner
<1>3. t.owner[id] = c /\ Void(s, p, c, id) => Void(t, p, c, id)
  BY DEF Gentle, Steady, Void
<1>4. ASSUME NEW u \in 0 .. p.seq, HeardAt(s, p, c, id, u)
      PROVE  HeardAt(t, p, c, id, u)
  <2>1. u \in Nat /\ Steady(s, t, p, c, id) /\ News(s.queue, t.queue, c, id)
    BY DEF Gentle, Steady
  <2>2. Arrived(s, p, c, id, u) => Arrived(t, p, c, id, u)
    BY <1>3, <2>1 DEF Steady, News, Arrived
  <2>3. ~Has(t.queue, LateNotes(c, id, u))
    BY <1>4, <2>1 DEF News, HeardAt
  <2>4. t.owner[id] = c => t.seq[id] <= u \/ Void(t, p, c, id)
    BY <1>3, <1>4, <2>1 DEF Steady, HeardAt
  <2> QED
    BY <1>4, <2>2, <2>3, <2>4 DEF HeardAt
<1>5. Heard(t, p, c, id)
  BY <1>4 DEF Followed, Heard
<1> QED
  BY <1>1, <1>2, <1>5 DEF Followed

LEMMA ServerMoves ==
    ASSUME NEW s, NEW t, NEW k, AllFollowed(s, k), SameBuffer(s, t), t.listed = s.listed,
           s.unexpected => t.unexpected,
           \A c \in s.listed \ {Primary}, id \in Ids :
             Followed(s, k[c], c, id) => t.unexpected \/ Followed(t, k[c], c, id)
    PROVE  AllFollowed(t, k)
<1>1. OneAtATime(s, k) => OneAtATime(t, k)
  BY DEF SameBuffer, OneAtATime
<1> QED
  BY <1>1 DEF SameBuffer, AllFollowed

\* An update from another screen, or of another clipboard.
LEMMA UpdateGentle ==
    ASSUME ClipboardAssumption, NEW s, NEW t, NEW sender, NEW i \in Ids, NEW seq,
           SameRound(s, t), Updated(s, t, sender, i, seq),
           NEW p, p.seq \in Nat, NEW c \in Clients, NEW id \in Ids, c # sender \/ id # i
    PROVE  t.unexpected \/ Gentle(s, t, p, c, id)
<1> SUFFICES ASSUME ~t.unexpected, t # s
             PROVE  Gentle(s, t, p, c, id)
  BY Itself
<1>1. s.owner[i] = sender /\ t.owner = s.owner /\ t.seq = s.seq /\ t.out = s.out
      /\ t.active = s.active
  BY DEF Updated, SameRound
<1>2. t.owner[id] = c => id # i
  BY <1>1
<1>3. PICK e : /\ ~IsNote(e, c, id) /\ (e.who = c => e.seq = 0)
               /\ \/ t.queue = s.queue /\ t.copy = s.copy
                  \/ Longer(s.queue, t.queue, e) /\ SendFor(e, s.active, i)
  <2>1. CASE Posted(s, t, i)
    BY <2>1 DEF Posted, IsNote, SendFor
  <2>2. CASE t.queue = s.queue /\ t.copy = s.copy
    <3>1. ~IsNote(Nothing, c, id) /\ Nothing.seq = 0
      BY DEF IsNote, Nothing, Event
    <3> QED
      BY <2>2, <3>1
  <2> QED
    BY <2>1, <2>2 DEF Updated
<1>4. t.copy[c][id] = s.copy[c][id] \/ (SendFor(e, c, id) /\ Longer(s.queue, t.queue, e))
  BY <1>3 DEF Updated
<1>5. t.owner[id] = c => s.owner[id] = c /\ t.seq[id] = s.seq[id] /\ t.data[id] = s.data[id]
  BY <1>1, <1>2 DEF Updated
<1>6. Steady(s, t, p, c, id)
  BY <1>1, <1>3, <1>4, <1>5, Adding
<1>7. ASSUME t.owner[id] = c, Old(s, p, c, id)
      PROVE  Old(t, p, c, id)
  <2>1. t.dirty[c][id] = s.dirty[c][id]
    BY <1>2, <1>7 DEF Updated, Screens
  <2>2. s.active # c
    BY <1>7 DEF Old
  <2> QED
    BY <1>1, <1>7, <2>1, <2>2, StaysOld
<1> QED
  BY <1>6, <1>7 DEF Gentle

\* Both clipboards of the server's own screen.
LEMMA TwoUpdates ==
    ASSUME ClipboardAssumption, NEW s, NEW x, NEW t, NEW n, NEW m,
           SameRound(s, x), Updated(s, x, Primary, 0, n),
           SameRound(x, t), Updated(x, t, Primary, 1, m),
           NEW p, p.seq \in Nat, NEW c \in Clients, NEW id \in Ids
    PROVE  t.unexpected \/ Gentle(s, t, p, c, id)
<1>1. 0 \in Ids /\ 1 \in Ids /\ c # Primary
  BY DEF Ids, ClipboardEnd, ClipboardAssumption
<1>2. x.unexpected \/ Gentle(s, x, p, c, id)
  BY <1>1, UpdateGentle
<1>3. t.unexpected \/ Gentle(x, t, p, c, id)
  BY <1>1, UpdateGentle
<1> QED
  BY <1>2, <1>3, GentleThen DEF SameRound

-----------------------------------------------------------------------------
(* A note of the client that the server takes from its queue.               *)

LEMMA NoteTaken ==
    ASSUME NEW s, NEW t, NEW r, NEW e \in EventType, NEW p, NEW c, NEW id, p.seq \in Nat,
           Shorter(s.queue, r, e), IsNote(e, c, id), News(r, t.queue, c, id),
           Due(s, c, id) => Due(t, c, id), t.copy[c][id] = s.copy[c][id],
           Own(t, p, c), Owner(t, p, c, id), Heard(s, p, c, id),
           \A u \in Nat :
             /\ s.owner[id] = c => s.seq[id] <= u \/ Void(s, p, c, id)
             /\ e.kind = "grabbed" => e.seq <= u
             => (t.owner[id] = c => t.seq[id] <= u \/ Void(t, p, c, id)),
           e.kind = "changed" /\ t.owner[id] = c =>
             \/ t.data[id] = s.copy[c][id]
             \/ /\ s.owner[id] = c /\ ~(s.seq[id] <= e.seq)
                /\ Void(s, p, c, id) => Void(t, p, c, id)
    PROVE  Followed(t, p, c, id)
<1> SUFFICES ASSUME NEW u \in 0 .. p.seq, HeardAt(s, p, c, id, u)
             PROVE  HeardAt(t, p, c, id, u)
  BY DEF Followed, Heard
<1>0. u \in Nat /\ e.seq \in Nat /\ e.kind \in {"grabbed", "changed"}
  BY DEF EventType, IsNote
<1>1. e \in Notes(c, id) /\ Has(s.queue, Notes(c, id))
  <2>1. e \in Notes(c, id)
    BY DEF Notes, IsNote
  <2> QED
    BY <2>1, HasShorter
<1>2. ~Has(r, LateNotes(c, id, u)) /\ e \notin LateNotes(c, id, u)
  BY HasShorter DEF HeardAt
<1>3. e.kind = "grabbed" => e.seq <= u
  BY <1>0, <1>2 DEF LateNotes, IsNote
<1>4. t.owner[id] = c => t.seq[id] <= u \/ Void(t, p, c, id)
  BY <1>0, <1>3 DEF HeardAt
<1>5. ~Has(t.queue, LateNotes(c, id, u))
  BY <1>0, <1>2 DEF News
<1>6. ASSUME ~Reported(p, id)
      PROVE  Arrived(t, p, c, id, u)
  <2>1. Arrived(s, p, c, id, u)
    BY <1>6 DEF HeardAt
  <2>2. EndsIn(r, Notes(c, id), ChangedAt(u)) /\ (~Has(r, Notes(c, id)) => e \in ChangedAt(u))
    BY <1>1, <2>1, EndsInShorter DEF Arrived
  <2>3. EndsIn(t.queue, Notes(c, id), ChangedAt(u))
    BY <1>0, <2>2 DEF News
  <2>4. s.copy[c][id] = p.content[id] \/ Due(s, c, id)
    BY <1>1, <2>1 DEF Arrived
  <2>5. ASSUME ~Has(t.queue, Notes(c, id)), t.owner[id] = c
        PROVE  t.data[id] = p.content[id] \/ Void(t, p, c, id)
    <3>1. e.kind = "changed" /\ e.seq = u
      BY <2>2, <2>5 DEF News, ChangedAt
    <3> QED
      BY <2>4, <2>5, <3>1 DEF HeardAt, Void
  <2> QED
    BY <2>3, <2>4, <2>5 DEF Arrived
<1> QED
  BY <1>4, <1>5, <1>6 DEF HeardAt

-----------------------------------------------------------------------------
(* The next event of the server's loop, for a client.                       *)

LEMMA AdvancedIs ==
    ASSUME NEW u, NEW k, Sound(u, k), u.queue # <<>>
    PROVE  LET s == Advanced(u)
           IN  /\ s.listed = u.listed /\ s.active = u.active /\ s.unexpected = u.unexpected
               /\ s.copy = u.copy /\ SameBuffer(u, s) /\ s.queue = Tail(u.queue)
               /\ s.owner = u.owner /\ s.seq = u.seq /\ s.data = u.data /\ s.dirty = u.dirty
               /\ s.out = u.out /\ Shorter(u.queue, s.queue, Head(u.queue))
               /\ Head(u.queue) \in EventType
<1>1. u \in Server
  BY DEF Sound, Typed
<1>2. Advanced(u) = [u EXCEPT !.queue = Advanced(u).queue]
      /\ Shorter(u.queue, Advanced(u).queue, Head(u.queue)) /\ Head(u.queue) \in EventType
  BY PopKeepsSound
<1> QED
  BY <1>1, <1>2 DEF Advanced, Server, SameBuffer

\* An event that is not about the clipboard of the client.
LEMMA PopGentle ==
    ASSUME NEW u, NEW k, Sound(u, k), u.queue # <<>>, NEW p, NEW c, NEW id,
           ~IsNote(Head(u.queue), c, id), ~SendFor(Head(u.queue), c, id)
    PROVE  Gentle(u, Advanced(u), p, c, id)
<1> DEFINE s == Advanced(u)
           e == Head(u.queue)
<1>1. /\ s.listed = u.listed /\ s.active = u.active /\ s.copy = u.copy
      /\ s.owner = u.owner /\ s.seq = u.seq /\ s.data = u.data /\ s.dirty = u.dirty
      /\ s.out = u.out /\ Shorter(u.queue, s.queue, e)
  BY AdvancedIs
<1> HIDE DEF s
<1>2. Steady(u, s, p, c, id)
  BY <1>1, Removing
<1>3. Old(u, p, c, id) => Old(s, p, c, id)
  BY <1>1, StaysOld DEF Old
<1> QED
  BY <1>2, <1>3 DEF Gentle, s

\* A note that has no effect.
LEMMA PopNote ==
    ASSUME NEW u, NEW k, Sound(u, k), u.queue # <<>>, NEW p, p.seq \in Nat, NEW c, NEW id,
           IsNote(Head(u.queue), c, id), Followed(u, p, c, id),
           Head(u.queue).kind = "changed" /\ u.owner[id] = c => ~(u.seq[id] <= Head(u.queue).seq)
    PROVE  Followed(Advanced(u), p, c, id)
<1> DEFINE s == Advanced(u)
           e == Head(u.queue)
<1>1. /\ s.listed = u.listed /\ s.active = u.active /\ s.copy = u.copy
      /\ s.owner = u.owner /\ s.seq = u.seq /\ s.data = u.data /\ s.dirty = u.dirty
      /\ s.out = u.out /\ Shorter(u.queue, s.queue, e) /\ e \in EventType
  BY AdvancedIs
<1>2. ~SendFor(e, c, id)
  BY DEF IsNote, SendFor
<1> HIDE DEF s, e
<1>3. /\ Mine(u.queue, p, c) => Mine(s.queue, p, c)
      /\ Coming(u.queue, c, id) => Coming(s.queue, c, id)
  BY <1>1, <1>2, QueueShorter
<1>4. Due(u, c, id) => Due(s, c, id)
  BY <1>1, <1>3 DEF Due
<1>5. Old(u, p, c, id) => Old(s, p, c, id)
  BY <1>1 DEF Old
<1>6. Own(s, p, c)
  BY <1>3 DEF Followed, Own
<1>7. Owner(s, p, c, id)
  BY <1>1, <1>3, <1>5, StillCaught DEF Followed, Owner, InTime
<1>8. News(s.queue, s.queue, c, id)
  BY DEF News
<1>9. Void(u, p, c, id) => Void(s, p, c, id)
  BY <1>4, <1>5 DEF Void
<1>10. Heard(u, p, c, id) /\ IsNote(e, c, id)
  BY DEF Followed, e
<1>11. e.kind = "changed" /\ s.owner[id] = c => u.owner[id] = c /\ ~(u.seq[id] <= e.seq)
  BY <1>1 DEF e
<1> QED
  BY <1>1, <1>4, <1>6, <1>7, <1>8, <1>9, <1>10, <1>11, NoteTaken DEF s

\* A chunk that is written.
LEMMA WrittenGentle ==
    ASSUME NEW u, NEW t, NEW e, Shorter(u.queue, t.queue, e), e.kind = "send", WrittenBy(u, t, e),
           NEW p, NEW c \in Clients, NEW id
    PROVE  Gentle(u, t, p, c, id)
<1>1. ~IsNote(e, c, id)
  BY DEF IsNote
<1>2. PICK m : /\ t.out[c] = u.out[c] \/ (Longer(u.out[c], t.out[c], m) /\ m.kind = "set")
               /\ SendFor(e, c, id) => Longer(u.out[c], t.out[c], m) /\ Touches(m, id)
  <2>1. CASE c = e.who
    BY <2>1 DEF WrittenBy, SendFor, Touches
  <2>2. CASE c # e.who
    BY <2>2 DEF WrittenBy, SendFor
  <2> QED
    BY <2>1, <2>2
<1>3. Steady(u, t, p, c, id)
  BY <1>1, <1>2, Removing DEF WrittenBy
<1>4. Old(u, p, c, id) => Old(t, p, c, id)
  <2>1. /\ t.dirty[c][id] = u.dirty[c][id] /\ t.seq[id] = u.seq[id]
        /\ (Old(u, p, c, id) => t.active # c)
    BY DEF WrittenBy, Old
  <2> QED
    BY <1>2, <2>1, StaysOld
<1> QED
  BY <1>3, <1>4 DEF Gentle

\* A grab that is accepted, for those who did not send it.
LEMMA ToldGentle ==
    ASSUME NEW u, NEW t, NEW e, Shorter(u.queue, t.queue, e), e.kind = "grabbed", ToldBy(u, t, e),
           NEW p, NEW c \in Clients, c \in u.listed, c \in Screens, NEW id \in Ids,
           c # e.who \/ id # e.id
    PROVE  Gentle(u, t, p, c, id)
<1>1. ~IsNote(e, c, id) /\ ~SendFor(e, c, id)
  BY DEF IsNote, SendFor
<1>2. PICK m : t.out[c] = u.out[c] \/ (Longer(u.out[c], t.out[c], m) /\ m.kind = "grab")
  BY DEF ToldBy
<1>3. t.owner[id] = c => id # e.id
  BY DEF ToldBy
<1>4. t.owner[id] = c => u.owner[id] = c /\ t.seq[id] = u.seq[id] /\ t.data[id] = u.data[id]
  BY <1>3 DEF ToldBy
<1>5. t.copy[c][id] = u.copy[c][id]
  BY DEF ToldBy
<1>6. Steady(u, t, p, c, id)
  BY <1>1, <1>2, <1>4, <1>5, Removing
<1>7. ASSUME t.owner[id] = c, Old(u, p, c, id)
      PROVE  Old(t, p, c, id)
  <2>1. t.dirty[c][id] = u.dirty[c][id] /\ t.active # c
    BY <1>3, <1>7 DEF ToldBy, Old
  <2> QED
    BY <1>2, <1>4, <1>7, <2>1, StaysOld
<1> QED
  BY <1>6, <1>7 DEF Gentle

\* For the one who did.
LEMMA ToldNote ==
    ASSUME NEW u, NEW t, NEW e \in EventType, Shorter(u.queue, t.queue, e), e.kind = "grabbed",
           ToldBy(u, t, e), NEW p, p.seq \in Nat, NEW c \in Clients, NEW id \in Ids,
           c = e.who, id = e.id, Followed(u, p, c, id)
    PROVE  Followed(t, p, c, id)
<1>1. IsNote(e, c, id) /\ ~SendFor(e, c, id)
  BY DEF IsNote, SendFor
<1>2. /\ t.owner[id] = c /\ t.seq[id] = e.seq /\ t.copy[c][id] = u.copy[c][id]
      /\ t.out[c] = u.out[c]
  BY DEF ToldBy
<1>3. /\ Mine(u.queue, p, c) => Mine(t.queue, p, c) /\ e.seq <= p.seq
      /\ Coming(u.queue, c, id) => Coming(t.queue, c, id)
  BY <1>1, QueueShorter
<1>4. Due(u, c, id) => Due(t, c, id)
  BY <1>2, <1>3 DEF Due
<1>5. Own(t, p, c) /\ e.seq <= p.seq
  BY <1>3 DEF Followed, Own
<1>6. e.seq \in Nat
  BY DEF EventType
<1>7. Owner(t, p, c, id)
  BY <1>2, <1>5, <1>6 DEF Owner, InTime, Caught
<1>8. News(t.queue, t.queue, c, id) /\ Heard(u, p, c, id)
  BY DEF News, Followed
<1>9. \A n \in Nat : (e.kind = "grabbed" => e.seq <= n) => t.seq[id] <= n
  BY <1>2
<1> QED
  BY <1>1, <1>2, <1>4, <1>5, <1>7, <1>8, <1>9, NoteTaken

\* The upload of the client, as it reaches the server.
LEMMA ChangedNote ==
    ASSUME ClipboardAssumption, NEW u, NEW k, Sound(u, k), u.queue # <<>>, NEW t,
           NEW p, p.seq \in Nat, NEW c \in Clients, NEW id \in Ids, Followed(u, p, c, id),
           Head(u.queue).kind = "changed", Head(u.queue).who = c, Head(u.queue).id = id,
           SameRound(Advanced(u), t), Updated(Advanced(u), t, c, id, Head(u.queue).seq)
    PROVE  t.unexpected \/ Followed(t, p, c, id)
<1> DEFINE s == Advanced(u)
           e == Head(u.queue)
<1>1. /\ s.listed = u.listed /\ s.active = u.active /\ s.copy = u.copy
      /\ s.owner = u.owner /\ s.seq = u.seq /\ s.data = u.data /\ s.dirty = u.dirty
      /\ s.out = u.out /\ Shorter(u.queue, s.queue, e) /\ e \in EventType
  BY AdvancedIs
<1>2. IsNote(e, c, id) /\ ~SendFor(e, c, id) /\ e.kind = "changed" /\ e.who = c
  BY DEF IsNote, SendFor
<1>3. e.seq \in Nat /\ u.seq[id] \in Nat /\ c # Primary
  BY <1>1 DEF EventType, Sound, Typed, Server, ClipboardAssumption
<1>4. SameRound(s, t) /\ Updated(s, t, c, id, e.seq)
  OBVIOUS
<1>5. CASE Stale(s, id, e.seq)
  <2>1. t = s
    BY <1>3, <1>4, <1>5 DEF Updated
  <2>2. ~(u.seq[id] <= e.seq)
    BY <1>1, <1>3, <1>5 DEF Stale
  <2>3. Followed(s, p, c, id)
    BY <1>2, <2>2, PopNote
  <2> QED
    BY <2>1, <2>3
<1>6. CASE ~Stale(s, id, e.seq)
  <2> HIDE DEF s, e
  <2>1. u.seq[id] <= e.seq
    BY <1>1, <1>3, <1>6 DEF Stale
  <2>2. t.data[id] = u.copy[c][id] /\ t.copy[c][id] = u.copy[c][id]
    BY <1>1, <1>3, <1>4, <1>6 DEF Updated
  <2>3. t.owner = u.owner /\ t.seq = u.seq /\ t.out = u.out
    BY <1>1, <1>4 DEF SameRound
  <2>4. PICK f : /\ t.queue = s.queue \/ Longer(s.queue, t.queue, f)
                 /\ ~IsNote(f, c, id) /\ (f.who = c => f.seq = 0)
    <3>1. CASE Posted(s, t, id)
      BY <3>1 DEF Posted, IsNote, SendFor
    <3>2. CASE t.queue = s.queue
      <4>1. ~IsNote(Nothing, c, id) /\ Nothing.seq = 0
        BY DEF IsNote, Nothing, Event
      <4> QED
        BY <3>2, <4>1
    <3> QED
      BY <1>4, <3>1, <3>2 DEF Updated
  <2>5. /\ Mine(u.queue, p, c) => Mine(s.queue, p, c) /\ e.seq <= p.seq
        /\ Coming(u.queue, c, id) => Coming(s.queue, c, id)
    BY <1>1, <1>2, QueueShorter
  <2>6. /\ News(s.queue, t.queue, c, id) /\ (Mine(s.queue, p, c) => Mine(t.queue, p, c))
        /\ Coming(s.queue, c, id) => Coming(t.queue, c, id)
    BY <2>4, QueueLonger, MineLonger DEF News
  <2>7. Own(t, p, c) /\ e.seq <= p.seq
    BY <2>5, <2>6 DEF Followed, Own
  <2>8. ~Old(u, p, c, id)
    BY <1>3, <2>1, <2>7 DEF Old
  <2>9. Due(u, c, id) => Due(t, c, id)
    BY <2>3, <2>5, <2>6 DEF Due
  <2>10. Owner(t, p, c, id)
    BY <2>3, <2>5, <2>6, <2>8, StillCaught DEF Followed, Owner, InTime
  <2>11. Void(u, p, c, id) => Void(t, p, c, id)
    BY <2>8, <2>9 DEF Void
  <2>12. Heard(u, p, c, id)
    BY DEF Followed
  <2> QED
    BY <1>1, <1>2, <2>2, <2>3, <2>6, <2>7, <2>9, <2>10, <2>11, <2>12, NoteTaken
<1> QED
  BY <1>5, <1>6

LEMMA FollowedType ==
    ASSUME ClipboardAssumption, NEW s, NEW k, Sound(s, k), NEW c \in s.listed \ {Primary}
    PROVE  c \in Clients /\ c \in Screens /\ c # Primary /\ k[c] \in Client /\ k[c].seq \in Nat
  BY DEF Sound, Typed, Server, Screens, Client

LEMMA DispatchFollows ==
    ASSUME ClipboardAssumption, IInv, AllFollowed(server, client), Dispatch
    PROVE  AllFollowed(server', client')
<1> DEFINE u == server
           k == client
           e == Head(u.queue)
           s == Advanced(u)
           t == server'
<1>1. u.queue # <<>> /\ client' = client
  BY DEF Dispatch
<1>2. t = CASE e.kind = "grabbed" -> Grabbed(s, e.who, e.id, e.seq)
            [] e.kind = "changed" /\ e.who \in s.listed ->
                 OnClipboardChanged(s, e.who, e.id, e.seq)
            [] e.kind = "send" /\ e.who \in s.listed ->
                 Write(s, e.who, Msg("set", e.id, 0, e.data))
            [] OTHER -> s
  BY DEF Dispatch, Advanced
<1>3. Sound(u, k) /\ Kept(u, k) /\ AllServed(u)
  BY DEF IInv
<1>4. /\ s.listed = u.listed /\ s.unexpected = u.unexpected /\ SameBuffer(u, s)
      /\ s.queue = Tail(u.queue) /\ Shorter(u.queue, s.queue, e) /\ e \in EventType
      /\ s.active = u.active
  BY <1>1, <1>3, AdvancedIs
<1>5. e.id \in Ids /\ e.seq \in Nat /\ Sound(s, k)
  BY <1>1, <1>3, <1>4, PopKeepsSound DEF EventType
<1>6. SUFFICES /\ SameBuffer(u, t) /\ t.listed = u.listed /\ (u.unexpected => t.unexpected)
               /\ \A c \in u.listed \ {Primary}, id \in Ids :
                    Followed(u, k[c], c, id) => t.unexpected \/ Followed(t, k[c], c, id)
  BY <1>1, ServerMoves
<1>7. ASSUME NEW c \in u.listed \ {Primary}
      PROVE  c \in Clients /\ c \in Screens /\ c # Primary /\ k[c].seq \in Nat
  BY <1>3, FollowedType
<1> HIDE DEF t
<1>8. CASE t = s /\ ~(e.kind = "send" /\ e.who \in u.listed)
                 /\ ~(e.kind = "changed" /\ e.who \in u.listed)
  <2> SUFFICES ASSUME NEW c \in u.listed \ {Primary}, NEW id \in Ids, Followed(u, k[c], c, id)
               PROVE  Followed(s, k[c], c, id)
    BY <1>4, <1>8
  <2>1. CASE IsNote(e, c, id)
    <3>1. e.kind # "changed"
      BY <1>8, <2>1 DEF IsNote
    <3> QED
      BY <1>1, <1>3, <1>7, <2>1, <3>1, PopNote
  <2>2. CASE ~IsNote(e, c, id)
    <3>1. ~SendFor(e, c, id)
      BY <1>8 DEF SendFor
    <3>2. Gentle(u, s, k[c], c, id)
      BY <1>1, <1>3, <2>2, <3>1, PopGentle
    <3> QED
      BY <1>7, <3>2, GentleKeeps
  <2> QED
    BY <2>1, <2>2
<1>9. CASE e.kind = "send" /\ e.who \in u.listed
  <2>1. t = Write(s, e.who, Msg("set", e.id, 0, e.data))
    BY <1>2, <1>4, <1>9
  <2>2. WrittenBy(u, t, e)
    BY <1>1, <1>3, <1>9, <2>1, SendKeeps
  <2> HIDE DEF s, e
  <2>3. ASSUME NEW c \in u.listed \ {Primary}, NEW id \in Ids, Followed(u, k[c], c, id)
        PROVE  Followed(t, k[c], c, id)
    <3>1. Shorter(u.queue, t.queue, e)
      BY <1>4, <2>2 DEF WrittenBy
    <3>2. Gentle(u, t, k[c], c, id)
      BY <1>7, <1>9, <2>2, <3>1, WrittenGentle
    <3> QED
      BY <1>7, <2>3, <3>2, GentleKeeps
  <2> QED
    BY <2>2, <2>3 DEF WrittenBy
<1>10. CASE e.kind = "changed" /\ e.who \in u.listed
  <2>1. t = OnClipboardChanged(s, e.who, e.id, e.seq)
    BY <1>2, <1>4, <1>10
  <2>2. Idle(u, e)
    BY <1>10 DEF Idle
  <2>3. Kept(s, k) /\ AllServed(s)
    BY <1>1, <1>3, <2>2, PopKeeps
  <2>4. SameRound(s, t) /\ Updated(s, t, e.who, e.id, e.seq)
    <3> HIDE DEF s, e
    <3> QED
      BY <1>4, <1>5, <1>10, <2>1, <2>3, ChangedKeeps
  <2>5. ASSUME NEW c \in u.listed \ {Primary}, NEW id \in Ids, Followed(u, k[c], c, id)
        PROVE  t.unexpected \/ Followed(t, k[c], c, id)
    <3>1. CASE c = e.who /\ id = e.id
      BY <1>1, <1>3, <1>7, <1>10, <2>4, <2>5, <3>1, ChangedNote
    <3>2. CASE ~(c = e.who /\ id = e.id)
      <4>1. ~IsNote(e, c, id) /\ ~SendFor(e, c, id)
        BY <1>10, <3>2 DEF IsNote, SendFor
      <4>2. Gentle(u, s, k[c], c, id)
        BY <1>1, <1>3, <4>1, PopGentle
      <4> HIDE DEF s, e
      <4>3. t.unexpected \/ Gentle(s, t, k[c], c, id)
        BY <1>5, <1>7, <2>4, <3>2, UpdateGentle
      <4> QED
        BY <1>7, <2>5, <4>2, <4>3, GentleThen, GentleKeeps
    <3> QED
      BY <3>1, <3>2
  <2> QED
    BY <1>4, <2>4, <2>5 DEF SameRound, Updated, SameBuffer
<1>11. CASE e.kind = "grabbed" /\ Accepted(u, e)
  <2> DEFINE told == Told(u, e)
  <2>1. t = IF e.who = Primary /\ u.active # Primary THEN Resend(Resend(told, 0), 1) ELSE told
    <3>1. t = Grabbed(s, e.who, e.id, e.seq)
      BY <1>2, <1>11
    <3> QED
      BY <1>1, <1>3, <1>11, <3>1, GrabbedIs
  <2>2. Sound(told, k) /\ Kept(told, k) /\ AllServed(told) /\ ToldBy(u, told, e)
    BY <1>1, <1>3, <1>11, ToldKeeps
  <2> HIDE DEF told, s, e
  <2>3. Shorter(u.queue, told.queue, e) /\ told.listed = u.listed /\ SameBuffer(u, told)
        /\ told.unexpected = u.unexpected
    BY <1>4, <2>2 DEF ToldBy
  <2>4. ASSUME NEW c \in u.listed \ {Primary}, NEW id \in Ids, Followed(u, k[c], c, id)
        PROVE  Followed(told, k[c], c, id)
    <3>1. CASE c = e.who /\ id = e.id
      BY <1>4, <1>7, <1>11, <2>2, <2>3, <2>4, <3>1, ToldNote
    <3>2. CASE ~(c = e.who /\ id = e.id)
      <4>1. Gentle(u, told, k[c], c, id)
        BY <1>7, <1>11, <2>2, <2>3, <3>2, ToldGentle
      <4> QED
        BY <1>7, <2>4, <4>1, GentleKeeps
    <3> QED
      BY <3>1, <3>2
  <2>5. CASE ~(e.who = Primary /\ u.active # Primary)
    BY <2>1, <2>3, <2>4, <2>5
  <2>6. CASE e.who = Primary /\ u.active # Primary
    <3> DEFINE x == Resend(told, 0)
               y == Resend(x, 1)
    <3>0. 0 \in Ids /\ 1 \in Ids /\ Primary \in u.listed
      BY <1>3 DEF Ids, ClipboardEnd, Sound, Typed
    <3>1. /\ Sound(x, k) /\ Kept(x, k) /\ AllServed(x) /\ SameRound(told, x)
          /\ Updated(told, x, Primary, 0, told.seq[0])
      BY <2>2, <2>3, <3>0, ChangedKeeps DEF Resend
    <3>2. t = y
      BY <2>1, <2>6
    <3> HIDE DEF x
    <3>3. Primary \in x.listed
      BY <2>3, <3>0, <3>1 DEF SameRound
    <3>4. SameRound(x, y) /\ Updated(x, y, Primary, 1, x.seq[1])
      BY <3>0, <3>1, <3>3, ChangedKeeps DEF Resend
    <3> HIDE DEF y
    <3>5. ASSUME NEW c \in u.listed \ {Primary}, NEW id \in Ids, Followed(u, k[c], c, id)
          PROVE  t.unexpected \/ Followed(t, k[c], c, id)
      <4>1. t.unexpected \/ Gentle(told, t, k[c], c, id)
        BY <1>7, <3>1, <3>2, <3>4, TwoUpdates
      <4> QED
        BY <1>7, <2>4, <3>5, <4>1, GentleKeeps
    <3>6. SameBuffer(u, t) /\ t.listed = u.listed /\ (u.unexpected => t.unexpected)
      BY <2>3, <3>1, <3>2, <3>4 DEF SameRound, Updated, SameBuffer
    <3> QED
      BY <3>5, <3>6
  <2> QED
    BY <2>5, <2>6
<1>12. CASE e.kind = "grabbed" /\ ~Accepted(u, e)
  <2>1. t = s
    <3>1. t = Grabbed(s, e.who, e.id, e.seq)
      BY <1>2, <1>12
    <3> QED
      BY <1>1, <1>3, <1>12, <3>1, GrabbedIs
  <2> QED
    BY <1>8, <1>12, <2>1
<1>13. CASE e.kind # "grabbed" /\ ~(e.kind \in {"changed", "send"} /\ e.who \in u.listed)
  <2>1. t = s
    BY <1>2, <1>4, <1>13
  <2> QED
    BY <1>8, <1>13, <2>1
<1> QED
  BY <1>9, <1>10, <1>11, <1>12, <1>13

-----------------------------------------------------------------------------
(* A switch, for a client.                                                  *)

\* Something other than a clipboard is written, to this client or another.
LEMMA WroteGentle ==
    ASSUME NEW s, NEW t, NEW dst, NEW m, Wrote(s, t, dst, m),
           NEW p, p.seq \in Nat, NEW c \in Clients, NEW id \in Ids
    PROVE  /\ Steady(s, t, p, c, id)
           /\ t.active # c /\ (c = dst => m.kind # "enter") => Gentle(s, t, p, c, id)
<1>1. ~IsNote(Nothing, c, id) /\ Nothing.seq = 0
  BY DEF IsNote, Nothing, Event
<1>2. /\ t.dirty = s.dirty /\ t.copy = s.copy /\ t.queue = s.queue
      /\ t.owner = s.owner /\ t.seq = s.seq /\ t.data = s.data
      /\ IF c = dst THEN Longer(s.out[c], t.out[c], m) ELSE t.out[c] = s.out[c]
  BY DEF Wrote
<1>3. Steady(s, t, p, c, id)
  BY <1>1, <1>2, Adding
<1>4. t.active # c /\ (c = dst => m.kind # "enter") /\ Old(s, p, c, id) => Old(t, p, c, id)
  BY <1>2, StaysOld
<1> QED
  BY <1>3, <1>4 DEF Gentle

\* A clipboard is sent to the active screen.
Offered(s, t, i) == IF WithinLimit(s, i) THEN SameBut(s, t) /\ Sent(s, t, i) ELSE t = s

LEMMA OfferGentle ==
    ASSUME NEW s, NEW t, NEW i \in Ids, Offered(s, t, i),
           NEW p, p.seq \in Nat, NEW c \in Clients, NEW id \in Ids, c \in Screens, c # Primary
    PROVE  /\ Steady(s, t, p, c, id) /\ SameBuffer(s, t) /\ SameBut(s, t)
           /\ c # s.active => Gentle(s, t, p, c, id)
           /\ id # i => t.dirty[c][id] = s.dirty[c][id]
           /\ c = s.active /\ id = i /\ s.dirty[c][id] /\ WithinLimit(s, i)
                => Coming(t.queue, c, id)
<1>1. CASE t = s
  <2>1. ~(c = s.active /\ s.dirty[c][id] /\ id = i /\ WithinLimit(s, i) /\ ~Coming(t.queue, c, id))
    <3> SUFFICES ASSUME c = s.active, s.dirty[c][id], id = i, WithinLimit(s, i)
                 PROVE  FALSE
      OBVIOUS
    <3>1. Posted(s, t, id)
      BY DEF Offered, Sent
    <3> QED
      BY <1>1, <3>1 DEF Posted, Longer
  <2>2. SameBuffer(s, t) /\ SameBut(s, t)
    BY <1>1 DEF SameBuffer, SameBut
  <2>3. Gentle(s, t, p, c, id)
    BY <1>1, Itself
  <2> QED
    BY <1>1, <2>1, <2>2, <2>3 DEF Gentle
<1>2. CASE SameBut(s, t) /\ Sent(s, t, i)
  <2>1. PICK e : /\ ~IsNote(e, c, id) /\ (e.who = c => e.seq = 0)
                 /\ \/ t.queue = s.queue /\ t.copy = s.copy /\ (c = s.active => ~s.dirty[c][i])
                    \/ Longer(s.queue, t.queue, e) /\ SendFor(e, s.active, i)
    <3>1. CASE Posted(s, t, i)
      BY <3>1 DEF Posted, IsNote, SendFor
    <3>2. CASE t.queue = s.queue /\ t.copy = s.copy /\ ~(s.dirty[s.active][i] /\ s.active # Primary)
      <4>1. ~IsNote(Nothing, c, id) /\ Nothing.seq = 0
        BY DEF IsNote, Nothing, Event
      <4> QED
        BY <3>2, <4>1
    <3> QED
      BY <1>2, <3>1, <3>2 DEF Sent
  <2>2. /\ t.owner = s.owner /\ t.seq = s.seq /\ t.data = s.data /\ t.out = s.out
        /\ t.active = s.active
    BY <1>2 DEF SameBut
  <2>3. t.copy[c][id] = s.copy[c][id] \/ (SendFor(e, c, id) /\ Longer(s.queue, t.queue, e))
    BY <1>2, <2>1 DEF Sent
  <2>4. Steady(s, t, p, c, id)
    BY <2>1, <2>2, <2>3, Adding
  <2>5. c # s.active \/ id # i => t.dirty[c][id] = s.dirty[c][id]
    BY <1>2 DEF Sent
  <2>6. c # s.active => Gentle(s, t, p, c, id)
    BY <2>2, <2>4, <2>5, StaysOld DEF Gentle
  <2>7. Longer(s.queue, t.queue, e) /\ SendFor(e, c, id) => Coming(t.queue, c, id)
    BY <2>1, QueueLonger
  <2> QED
    BY <1>2, <2>1, <2>4, <2>5, <2>6, <2>7 DEF Sent
<1> QED
  BY <1>1, <1>2 DEF Offered

\* The screen is entered and sent both clipboards.
LEMMA EnteredGentle ==
    ASSUME NEW s, NEW k, NEW x, NEW y, NEW t, NEW dst, NEW m,
           Wrote(s, x, dst, m), m.kind = "enter", m.seq = x.seqNum, x.active = dst,
           Sound(x, k), Kept(x, k), Offered(x, y, 0), Offered(y, t, 1),
           NEW p, p.seq \in Nat, NEW c \in Clients, NEW id \in Ids, c \in Screens, c # Primary
    PROVE  x.unexpected \/ Gentle(s, t, p, c, id)
<1>0. 0 \in Ids /\ 1 \in Ids /\ id \in {0, 1}
  BY DEF Ids, ClipboardEnd
<1>1. /\ Steady(s, x, p, c, id) /\ (c # dst => Gentle(s, x, p, c, id))
  BY WroteGentle
<1>2. /\ Steady(x, y, p, c, id) /\ SameBut(x, y)
      /\ c # dst => Gentle(x, y, p, c, id)
      /\ id # 0 => y.dirty[c][id] = x.dirty[c][id]
      /\ c = dst /\ id = 0 /\ x.dirty[c][id] /\ WithinLimit(x, 0) => Coming(y.queue, c, id)
  BY <1>0, OfferGentle
<1>3. y.active = dst
  BY <1>2 DEF SameBut
<1>4. /\ Steady(y, t, p, c, id) /\ SameBut(y, t)
      /\ c # dst => Gentle(y, t, p, c, id)
      /\ c = dst /\ id = 1 /\ y.dirty[c][id] /\ WithinLimit(y, 1) => Coming(t.queue, c, id)
  BY <1>0, <1>3, OfferGentle
<1>5. CASE c # dst
  BY <1>1, <1>2, <1>4, <1>5, GentleThen
<1>6. CASE c = dst
  <2>1. Steady(s, t, p, c, id)
    BY <1>1, <1>2, <1>4, SteadyThen
  <2>2. ASSUME ~x.unexpected, t.owner[id] = c, Old(s, p, c, id)
        PROVE  Due(t, c, id) /\ InTime(t, p, c, id)
    <3>1. /\ t.owner = x.owner /\ t.seq = x.seq /\ t.out = x.out /\ y.shown = x.shown
      BY <1>2, <1>4 DEF SameBut
    <3>2. WithinLimit(x, id) /\ WithinLimit(y, id)
      <4>1. Here(x, id) /\ x.owner[id] # Primary
        BY <2>2, <3>1 DEF Kept
      <4> QED
        BY <3>1, <4>1 DEF Here, WithinLimit
    <3>3. x.dirty[c][id]
      BY <2>2 DEF Old, Wrote
    <3>4. Coming(t.queue, c, id)
      <4>1. CASE id = 0
        <5>1. Coming(y.queue, c, id)
          BY <1>2, <1>6, <3>2, <3>3, <4>1
        <5>2. CASE t = y
          BY <5>1, <5>2
        <5>3. CASE Sent(y, t, 1)
          <6>1. CASE t.queue = y.queue
            BY <5>1, <6>1
          <6>2. CASE Posted(y, t, 1)
            <7>1. PICK e : SendFor(e, y.active, 1) /\ Longer(y.queue, t.queue, e)
              BY <6>2 DEF Posted
            <7>2. ~IsNote(e, c, id)
              BY <7>1 DEF SendFor, IsNote
            <7> QED
              BY <5>1, <7>1, <7>2, QueueLonger
          <6> QED
            BY <5>3, <6>1, <6>2 DEF Sent
        <5> QED
          BY <5>2, <5>3 DEF Offered
      <4>2. CASE id = 1
        <5>1. id # 0 /\ WithinLimit(y, 1)
          BY <3>2, <4>2
        <5>2. y.dirty[c][id]
          BY <1>2, <3>3, <5>1
        <5> QED
          BY <1>4, <1>6, <4>2, <5>1, <5>2
      <4> QED
        BY <1>0, <4>1, <4>2
    <3>5. x.seq[id] <= x.seqNum
      BY DEF Sound, Numbered
    <3>6. Longer(s.out[c], x.out[c], m)
      BY <1>6 DEF Wrote
    <3>7. Len(x.out[c]) \in 1 .. Len(x.out[c]) /\ x.out[c][Len(x.out[c])] = m
      BY <3>6 DEF Longer
    <3>8. Enter(m, t.seq[id])
      BY <3>1, <3>5 DEF Enter
    <3> HIDE DEF Enter
    <3> QED
      BY <3>1, <3>4, <3>7, <3>8 DEF Due, InTime, Caught
  <2> QED
    BY <2>1, <2>2 DEF Gentle
<1> QED
  BY <1>5, <1>6

LEMMA SwitchFollows ==
    ASSUME ClipboardAssumption, IInv, AllFollowed(server, client), SwitchScreen
    PROVE  AllFollowed(server', client')
<1> PICK dst \in server.listed \ {server.active} : server' = Switched(dst)
  BY DEF SwitchScreen
<1> DEFINE s == server
           k == client
           Update(z, id) == IF z.owner[id] = Primary
                            THEN OnClipboardChanged(z, Primary, id, z.seq[id]) ELSE z
           Send(z, id) == IF WithinLimit(z, id) THEN SetClipboard(z, dst, id) ELSE z
           left == IF server.active = Primary THEN Update(Update(server, 0), 1)
                   ELSE Write(server, server.active, Msg("leave", 0, 0, Empty))
           entered == EnteredBy(left, dst)
           first == Send(entered, 0)
           second == Send(first, 1)
<1>0. client' = client /\ 0 \in Ids /\ 1 \in Ids
  BY DEF SwitchScreen, Ids, ClipboardEnd
<1>1. Sound(s, k) /\ Kept(s, k) /\ AllServed(s) /\ Primary \in s.listed
  BY DEF IInv, Sound, Typed
<1>2. server' = second
  BY DEF Switched, AllIds, EnteredBy
<1>3. ASSUME NEW c \in s.listed \ {Primary}
      PROVE  c \in Clients /\ c \in Screens /\ c # Primary /\ k[c].seq \in Nat
  BY <1>1, FollowedType
<1>4. /\ Sound(left, k) /\ Kept(left, k) /\ left.listed = s.listed /\ SameBuffer(s, left)
      /\ s.unexpected => left.unexpected
      /\ \A c \in s.listed \ {Primary}, id \in Ids :
           left.unexpected \/ Gentle(s, left, k[c], c, id)
  <2>1. CASE s.active = Primary
    <3> DEFINE x == Update(s, 0)
               y == Update(x, 1)
    <3>1. /\ Sound(x, k) /\ Kept(x, k) /\ AllServed(x) /\ SameRound(s, x)
          /\ Updated(s, x, Primary, 0, s.seq[0])
      <4>1. SameRound(s, s) /\ Updated(s, s, Primary, 0, s.seq[0])
        BY DEF SameRound, Updated, SameBuffer
      <4> QED
        BY <1>0, <1>1, <4>1, ChangedKeeps
    <3>2. left = y
      BY <2>1
    <3> HIDE DEF x, left
    <3>3. Primary \in x.listed
      BY <1>1, <3>1 DEF SameRound
    <3>4. /\ Sound(y, k) /\ Kept(y, k) /\ SameRound(x, y) /\ Updated(x, y, Primary, 1, x.seq[1])
      <4>1. SameRound(x, x) /\ Updated(x, x, Primary, 1, x.seq[1])
        BY DEF SameRound, Updated, SameBuffer
      <4> QED
        BY <1>0, <3>1, <3>3, <4>1, ChangedKeeps
    <3> HIDE DEF y
    <3>5. \A c \in s.listed \ {Primary}, id \in Ids : y.unexpected \/ Gentle(s, y, k[c], c, id)
      BY <1>3, <3>1, <3>4, TwoUpdates
    <3> QED
      BY <3>1, <3>2, <3>4, <3>5 DEF SameRound, Updated, SameBuffer
  <2>2. CASE s.active # Primary
    <3> DEFINE y == Write(s, s.active, Msg("leave", 0, 0, Empty))
    <3>1. left = y
      BY <2>2
    <3>2. /\ Sound(y, k) /\ Kept(y, k) /\ y.listed = s.listed /\ y.active = s.active
          /\ SameBuffer(s, y) /\ \E m : Wrote(s, y, s.active, m) /\ m.kind = "leave"
      BY <1>1, <2>2, LeaveKeeps
    <3> HIDE DEF left, y
    <3>3. PICK m : Wrote(s, y, s.active, m) /\ m.kind = "leave"
      BY <3>2
    <3>4. ASSUME NEW c \in s.listed \ {Primary}, NEW id \in Ids
          PROVE  Gentle(s, y, k[c], c, id)
      <4>1. Steady(s, y, k[c], c, id)
        BY <1>3, <3>3, WroteGentle
      <4>2. Old(s, k[c], c, id) => Gentle(s, y, k[c], c, id)
        BY <1>3, <3>2, <3>3, WroteGentle DEF Old
      <4> QED
        BY <4>1, <4>2 DEF Gentle
    <3> QED
      BY <3>1, <3>2, <3>3, <3>4 DEF Wrote
  <2> QED
    BY <2>1, <2>2
<1> HIDE DEF left, second
<1>5. /\ Sound(entered, k) /\ Kept(entered, k) /\ entered.active = dst
      /\ SameBuffer(left, entered)
      /\ \E m : Wrote(left, entered, dst, m) /\ m.kind = "enter" /\ m.seq = entered.seqNum
  BY <1>4, EnterKeeps
<1> HIDE DEF entered
<1>6. Sound(first, k) /\ Kept(first, k) /\ first.active = dst /\ Offered(entered, first, 0)
  BY <1>0, <1>5, OfferKeeps DEF Offered
<1> HIDE DEF first
<1>7. Offered(first, second, 1)
  BY <1>0, <1>6, OfferKeeps DEF Offered, second
<1>8. PICK m : Wrote(left, entered, dst, m) /\ m.kind = "enter" /\ m.seq = entered.seqNum
  BY <1>5
<1>9. /\ SameBuffer(s, second) /\ second.listed = s.listed
      /\ second.unexpected = entered.unexpected /\ entered.unexpected = left.unexpected
  <2>1. SameBuffer(entered, first) /\ first.listed = entered.listed
        /\ first.unexpected = entered.unexpected
    BY <1>6 DEF Offered, Sent, SameBut, SameBuffer
  <2>2. SameBuffer(first, second) /\ second.listed = first.listed
        /\ second.unexpected = first.unexpected
    BY <1>7 DEF Offered, Sent, SameBut, SameBuffer
  <2> QED
    BY <1>4, <1>5, <1>8, <2>1, <2>2 DEF Wrote, SameBuffer
<1>10. ASSUME NEW c \in s.listed \ {Primary}, NEW id \in Ids, Followed(s, k[c], c, id),
              ~second.unexpected
       PROVE  Followed(second, k[c], c, id)
  <2>1. Gentle(s, left, k[c], c, id)
    BY <1>4, <1>9, <1>10
  <2>2. Gentle(left, second, k[c], c, id)
    BY <1>3, <1>5, <1>6, <1>7, <1>8, <1>9, <1>10, EnteredGentle
  <2>3. Gentle(s, second, k[c], c, id)
    BY <2>1, <2>2, GentleThen
  <2> QED
    BY <1>3, <1>10, <2>3, GentleKeeps
<1> QED
  BY <1>0, <1>2, <1>4, <1>9, <1>10, ServerMoves

-----------------------------------------------------------------------------
(* A user copies on the server's screen.                                    *)

LEMMA CopyOnPrimaryFollows ==
    ASSUME ClipboardAssumption, IInv, AllFollowed(server, client), CopyOnPrimary
    PROVE  AllFollowed(server', client')
<1> DEFINE s == server
           k == client
           t == server'
<1>0. /\ Sound(s, k) /\ client' = client /\ s \in Server /\ s.queue \in Seq(EventType)
      /\ s.screenSeq \in Nat
  BY DEF IInv, CopyOnPrimary, Sound, Typed, Server
<1>1. PICK id \in Ids, d \in Data :
        t = Post([server EXCEPT !.content[id] = d],
                 Event("grabbed", Primary, id, server.screenSeq, Empty))
  BY DEF CopyOnPrimary, ClipboardAssumption
<1> DEFINE e == Event("grabbed", Primary, id, s.screenSeq, Empty)
           q == Append(s.queue, e)
           content == [s.content EXCEPT ![id] = d]
<1>2. t = [s EXCEPT !.content = content, !.queue = q]
  BY <1>0, <1>1 DEF Post, Server
<1>3. e \in EventType /\ e.kind = "grabbed" /\ e.who = Primary
  BY <1>0 DEF EventType, Event, Screens, Value
<1> HIDE DEF e
<1>4. Longer(s.queue, q, e)
  BY <1>0, <1>3, Appended
<1> HIDE DEF q, content, t
<1>5. /\ t.unexpected = s.unexpected /\ t.data = s.data /\ t.dirty = s.dirty
      /\ t.listed = s.listed /\ t.active = s.active /\ t.owner = s.owner /\ t.seq = s.seq
      /\ t.out = s.out /\ t.queue = q /\ t.copy = s.copy /\ SameBuffer(s, t)
  BY <1>0, <1>2 DEF Server, SameBuffer
<1>6. ASSUME NEW c \in s.listed \ {Primary}, NEW i \in Ids, Followed(s, k[c], c, i)
      PROVE  Followed(t, k[c], c, i)
  <2>1. k[c].seq \in Nat /\ ~IsNote(e, c, i) /\ e.who # c
    BY <1>0, <1>3, FollowedType DEF IsNote
  <2>2. Steady(s, t, k[c], c, i)
    BY <1>4, <1>5, <2>1, Adding
  <2>3. Old(s, k[c], c, i) => Old(t, k[c], c, i)
    BY <1>5 DEF Old
  <2> QED
    BY <1>6, <2>1, <2>2, <2>3, GentleKeeps DEF Gentle
<1> QED
  BY <1>0, <1>5, <1>6, ServerMoves DEF t

-----------------------------------------------------------------------------
(* What the server receives, for the client that has sent it and the others. *)

NoteOf(e, c, m) == e.who = c /\ e.id = m.id /\ e.seq = m.seq
Handover(s, t, c, m) ==
    /\ SameBoard(s, t) /\ (s.mixed => t.mixed)
    /\ m.kind = "grab" => /\ SameBuffer(s, t) /\ t.copy = s.copy
                          /\ \E e \in EventType :
                               /\ e.kind = "grabbed" /\ NoteOf(e, c, m)
                               /\ Longer(s.queue, t.queue, e)
    /\ m.kind = "start" => /\ t.queue = s.queue /\ t.copy = s.copy
                           /\ t.cached = 0 /\ t.filling = c
                           /\ t.mixed <=> s.mixed \/ s.filling \notin {Empty, c}
    /\ m.kind = "data" /\ s.cached = 0 =>
         /\ t.mixed = s.mixed /\ t.filling = Empty /\ t.copy[c][m.id] = m.data
         /\ \A d \in Clients, i \in Ids : d # c \/ i # m.id => t.copy[d][i] = s.copy[d][i]
         /\ \E e \in EventType :
              e.kind = "changed" /\ NoteOf(e, c, m) /\ Longer(s.queue, t.queue, e)
Handed(p, w, m) ==
    /\ Shorter(p.out, w.out, m) /\ w.local = p.local
    /\ w.seq = p.seq /\ w.content = p.content /\ w.own = p.own

Others(k, j, c) == \A d \in Clients : d # c => j[d] = k[d]

LEMMA ReceivedIs ==
    ASSUME NEW s \in Server, NEW c \in Clients, NEW m \in FromClient
    PROVE  Handover(s, IF m.kind = "grab"
                       THEN Post(s, Event("grabbed", c, m.id, m.seq, Empty))
                       ELSE Assembled(s, c, m), c, m)
<1> DEFINE e == Event("grabbed", c, m.id, m.seq, Empty)
           f == Event("changed", c, m.id, m.seq, Empty)
           t == IF m.kind = "grab" THEN Post(s, e) ELSE Assembled(s, c, m)
<1>1. m.id \in Ids /\ m.seq \in Nat /\ m.data \in Value /\ m.kind \in {"start", "data", "grab"}
  BY DEF FromClient
<1>2. e \in EventType /\ f \in EventType /\ s.queue \in Seq(EventType)
  BY <1>1 DEF EventType, Event, Screens, Value, Server
<1>3. /\ e.kind = "grabbed" /\ NoteOf(e, c, m) /\ f.kind = "changed" /\ NoteOf(f, c, m)
  BY DEF Event, NoteOf
<1> HIDE DEF e, f
<1>4. CASE m.kind = "grab"
  <2> DEFINE q == Append(s.queue, e)
  <2>1. t = [s EXCEPT !.queue = q]
    BY <1>4 DEF Post
  <2>2. Longer(s.queue, q, e)
    BY <1>2, Appended
  <2> HIDE DEF q, t
  <2>3. SameBoard(s, t) /\ t.queue = q /\ t.copy = s.copy /\ SameBuffer(s, t)
    BY <2>1 DEF Server, SameBoard, SameBuffer
  <2>4. Handover(s, t, c, m)
    BY <1>2, <1>3, <1>4, <2>2, <2>3 DEF Handover, SameBuffer
  <2> QED
    BY <2>4 DEF t, e
<1>5. CASE m.kind = "start"
  <2> DEFINE mixed == (s.mixed \/ s.filling \notin {Empty, c})
  <2>1. t = [s EXCEPT !.cached = 0, !.mixed = mixed, !.filling = c]
    BY <1>5 DEF Assembled
  <2> HIDE DEF t
  <2>2. /\ SameBoard(s, t) /\ t.queue = s.queue /\ t.copy = s.copy
        /\ t.cached = 0 /\ t.filling = c /\ t.mixed = mixed
    BY <2>1 DEF Server, SameBoard
  <2>3. Handover(s, t, c, m)
    BY <1>5, <2>2 DEF Handover
  <2> QED
    BY <2>3 DEF t, e
<1>6. CASE m.kind = "data"
  <2> DEFINE n == s.cached + 1
             copy == [s.copy EXCEPT ![c] = [s.copy[c] EXCEPT ![m.id] = m.data]]
             q == Append(s.queue, f)
  <2>1. t = IF s.cached # 0 THEN [s EXCEPT !.cached = n, !.filling = Empty]
            ELSE [s EXCEPT !.cached = n, !.filling = Empty, !.copy = copy, !.queue = q]
    BY <1>6 DEF Assembled, Post, Server, f
  <2>2. Longer(s.queue, q, f)
    BY <1>2, Appended
  <2>3. /\ copy[c][m.id] = m.data
        /\ \A d \in Clients, i \in Ids : d # c \/ i # m.id => copy[d][i] = s.copy[d][i]
    BY <1>1 DEF Server
  <2> HIDE DEF n, copy, q, t
  <2>4. SameBoard(s, t) /\ t.mixed = s.mixed
    BY <2>1 DEF Server, SameBoard
  <2>5. s.cached = 0 => t.filling = Empty /\ t.copy = copy /\ t.queue = q
    BY <2>1 DEF Server
  <2>6. Handover(s, t, c, m)
    BY <1>2, <1>3, <1>6, <2>2, <2>3, <2>4, <2>5 DEF Handover
  <2> QED
    BY <2>6 DEF t, e
<1> QED
  BY <1>1, <1>4, <1>5, <1>6

\* The proxies' buffer.
LEMMA HandedBuffer ==
    ASSUME ClipboardAssumption, NEW s, NEW t, NEW k, NEW j, NEW c \in Clients, c \in s.listed,
           NEW m \in FromClient, Handover(s, t, c, m), Handed(k[c], j[c], m), ~t.mixed,
           Others(k, j, c), OneAtATime(s, k)
    PROVE  OneAtATime(t, j) /\ (m.kind = "data" => s.cached = 0)
<1>0. c # Empty /\ m.kind \in {"start", "data", "grab"} /\ Empty \notin Clients
      /\ t.listed = s.listed
  BY DEF ClipboardAssumption, FromClient, Handover, SameBoard
<1>1. /\ s.filling \in s.listed \cup {Empty} /\ (s.filling # Empty => s.cached = 0)
      /\ \A d \in Clients : \E a, b \in BOOLEAN :
           /\ a <=> s.filling = d
           /\ Alternate(k[d].out, a, b) /\ Alternate(k[d].local, b, FALSE)
  BY DEF OneAtATime
<1>2. PICK a \in BOOLEAN, b \in BOOLEAN :
        /\ a <=> s.filling = c
        /\ Alternate(k[c].out, a, b) /\ Alternate(k[c].local, b, FALSE)
  BY <1>1
<1>3. PICK x \in BOOLEAN : Opens(m, a, x) /\ Alternate(j[c].out, x, b)
  BY <1>2, AlternateShorter DEF Handed
<1>4. /\ t.filling \in s.listed \cup {Empty} /\ (t.filling # Empty => t.cached = 0)
      /\ x <=> t.filling = c
      /\ \A d \in Clients : d # c => (t.filling = d <=> s.filling = d)
      /\ m.kind = "data" => s.cached = 0
  <2>1. CASE m.kind = "grab"
    <3>1. t.filling = s.filling /\ t.cached = s.cached
      BY <2>1 DEF Handover, SameBuffer
    <3>2. x <=> a
      BY <1>3, <2>1 DEF Opens
    <3> QED
      BY <1>1, <1>2, <2>1, <3>1, <3>2
  <2>2. CASE m.kind = "start"
    <3>1. t.filling = c /\ t.cached = 0 /\ s.filling \in {Empty, c}
      BY <2>2 DEF Handover
    <3>2. x /\ ~a
      BY <1>3, <2>2 DEF Opens
    <3>3. s.filling = Empty
      BY <1>2, <3>1, <3>2
    <3> QED
      BY <1>0, <2>2, <3>1, <3>2, <3>3
  <2>3. CASE m.kind = "data"
    <3>1. a /\ ~x
      BY <1>3, <2>3 DEF Opens
    <3>2. s.filling = c /\ s.cached = 0
      BY <1>0, <1>1, <1>2, <3>1
    <3>3. t.filling = Empty
      BY <2>3, <3>2 DEF Handover
    <3> QED
      BY <1>0, <3>1, <3>2, <3>3
  <2> QED
    BY <1>0, <2>1, <2>2, <2>3
<1>5. ASSUME NEW d \in Clients
      PROVE  \E y \in BOOLEAN, z \in BOOLEAN :
               /\ y <=> t.filling = d
               /\ Alternate(j[d].out, y, z) /\ Alternate(j[d].local, z, FALSE)
  <2>1. CASE d = c
    BY <1>2, <1>3, <1>4, <2>1 DEF Handed
  <2>2. CASE d # c
    <3>1. PICK y \in BOOLEAN, z \in BOOLEAN :
            /\ y <=> s.filling = d
            /\ Alternate(k[d].out, y, z) /\ Alternate(k[d].local, z, FALSE)
      BY <1>1
    <3>2. (y <=> t.filling = d) /\ j[d] = k[d]
      BY <1>4, <2>2, <3>1 DEF Others
    <3> QED
      BY <3>1, <3>2
  <2> QED
    BY <2>1, <2>2
<1> QED
  BY <1>0, <1>4, <1>5 DEF OneAtATime

\* For another client.
LEMMA HandedGentle ==
    ASSUME NEW s, NEW t, NEW c, NEW m \in FromClient, Handover(s, t, c, m),
           m.kind = "data" => s.cached = 0,
           NEW p, p.seq \in Nat, NEW d \in Clients, d # c, NEW id \in Ids
    PROVE  Gentle(s, t, p, d, id)
<1>1. SameBoard(s, t) /\ m.kind \in {"start", "data", "grab"}
  BY DEF Handover, FromClient
<1>2. PICK e : /\ t.queue = s.queue \/ Longer(s.queue, t.queue, e)
               /\ ~IsNote(e, d, id) /\ e.who # d
  <2>1. CASE m.kind = "start"
    <3>1. ~IsNote([who |-> c], d, id) /\ [who |-> c].who # d
      BY DEF IsNote
    <3> QED
      BY <2>1, <3>1 DEF Handover
  <2>2. CASE m.kind # "start"
    BY <1>1, <2>2 DEF Handover, NoteOf, IsNote
  <2> QED
    BY <2>1, <2>2
<1>3. t.copy[d][id] = s.copy[d][id]
  BY <1>1 DEF Handover
<1>4. Steady(s, t, p, d, id)
  BY <1>1, <1>2, <1>3, Adding DEF SameBoard
<1>5. Old(s, p, d, id) => Old(t, p, d, id)
  BY <1>1 DEF SameBoard, Old
<1> QED
  BY <1>4, <1>5 DEF Gentle

\* For the client itself: what does not depend on the kind of message.
LEMMA HandedSame ==
    ASSUME NEW s, NEW t, NEW c, NEW id, NEW m, NEW p, NEW w, Handed(p, w, m), SameBoard(s, t),
           NEW e, t.queue = s.queue \/ (Longer(s.queue, t.queue, e) /\ NoteOf(e, c, m)),
           Followed(s, p, c, id)
    PROVE  /\ Own(t, w, c) /\ Owner(t, w, c, id) /\ m.seq <= p.seq
           /\ Due(s, c, id) => Due(t, c, id)
           /\ Void(s, p, c, id) => Void(t, w, c, id)
<1>1. /\ \A i \in 1 .. Len(w.out) : i + 1 \in 1 .. Len(p.out) /\ p.out[i + 1] = w.out[i]
      /\ 1 \in 1 .. Len(p.out) /\ p.out[1] = m
  BY DEF Handed, Shorter
<1>2. w.local = p.local /\ w.seq = p.seq
  BY DEF Handed
<1>3. UpTo(p.out, p.seq) /\ UpTo(p.local, p.seq) /\ Mine(s.queue, p, c)
  BY DEF Followed, Own
<1>4. UpTo(w.out, w.seq) /\ m.seq <= p.seq
  BY <1>1, <1>2, <1>3 DEF UpTo
<1>5. Mine(t.queue, w, c)
  <2>1. Mine(t.queue, p, c)
    BY <1>3, <1>4, MineLonger DEF NoteOf
  <2> QED
    BY <1>2, <2>1 DEF Mine
<1>6. Own(t, w, c)
  BY <1>2, <1>3, <1>4, <1>5 DEF Own
<1>7. Coming(s.queue, c, id) => Coming(t.queue, c, id)
  <2>1. \A i \in 1 .. Len(s.queue) : i \in 1 .. Len(t.queue) /\ t.queue[i] = s.queue[i]
    BY DEF Longer
  <2> QED
    BY <2>1 DEF Coming
<1>8. Due(s, c, id) => Due(t, c, id)
  BY <1>7 DEF Due, SameBoard
<1>9. Old(s, p, c, id) => Old(t, w, c, id)
  BY <1>2 DEF SameBoard, Old
<1>10. InTime(s, p, c, id) => InTime(t, w, c, id)
  BY <1>2, <1>7 DEF SameBoard, InTime, Caught
<1>11. Owner(t, w, c, id)
  BY <1>9, <1>10 DEF SameBoard, Followed, Owner
<1> QED
  BY <1>4, <1>6, <1>8, <1>9, <1>11 DEF Void

LEMMA HandedOther ==
    ASSUME NEW s, NEW t, NEW c \in Clients, NEW id \in Ids, NEW m \in FromClient,
           Handover(s, t, c, m), m.kind = "data" => s.cached = 0,
           NEW p, p.seq \in Nat, NEW w, Handed(p, w, m), m.kind = "start" \/ m.id # id,
           Followed(s, p, c, id)
    PROVE  Followed(t, w, c, id)
<1>1. SameBoard(s, t) /\ m.kind \in {"start", "data", "grab"}
  BY DEF Handover, FromClient
<1>2. PICK e : /\ t.queue = s.queue \/ (Longer(s.queue, t.queue, e) /\ NoteOf(e, c, m))
               /\ ~IsNote(e, c, id)
  <2>1. CASE m.kind = "start"
    <3>1. ~IsNote(Nothing, c, id)
      BY DEF IsNote, Nothing, Event
    <3> QED
      BY <2>1, <3>1 DEF Handover
  <2>2. CASE m.kind # "start"
    BY <1>1, <2>2 DEF Handover, NoteOf, IsNote
  <2> QED
    BY <2>1, <2>2
<1>3. /\ Own(t, w, c) /\ Owner(t, w, c, id)
      /\ Due(s, c, id) => Due(t, c, id)
      /\ Void(s, p, c, id) => Void(t, w, c, id)
  BY <1>1, <1>2, HandedSame
<1>4. News(s.queue, t.queue, c, id)
  BY <1>2, QueueLonger DEF News
<1>5. t.copy[c][id] = s.copy[c][id]
  BY <1>1 DEF Handover
<1>6. m \notin Reports(id) /\ \A u : m \notin LateGrabs(id, u)
  BY DEF Reports, LateGrabs
<1>7. /\ Shorter(p.out, w.out, m) /\ w.local = p.local
      /\ w.seq = p.seq /\ w.content = p.content /\ w.own = p.own
  BY DEF Handed
<1>8. /\ Has(w.out, Reports(id)) <=> Has(p.out, Reports(id))
      /\ \A u : Has(w.out, LateGrabs(id, u)) => Has(p.out, LateGrabs(id, u))
      /\ \A Q : EndsIn(p.out, Reports(id), Q) => EndsIn(w.out, Reports(id), Q)
  BY <1>6, <1>7, HasShorter, EndsInShorter
<1>9. ASSUME NEW u \in 0 .. p.seq, HeardAt(s, p, c, id, u)
      PROVE  HeardAt(t, w, c, id, u)
  <2>0. u \in Nat
    OBVIOUS
  <2>1. Sending(w, id, u) /\ (Reported(w, id) <=> Reported(p, id))
    BY <1>7, <1>8, <1>9 DEF HeardAt, Sending, Reported
  <2>2. Arrived(s, p, c, id, u) => Arrived(t, w, c, id, u)
    BY <1>1, <1>3, <1>4, <1>5, <1>7, <2>0 DEF Arrived, News, SameBoard
  <2>3. ~Has(t.queue, LateNotes(c, id, u))
    BY <1>4, <1>9, <2>0 DEF HeardAt, News
  <2>4. t.owner[id] = c => t.seq[id] <= u \/ Void(t, w, c, id)
    BY <1>1, <1>3, <1>9 DEF HeardAt, SameBoard
  <2> QED
    BY <1>9, <2>1, <2>2, <2>3, <2>4 DEF HeardAt
<1>10. Heard(t, w, c, id)
  BY <1>7, <1>9 DEF Followed, Heard
<1> QED
  BY <1>3, <1>10 DEF Followed

LEMMA HandedOwn ==
    ASSUME NEW s, NEW t, NEW c \in Clients, NEW id \in Ids, NEW m \in FromClient,
           Handover(s, t, c, m), m.kind = "data" => s.cached = 0,
           NEW p, p.seq \in Nat, NEW w, Handed(p, w, m), m.kind # "start", m.id = id,
           Followed(s, p, c, id)
    PROVE  Followed(t, w, c, id)
<1>1. SameBoard(s, t) /\ m.kind \in {"data", "grab"} /\ m.seq \in Nat
  BY DEF Handover, FromClient
<1>2. PICK e \in EventType :
               /\ Longer(s.queue, t.queue, e) /\ NoteOf(e, c, m)
               /\ e.kind = IF m.kind = "grab" THEN "grabbed" ELSE "changed"
  BY <1>1 DEF Handover
<1>3. /\ Own(t, w, c) /\ Owner(t, w, c, id)
      /\ Void(s, p, c, id) => Void(t, w, c, id)
  BY <1>1, <1>2, HandedSame
<1>4. /\ Shorter(p.out, w.out, m) /\ w.local = p.local
      /\ w.seq = p.seq /\ w.content = p.content /\ w.own = p.own
  BY DEF Handed
<1>5. m \in Reports(id)
  BY <1>1 DEF Reports
<1>6. /\ \A u : Has(w.out, LateGrabs(id, u)) \/ m \in LateGrabs(id, u) => Has(p.out, LateGrabs(id, u))
      /\ \A Q : EndsIn(p.out, Reports(id), Q)
                  => EndsIn(w.out, Reports(id), Q) /\ (Has(w.out, Reports(id)) \/ m \in Q)
  BY <1>4, <1>5, HasShorter, EndsInShorter
<1>7. ASSUME NEW u \in 0 .. p.seq, HeardAt(s, p, c, id, u)
      PROVE  HeardAt(t, w, c, id, u)
  <2>1. Sending(w, id, u)
    BY <1>4, <1>6, <1>7 DEF HeardAt, Sending
  <2>2. ~Has(t.queue, LateNotes(c, id, u))
    <3>1. m \notin LateGrabs(id, u)
      BY <1>6, <1>7 DEF HeardAt, Sending
    <3>2. e \notin LateNotes(c, id, u)
      BY <1>1, <1>2, <3>1 DEF LateNotes, LateGrabs, NoteOf
    <3> QED
      BY <1>2, <1>7, <3>2, HasLonger DEF HeardAt
  <2>3. t.owner[id] = c => t.seq[id] <= u \/ Void(t, w, c, id)
    BY <1>1, <1>3, <1>7 DEF HeardAt, SameBoard
  <2>4. ASSUME ~Reported(w, id)
        PROVE  Arrived(t, w, c, id, u)
    <3>1. m \in With(p.content[id], u)
      BY <1>4, <1>6, <1>7, <2>4 DEF HeardAt, Sending, Reported
    <3>2. m.kind = "data" /\ m.data = p.content[id] /\ m.seq = u
      BY <3>1 DEF With
    <3>3. t.copy[c][id] = w.content[id]
      BY <1>4, <3>2 DEF Handover
    <3>4. e \in Notes(c, id) /\ e \in ChangedAt(u)
      BY <1>2, <3>2 DEF Notes, ChangedAt, NoteOf
    <3>5. Has(t.queue, Notes(c, id)) /\ EndsIn(t.queue, Notes(c, id), ChangedAt(u))
      BY <1>2, <3>4, HasLonger, EndsInLonger
    <3> QED
      BY <3>3, <3>5 DEF Arrived
  <2> QED
    BY <2>1, <2>2, <2>3, <2>4 DEF HeardAt
<1>8. Heard(t, w, c, id)
  BY <1>4, <1>7 DEF Followed, Heard
<1> QED
  BY <1>3, <1>8 DEF Followed

LEMMA HandedFollows ==
    ASSUME ClipboardAssumption, NEW s, NEW k, Sound(s, k), AllFollowed(s, k),
           NEW c \in Clients, c \in s.listed, NEW m \in FromClient,
           NEW t, NEW j, Handover(s, t, c, m), Handed(k[c], j[c], m),
           Others(k, j, c)
    PROVE  AllFollowed(t, j)
<1>1. SUFFICES ASSUME ~t.mixed, ~t.unexpected
               PROVE  AllFollowed(t, j)
  BY DEF AllFollowed
<1>2. /\ OneAtATime(s, k) /\ t.listed = s.listed
      /\ \A d \in s.listed \ {Primary}, id \in Ids : Followed(s, k[d], d, id)
  BY <1>1 DEF AllFollowed, Handover, SameBoard
<1>3. OneAtATime(t, j) /\ (m.kind = "data" => s.cached = 0)
  BY <1>1, <1>2, HandedBuffer
<1>4. ASSUME NEW d \in s.listed \ {Primary}, NEW id \in Ids
      PROVE  Followed(t, j[d], d, id)
  <2>1. d \in Clients /\ k[d].seq \in Nat /\ Followed(s, k[d], d, id)
    BY <1>2, FollowedType
  <2>2. CASE d # c
    <3>1. Gentle(s, t, k[d], d, id)
      BY <1>3, <2>1, <2>2, HandedGentle
    <3> QED
      BY <2>1, <2>2, <3>1, GentleKeeps DEF Others
  <2>3. CASE d = c
    <3>1. CASE m.kind = "start" \/ m.id # id
      BY <1>3, <2>1, <2>3, <3>1, HandedOther
    <3>2. CASE m.kind # "start" /\ m.id = id
      BY <1>3, <2>1, <2>3, <3>2, HandedOwn
    <3> QED
      BY <3>1, <3>2
  <2> QED
    BY <2>2, <2>3
<1> QED
  BY <1>2, <1>3, <1>4 DEF AllFollowed

LEMMA ServerReceiveFollows ==
    ASSUME ClipboardAssumption, IInv, AllFollowed(server, client),
           NEW c \in Clients, ServerReceive(c)
    PROVE  AllFollowed(server', client')
<1> DEFINE s == server
           k == client
           p == k[c]
           m == Head(p.out)
           t == IF m.kind = "grab" THEN Post(s, Event("grabbed", c, m.id, m.seq, Empty))
                ELSE Assembled(s, c, m)
           j == [k EXCEPT ![c] = [p EXCEPT !.out = Tail(p.out)]]
<1>0. /\ Sound(s, k) /\ s \in Server /\ k \in [Clients -> Client] /\ c \in s.listed
      /\ p \in Client /\ p.out \in Seq(FromClient) /\ p.out # <<>>
  BY DEF IInv, ServerReceive, Sound, Typed, Client
<1>1. m \in FromClient /\ Shorter(p.out, Tail(p.out), m)
  BY <1>0, Popped
<1>2. server' = t /\ client' = j
  BY DEF ServerReceive
<1>3. Handed(p, j[c], m) /\ Others(k, j, c)
  BY <1>0, <1>1 DEF Handed, Client, Others
<1> HIDE DEF m, j
<1>4. Handover(s, t, c, m)
  BY <1>0, <1>1, ReceivedIs
<1> HIDE DEF t
<1>5. AllFollowed(t, j)
  BY <1>0, <1>1, <1>3, <1>4, HandedFollows
<1> QED
  BY <1>2, <1>5

-----------------------------------------------------------------------------
(* What a client does, for what it has to say.                              *)

\* It has the same to say about a clipboard.
SaysSame(p, w, id) ==
    /\ w.content[id] = p.content[id] /\ (w.own[id] = "sent" => p.own[id] = "sent")
    /\ Has(p.local, Copies(id)) => Has(w.local, Copies(id))
    /\ Has(w.local, Uploads(id)) <=> Has(p.local, Uploads(id))
    /\ Has(w.out, Reports(id)) <=> Has(p.out, Reports(id))
    /\ \A u : Has(w.out, LateGrabs(id, u)) => Has(p.out, LateGrabs(id, u))
    /\ \A Q : EndsIn(p.local, Uploads(id), Q) => EndsIn(w.local, Uploads(id), Q)
    /\ \A Q : EndsIn(p.out, Reports(id), Q) => EndsIn(w.out, Reports(id), Q)

\* The server, but for what it has written.
SameClipboards(s, t) ==
    /\ t.queue = s.queue /\ t.copy = s.copy /\ t.owner = s.owner
    /\ t.seq = s.seq /\ t.data = s.data /\ t.dirty = s.dirty /\ t.active = s.active

LEMMA SameSpeech ==
    ASSUME NEW s, NEW t, NEW p, NEW w, NEW c, NEW id, p.seq \in Nat, w.seq \in Nat,
           p.seq <= w.seq, SaysSame(p, w, id), SameClipboards(s, t),
           Own(t, w, c), Owner(t, w, c, id), Heard(s, p, c, id),
           Due(s, c, id) => Due(t, c, id), Void(s, p, c, id) => Void(t, w, c, id)
    PROVE  Followed(t, w, c, id)
<1>1. ASSUME NEW u \in 0 .. p.seq, HeardAt(s, p, c, id, u)
      PROVE  HeardAt(t, w, c, id, u)
  <2>1. Sending(w, id, u) /\ (Reported(w, id) <=> Reported(p, id))
    BY <1>1 DEF SaysSame, HeardAt, Sending, Reported
  <2>2. w.content[id] = p.content[id]
    BY DEF SaysSame
  <2>3. Arrived(s, p, c, id, u) => Arrived(t, w, c, id, u)
    BY <2>2 DEF Arrived, SameClipboards
  <2>4. ~Has(t.queue, LateNotes(c, id, u))
    BY <1>1 DEF HeardAt, SameClipboards
  <2>5. t.owner[id] = c => t.seq[id] <= u \/ Void(t, w, c, id)
    BY <1>1 DEF HeardAt, SameClipboards
  <2> QED
    BY <1>1, <2>1, <2>3, <2>4, <2>5 DEF HeardAt
<1>2. \A u \in 0 .. p.seq : u \in 0 .. w.seq
  OBVIOUS
<1>3. Heard(t, w, c, id)
  BY <1>1, <1>2 DEF SaysSame, Heard
<1> QED
  BY <1>3 DEF Followed

LEMMA SaysSameThen ==
    ASSUME NEW p, NEW v, NEW w, NEW id, SaysSame(p, v, id), SaysSame(v, w, id)
    PROVE  SaysSame(p, w, id)
  BY DEF SaysSame

LEMMA UpToLonger ==
    ASSUME NEW q, NEW r, NEW e, Longer(q, r, e), NEW top, UpTo(q, top), e.seq <= top
    PROVE  UpTo(r, top)
<1>1. \A i \in 1 .. Len(r) : i \in 1 .. Len(q) \/ i = Len(q) + 1
  BY DEF Longer
<1> QED
  BY <1>1 DEF Longer, UpTo

LEMMA UpToShorter ==
    ASSUME NEW q, NEW r, NEW e, Shorter(q, r, e), NEW top, UpTo(q, top)
    PROVE  UpTo(r, top) /\ e.seq <= top
<1>1. /\ \A i \in 1 .. Len(r) : i + 1 \in 1 .. Len(q) /\ q[i + 1] = r[i]
      /\ 1 \in 1 .. Len(q) /\ q[1] = e
  BY DEF Shorter
<1> QED
  BY <1>1 DEF UpTo

\* sendClipboard of a clipboard.
Uploaded(k, w, id) ==
    /\ w.seq = k.seq /\ w.content = k.content /\ w.out = k.out
    /\ \A i \in Ids : i # id => w.own[i] = k.own[i]
    /\ \/ w = k
       \/ \E l, m, n :
            /\ Longer(k.local, l, m) /\ Longer(l, w.local, n)
            /\ m.kind = "start" /\ m.id = id /\ m.seq = k.seq
            /\ n \in Uploads(id) /\ n \in With(k.content[id], k.seq)

LEMMA SendClipboardIs ==
    ASSUME NEW p \in Client, NEW id \in Ids
    PROVE  LET w == SendClipboard(p, id)
           IN  /\ w \in Client /\ w.active = p.active /\ Uploaded(p, w, id)
               /\ ~Unsent(p, id) => w = p
               /\ w = p => w.own[id] = p.own[id]
<1> DEFINE m == Msg("start", id, p.seq, Empty)
           n == Msg("data", id, p.seq, p.content[id])
           w == SendClipboard(p, id)
<1>1. CASE ~Unsent(p, id) \/ p.content[id] \in Big
  <2>1. w = p
    BY <1>1 DEF SendClipboard
  <2> QED
    BY <2>1 DEF Uploaded
<1>2. CASE ~(~Unsent(p, id) \/ p.content[id] \in Big)
  <2> DEFINE local == p.local \o <<m, n>>
             l == Append(p.local, m)
             own == [p.own EXCEPT ![id] = "sent"]
             data == [p.data EXCEPT ![id] = p.content[id]]
  <2>1. w = [p EXCEPT !.own = own, !.data = data, !.local = local]
    BY <1>2 DEF SendClipboard
  <2>2. /\ own \in [Ids -> {"no", "unsent", "sent"}] /\ own[id] = "sent"
        /\ data \in [Ids -> Value]
        /\ \A i \in Ids : i # id => own[i] = p.own[i]
    BY DEF Client
  <2>3. p.local \in Seq(LocalType) /\ p.content[id] \in Value /\ p.seq \in Nat
    BY DEF Client
  <2>4. /\ m \in LocalType /\ m.kind = "start" /\ m.seq = p.seq /\ m.id = id
        /\ n \in LocalType /\ n \in FromClient
        /\ n.kind = "data" /\ n.seq = p.seq /\ n.data = p.content[id] /\ n.id = id
    BY <2>3 DEF LocalType, FromClient, Msg, Value
  <2> HIDE DEF m, n
  <2>5. local = Append(l, n)
    BY <2>3, <2>4
  <2>6. l \in Seq(LocalType) /\ Longer(p.local, l, m)
    BY <2>3, <2>4, Appended
  <2> HIDE DEF l, local
  <2>7. local \in Seq(LocalType) /\ Longer(l, local, n)
    BY <2>4, <2>5, <2>6, Appended
  <2>8. n \in Uploads(id) /\ n \in With(p.content[id], p.seq)
    BY <2>4 DEF Uploads, With
  <2> HIDE DEF own, data, w
  <2>9. /\ w \in Client /\ w.seq = p.seq /\ w.content = p.content /\ w.out = p.out
        /\ w.local = local /\ w.own = own /\ w.active = p.active
    BY <2>1, <2>2, <2>7 DEF Client
  <2>10. Uploaded(p, w, id)
    BY <2>2, <2>4, <2>6, <2>7, <2>8, <2>9 DEF Uploaded
  <2> QED
    BY <1>2, <2>9, <2>10 DEF w
<1> QED
  BY <1>1, <1>2

LEMMA UploadOther ==
    ASSUME NEW k, NEW w, NEW i, Uploaded(k, w, i), NEW id \in Ids, id # i
    PROVE  SaysSame(k, w, id)
<1>1. w.content = k.content /\ w.out = k.out /\ w.own[id] = k.own[id]
  BY DEF Uploaded
<1>2. CASE w = k
  BY <1>2 DEF SaysSame
<1>3. ASSUME NEW l, NEW m, NEW n, Longer(k.local, l, m), Longer(l, w.local, n),
             m.kind = "start", n \in Uploads(i)
      PROVE  SaysSame(k, w, id)
  <2>1. m \notin Copies(id) /\ m \notin Uploads(id) /\ n \notin Copies(id) /\ n \notin Uploads(id)
    BY <1>3 DEF Copies, Uploads
  <2>2. /\ Has(w.local, Copies(id)) <=> Has(k.local, Copies(id))
        /\ Has(w.local, Uploads(id)) <=> Has(k.local, Uploads(id))
    BY <1>3, <2>1, HasLonger
  <2>3. \A Q : EndsIn(k.local, Uploads(id), Q) => EndsIn(w.local, Uploads(id), Q)
    BY <1>3, <2>1, EndsInLonger
  <2> QED
    BY <1>1, <2>2, <2>3 DEF SaysSame
<1> QED
  BY <1>2, <1>3 DEF Uploaded

LEMMA UploadInOrder ==
    ASSUME NEW k, NEW w, NEW id, Uploaded(k, w, id)
    PROVE  /\ \A b \in BOOLEAN : Alternate(k.local, b, FALSE) => Alternate(w.local, b, FALSE)
           /\ UpTo(k.local, k.seq) /\ k.seq \in Nat => UpTo(w.local, w.seq)
<1>0. w.seq = k.seq
  BY DEF Uploaded
<1>1. CASE w = k
  BY <1>1
<1>2. CASE w # k
  <2>1. PICK l, m, n :
          /\ Longer(k.local, l, m) /\ Longer(l, w.local, n)
          /\ m.kind = "start" /\ m.seq = k.seq
          /\ n \in Uploads(id) /\ n \in With(k.content[id], k.seq)
    BY <1>2 DEF Uploaded
  <2>2. n.kind = "data" /\ n.seq = k.seq
    BY <2>1 DEF With
  <2>3. Opens(m, FALSE, TRUE) /\ Opens(n, TRUE, FALSE)
    BY <2>1, <2>2 DEF Opens
  <2>4. ASSUME NEW b \in BOOLEAN, Alternate(k.local, b, FALSE)
        PROVE  Alternate(w.local, b, FALSE)
    <3>1. Alternate(l, b, TRUE)
      BY <2>1, <2>3, <2>4, AlternateLonger
    <3> QED
      BY <2>1, <2>3, <3>1, AlternateLonger
  <2>5. ASSUME UpTo(k.local, k.seq), k.seq \in Nat
        PROVE  UpTo(w.local, w.seq)
    <3>1. UpTo(l, k.seq)
      BY <2>1, <2>5, UpToLonger
    <3> QED
      BY <1>0, <2>1, <2>2, <2>5, <3>1, UpToLonger
  <2> QED
    BY <2>4, <2>5
<1> QED
  BY <1>1, <1>2

\* An upload that has just begun is the last one.
LEMMA UploadOwn ==
    ASSUME NEW k, NEW w, NEW id, Uploaded(k, w, id), w # k, w.seq \in Nat,
           NEW t, NEW c, Own(t, w, c), Owner(t, w, c, id)
    PROVE  Followed(t, w, c, id)
<1>1. PICK l, m, n :
        /\ Longer(k.local, l, m) /\ Longer(l, w.local, n)
        /\ n \in Uploads(id) /\ n \in With(k.content[id], k.seq)
  BY DEF Uploaded
<1>2. w.seq = k.seq /\ w.content = k.content
  BY DEF Uploaded
<1>3. EndsIn(w.local, Uploads(id), With(w.content[id], w.seq)) /\ Has(w.local, Uploads(id))
  BY <1>1, <1>2, EndsInLonger, HasLonger
<1>4. ~Has(w.out, LateGrabs(id, w.seq))
  <2> SUFFICES ASSUME NEW i \in 1 .. Len(w.out), w.out[i] \in LateGrabs(id, w.seq)
               PROVE  FALSE
    BY DEF Has
  <2>1. w.out[i].seq \in Nat /\ w.out[i].seq > w.seq
    BY DEF LateGrabs, FromClient
  <2>2. w.out[i].seq <= w.seq
    BY DEF Own, UpTo
  <2> QED
    BY <2>1, <2>2
<1>5. ~Has(t.queue, LateNotes(c, id, w.seq))
  <2> SUFFICES ASSUME NEW i \in 1 .. Len(t.queue), t.queue[i] \in LateNotes(c, id, w.seq)
               PROVE  FALSE
    BY DEF Has
  <2>1. t.queue[i].seq \in Nat /\ t.queue[i].seq > w.seq /\ t.queue[i].who = c
    BY DEF LateNotes, EventType
  <2>2. t.queue[i].seq <= w.seq
    BY <2>1 DEF Own, Mine
  <2> QED
    BY <2>1, <2>2
<1>6. t.owner[id] = c => t.seq[id] <= w.seq \/ Void(t, w, c, id)
  <2>1. InTime(t, w, c, id) => t.seq[id] <= w.seq \/ Due(t, c, id)
    <3> HIDE DEF Touches, Enter
    <3>1. ASSUME NEW i \in 1 .. Len(t.out[c]), NEW j \in i + 1 .. Len(t.out[c]),
                 Touches(t.out[c][j], id)
          PROVE  Due(t, c, id)
      <4>1. j \in 1 .. Len(t.out[c])
        OBVIOUS
      <4> QED
        BY <3>1, <4>1 DEF Due, Untouched
    <3> QED
      BY <3>1 DEF InTime, Caught, Due
  <2> QED
    BY <2>1 DEF Owner, Void
<1>7. HeardAt(t, w, c, id, w.seq)
  BY <1>3, <1>4, <1>5, <1>6 DEF HeardAt, Sending, Reported
<1>8. Heard(t, w, c, id)
  <2>1. w.seq \in 0 .. w.seq
    OBVIOUS
  <2> QED
    BY <1>7, <2>1 DEF Heard
<1> QED
  BY <1>8 DEF Followed

-----------------------------------------------------------------------------
(* One client moves, and the server but for what it wrote to that client    *)
(* does not.                                                                *)

\* Start and data still alternate in what the client has written and will write.
Alternates(p, a) ==
    \E b \in BOOLEAN : Alternate(p.out, a, b) /\ Alternate(p.local, b, FALSE)
SameElsewhere(s, t, c) ==
    /\ SameClipboards(s, t) /\ SameBuffer(s, t)
    /\ t.listed = s.listed /\ t.unexpected = s.unexpected
    /\ \A d \in Clients : d # c => t.out[d] = s.out[d]

LEMMA ClientMoves ==
    ASSUME ClipboardAssumption, NEW s, NEW k, Sound(s, k), AllFollowed(s, k), NEW c \in Clients,
           NEW t, NEW j, SameElsewhere(s, t, c), Others(k, j, c),
           \A a \in BOOLEAN : Alternates(k[c], a) => Alternates(j[c], a),
           c \in s.listed =>
             \A id \in Ids : Followed(s, k[c], c, id) => Followed(t, j[c], c, id)
    PROVE  AllFollowed(t, j)
<1>1. SUFFICES ASSUME ~t.mixed, ~t.unexpected
               PROVE  AllFollowed(t, j)
  BY DEF AllFollowed
<1>2. /\ OneAtATime(s, k) /\ t.listed = s.listed /\ t.filling = s.filling /\ t.cached = s.cached
      /\ \A d \in s.listed \ {Primary}, id \in Ids : Followed(s, k[d], d, id)
  BY <1>1 DEF AllFollowed, SameElsewhere, SameBuffer
<1>3. ASSUME NEW d \in Clients
      PROVE  \E a, b \in BOOLEAN :
               /\ a <=> s.filling = d
               /\ Alternate(j[d].out, a, b) /\ Alternate(j[d].local, b, FALSE)
  <2>1. PICK a \in BOOLEAN : (a <=> s.filling = d) /\ Alternates(k[d], a)
    BY <1>2 DEF OneAtATime, Alternates
  <2>2. Alternates(j[d], a)
    BY <2>1 DEF Others
  <2> QED
    BY <2>1, <2>2 DEF Alternates
<1>4. OneAtATime(t, j)
  BY <1>2, <1>3 DEF OneAtATime
<1>5. ASSUME NEW d \in s.listed \ {Primary}, NEW id \in Ids
      PROVE  Followed(t, j[d], d, id)
  <2>1. d \in Clients /\ k[d].seq \in Nat /\ Followed(s, k[d], d, id)
    BY <1>2, FollowedType
  <2>2. CASE d = c
    BY <2>1, <2>2
  <2>3. CASE d # c
    <3>1. Gentle(s, t, k[d], d, id)
      BY <2>1, <2>3 DEF SameElsewhere, SameClipboards, Gentle, Steady, News, Due, InTime, Old
    <3> QED
      BY <2>1, <2>3, <3>1, GentleKeeps DEF Others
  <2> QED
    BY <2>2, <2>3
<1> QED
  BY <1>2, <1>4, <1>5 DEF AllFollowed

\* The server does nothing at all.
LEMMA ServerRests ==
    ASSUME NEW s, NEW c
    PROVE  SameElsewhere(s, s, c)
  BY DEF SameElsewhere, SameClipboards, SameBuffer

\* The number that the client knows is the same.
LEMMA SameNumber ==
    ASSUME NEW s, NEW p, NEW w, NEW c, NEW id, w.seq = p.seq, Followed(s, p, c, id),
           UpTo(w.out, p.seq), UpTo(w.local, p.seq)
    PROVE  /\ Own(s, w, c) /\ Owner(s, w, c, id) /\ Heard(s, p, c, id)
           /\ Void(s, p, c, id) <=> Void(s, w, c, id)
<1>1. Own(s, w, c)
  BY DEF Followed, Own, Mine
<1>2. Old(s, p, c, id) <=> Old(s, w, c, id)
  BY DEF Old
<1>3. InTime(s, p, c, id) <=> InTime(s, w, c, id)
  BY DEF InTime, Caught
<1> QED
  BY <1>1, <1>2, <1>3 DEF Followed, Owner, Void

LEMMA UploadFollows ==
    ASSUME NEW s, NEW p, NEW w, NEW c, NEW id \in Ids, NEW i \in Ids, Uploaded(p, w, i),
           p.seq \in Nat, Followed(s, p, c, id)
    PROVE  Followed(s, w, c, id)
<1>1. CASE w = p
  BY <1>1
<1>2. CASE w # p
  <2>1. w.seq = p.seq /\ w.out = p.out
    BY DEF Uploaded
  <2>2. UpTo(p.out, p.seq) /\ UpTo(p.local, p.seq)
    BY DEF Followed, Own
  <2>3. UpTo(w.local, p.seq)
    BY <2>1, <2>2, UploadInOrder
  <2>4. /\ Own(s, w, c) /\ Owner(s, w, c, id) /\ Heard(s, p, c, id)
        /\ Void(s, p, c, id) <=> Void(s, w, c, id)
    BY <2>1, <2>2, <2>3, SameNumber
  <2>5. CASE id = i
    BY <1>2, <2>1, <2>4, <2>5, UploadOwn
  <2>6. CASE id # i
    <3>1. SaysSame(p, w, id) /\ SameClipboards(s, s)
      BY <2>6, UploadOther DEF SameClipboards
    <3> QED
      BY <2>1, <2>4, <3>1, SameSpeech
  <2> QED
    BY <2>5, <2>6
<1> QED
  BY <1>1, <1>2

-----------------------------------------------------------------------------
(* The next event of a client's loop.                                       *)

Chunk(p, w, e) ==
    /\ Shorter(p.local, w.local, e) /\ Longer(p.out, w.out, e)
    /\ w.seq = p.seq /\ w.content = p.content /\ w.own = p.own
Regrabbed(p, w, e, m) ==
    /\ Shorter(p.local, w.local, e) /\ Longer(p.out, w.out, m)
    /\ w.seq = p.seq /\ w.content = p.content
    /\ w.own[e.id] = "unsent" /\ \A i \in Ids : i # e.id => w.own[i] = p.own[i]

LEMMA ChunkFollows ==
    ASSUME NEW s, NEW p, NEW w, NEW c, NEW id \in Ids, p.seq \in Nat,
           NEW e \in LocalType, e.kind # "grabbed", Chunk(p, w, e), Followed(s, p, c, id)
    PROVE  Followed(s, w, c, id)
<1>1. /\ Shorter(p.local, w.local, e) /\ Longer(p.out, w.out, e)
      /\ w.seq = p.seq /\ w.content = p.content /\ w.own = p.own
  BY DEF Chunk
<1>2. UpTo(p.out, p.seq) /\ UpTo(p.local, p.seq)
  BY DEF Followed, Own
<1>3. UpTo(w.out, p.seq) /\ UpTo(w.local, p.seq)
  BY <1>1, <1>2, UpToShorter, UpToLonger
<1>4. /\ Own(s, w, c) /\ Owner(s, w, c, id) /\ Heard(s, p, c, id)
      /\ Void(s, p, c, id) <=> Void(s, w, c, id)
  BY <1>1, <1>3, SameNumber
<1>5. e \in FromClient /\ e \notin Copies(id) /\ \A u : e \notin LateGrabs(id, u)
  BY DEF LocalType, FromClient, Copies, LateGrabs
<1>6. /\ Has(w.local, Copies(id)) <=> Has(p.local, Copies(id))
      /\ \A u : Has(w.out, LateGrabs(id, u)) => Has(p.out, LateGrabs(id, u))
      /\ \A Q : EndsIn(p.local, Uploads(id), Q) => EndsIn(w.local, Uploads(id), Q)
  BY <1>1, <1>5, HasShorter, HasLonger, EndsInShorter
<1>7. CASE e \notin Uploads(id)
  <2>1. e \notin Reports(id)
    BY <1>5, <1>7 DEF Uploads, Reports, LocalType
  <2>2. /\ Has(w.local, Uploads(id)) <=> Has(p.local, Uploads(id))
        /\ Has(w.out, Reports(id)) <=> Has(p.out, Reports(id))
        /\ \A Q : EndsIn(p.out, Reports(id), Q) => EndsIn(w.out, Reports(id), Q)
    BY <1>1, <1>7, <2>1, HasShorter, HasLonger, EndsInLonger
  <2>3. SaysSame(p, w, id) /\ SameClipboards(s, s)
    BY <1>1, <1>6, <2>2 DEF SaysSame, SameClipboards
  <2> QED
    BY <1>1, <1>4, <2>3, SameSpeech
<1>8. CASE e \in Uploads(id)
  <2>1. e \in Reports(id)
    BY <1>5, <1>8 DEF Uploads, Reports
  <2>2. Has(w.out, Reports(id))
    BY <1>1, <2>1, HasLonger
  <2>3. ASSUME NEW u \in 0 .. p.seq, HeardAt(s, p, c, id, u)
        PROVE  HeardAt(s, w, c, id, u)
    <3>1. Sending(p, id, u)
      BY <2>3 DEF HeardAt
    <3>2. Has(w.local, Uploads(id)) \/ e \in With(p.content[id], u)
      BY <1>1, <1>8, <3>1, EndsInShorter DEF Sending
    <3>3. e \in With(p.content[id], u) => EndsIn(w.out, Reports(id), With(p.content[id], u))
      BY <1>1, <2>1, EndsInLonger
    <3>4. Sending(w, id, u)
      BY <1>1, <1>6, <3>1, <3>2, <3>3 DEF Sending
    <3> QED
      BY <1>4, <2>2, <2>3, <3>4 DEF HeardAt, Reported
  <2>4. Heard(s, w, c, id)
    BY <1>1, <1>4, <1>6, <2>3 DEF Heard
  <2> QED
    BY <1>4, <2>4 DEF Followed
<1> QED
  BY <1>7, <1>8

\* A copy, before it is sent.
LEMMA CopyTaken ==
    ASSUME NEW s, NEW p, NEW w, NEW c, NEW id \in Ids, p.seq \in Nat,
           NEW e \in LocalType, e.kind = "grabbed", NEW m, m.kind = "grab", m.id = e.id,
           m.seq = p.seq, Regrabbed(p, w, e, m), Followed(s, p, c, id)
    PROVE  Followed(s, w, c, id)
<1>1. /\ Shorter(p.local, w.local, e) /\ Longer(p.out, w.out, m)
      /\ w.seq = p.seq /\ w.content = p.content
  BY DEF Regrabbed
<1>2. UpTo(p.out, p.seq) /\ UpTo(p.local, p.seq)
  BY DEF Followed, Own
<1>3. UpTo(w.out, p.seq) /\ UpTo(w.local, p.seq)
  BY <1>1, <1>2, UpToShorter, UpToLonger
<1>4. /\ Own(s, w, c) /\ Owner(s, w, c, id) /\ Heard(s, p, c, id)
      /\ Void(s, p, c, id) <=> Void(s, w, c, id)
  BY <1>1, <1>3, SameNumber
<1>5. CASE id = e.id
  <2>1. w.own[id] # "sent"
    BY <1>5 DEF Regrabbed
  <2> QED
    BY <1>4, <2>1 DEF Followed, Heard
<1>6. CASE id # e.id
  <2>1. /\ e \notin Copies(id) /\ e \notin Uploads(id) /\ m \notin Reports(id)
        /\ \A u : m \notin LateGrabs(id, u)
    BY <1>6 DEF Copies, Uploads, Reports, LateGrabs
  <2>2. /\ Has(w.local, Copies(id)) <=> Has(p.local, Copies(id))
        /\ Has(w.local, Uploads(id)) <=> Has(p.local, Uploads(id))
        /\ Has(w.out, Reports(id)) <=> Has(p.out, Reports(id))
        /\ \A u : Has(w.out, LateGrabs(id, u)) => Has(p.out, LateGrabs(id, u))
    BY <1>1, <2>1, HasShorter, HasLonger
  <2>3. /\ \A Q : EndsIn(p.local, Uploads(id), Q) => EndsIn(w.local, Uploads(id), Q)
        /\ \A Q : EndsIn(p.out, Reports(id), Q) => EndsIn(w.out, Reports(id), Q)
    BY <1>1, <2>1, EndsInShorter, EndsInLonger
  <2>4. w.own[id] = p.own[id]
    BY <1>6 DEF Regrabbed
  <2>5. SaysSame(p, w, id) /\ SameClipboards(s, s)
    BY <1>1, <2>2, <2>3, <2>4 DEF SaysSame, SameClipboards
  <2> QED
    BY <1>1, <1>4, <2>5, SameSpeech
<1> QED
  BY <1>5, <1>6

\* Start and data, when a client takes an event and writes a message.
LEMMA StillAlternates ==
    ASSUME NEW p, NEW w, NEW e, NEW m, NEW a \in BOOLEAN,
           Shorter(p.local, w.local, e), Longer(p.out, w.out, m),
           m = e \/ (m.kind = "grab" /\ e.kind = "grabbed"), Alternates(p, a)
    PROVE  Alternates(w, a)
<1>1. PICK b \in BOOLEAN : Alternate(p.out, a, b) /\ Alternate(p.local, b, FALSE)
  BY DEF Alternates
<1>2. PICK x \in BOOLEAN : Opens(e, b, x) /\ Alternate(w.local, x, FALSE)
  <2>1. PICK z : z = FALSE /\ Alternate(p.local, b, z)
    BY <1>1
  <2>2. \E x \in BOOLEAN : Opens(e, b, x) /\ Alternate(w.local, x, z)
    BY <2>1, AlternateShorter
  <2> QED
    BY <2>1, <2>2
<1>3. Opens(m, b, x)
  BY <1>2 DEF Opens
<1>4. Alternate(w.out, a, x)
  BY <1>1, <1>3, AlternateLonger
<1> QED
  BY <1>2, <1>4 DEF Alternates

LEMMA UploadAlternates ==
    ASSUME NEW p, NEW w, NEW i, Uploaded(p, w, i), NEW a, Alternates(p, a)
    PROVE  Alternates(w, a)
<1>1. w.out = p.out
  BY DEF Uploaded
<1> QED
  BY <1>1, UploadInOrder DEF Alternates

LEMMA ClientDispatchFollows ==
    ASSUME ClipboardAssumption, IInv, AllFollowed(server, client),
           NEW c \in Clients, ClientDispatch(c)
    PROVE  AllFollowed(server', client')
<1> DEFINE p == client[c]
           e == Head(p.local)
           local == Tail(p.local)
           k == [p EXCEPT !.local = local]
           w == IF e.kind = "grabbed" THEN GrabHandled(k, e.id)
                ELSE [k EXCEPT !.out = Append(@, e)]
           j == [client EXCEPT ![c] = w]
<1>0. Sound(server, client) /\ server' = server
  BY DEF IInv, ClientDispatch
<1>1. client \in [Clients -> Client] /\ p \in Client
  BY <1>0 DEF Sound, Typed
<1>2. p.local # <<>> /\ client' = j
  BY DEF ClientDispatch
<1>3. p.local \in Seq(LocalType) /\ p.out \in Seq(FromClient) /\ p.seq \in Nat
  BY <1>1 DEF Client
<1>4. e \in LocalType /\ local \in Seq(LocalType) /\ Shorter(p.local, local, e)
  BY <1>2, <1>3, Popped
<1>5. j[c] = w /\ Others(client, j, c)
  BY <1>1 DEF Others
<1>6. SUFFICES /\ \A a \in BOOLEAN : Alternates(p, a) => Alternates(w, a)
               /\ \A id \in Ids : Followed(server, p, c, id) => Followed(server, w, c, id)
  <2> HIDE DEF j, w
  <2> QED
    BY <1>0, <1>2, <1>5, <1>6, ClientMoves, ServerRests
<1>7. w = IF e.kind = "grabbed" THEN GrabHandled(k, e.id)
          ELSE [p EXCEPT !.local = local, !.out = Append(p.out, e)]
  BY <1>1 DEF Client
<1> HIDE DEF w, e, local, p, j
<1>8. k = [p EXCEPT !.local = local]
  OBVIOUS
<1> HIDE DEF k
<1>9. CASE e.kind = "grabbed"
  <2> DEFINE id == e.id
             m == Msg("grab", id, p.seq, Empty)
             out == Append(p.out, m)
             own == [p.own EXCEPT ![id] = "unsent"]
             grabbed == [p EXCEPT !.local = local, !.out = out, !.own = own]
             v == SendClipboard(grabbed, id)
  <2>1. id \in Ids
    BY <1>4 DEF LocalType
  <2>2. w = IF p.active THEN grabbed ELSE v
    <3>1. w = GrabHandled(k, id)
      BY <1>7, <1>9
    <3>2. k.active = p.active /\ k.seq = p.seq /\ k.out = p.out /\ k.own = p.own
      BY <1>1, <1>8 DEF Client
    <3>3. [k EXCEPT !.out = Append(@, Msg("grab", id, k.seq, Empty)), !.own[id] = "unsent"] = grabbed
      BY <1>1, <1>8, <3>2 DEF Client
    <3> HIDE DEF id, grabbed
    <3> QED
      BY <3>1, <3>2, <3>3 DEF GrabHandled
  <2>3. m \in FromClient /\ m.kind = "grab" /\ m.id = id /\ m.seq = p.seq
    BY <1>3, <2>1 DEF FromClient, Msg, Value
  <2> HIDE DEF m
  <2>4. out \in Seq(FromClient) /\ Longer(p.out, out, m)
    BY <1>3, <2>3, Appended
  <2>5. /\ own \in [Ids -> {"no", "unsent", "sent"}] /\ own[e.id] = "unsent"
        /\ \A i \in Ids : i # e.id => own[i] = p.own[i]
    BY <1>1, <2>1 DEF Client
  <2> HIDE DEF out, own
  <2>6. /\ grabbed \in Client /\ grabbed.seq = p.seq /\ grabbed.content = p.content
        /\ grabbed.out = out /\ grabbed.local = local /\ grabbed.own = own
    BY <1>1, <1>4, <2>4, <2>5 DEF Client
  <2> HIDE DEF grabbed
  <2>7. Regrabbed(p, grabbed, e, m)
    BY <1>4, <2>4, <2>5, <2>6 DEF Regrabbed
  <2>8. \A a \in BOOLEAN : Alternates(p, a) => Alternates(grabbed, a)
    BY <1>4, <1>9, <2>3, <2>4, <2>6, StillAlternates
  <2>9. \A i \in Ids : Followed(server, p, c, i) => Followed(server, grabbed, c, i)
    BY <1>3, <1>4, <1>9, <2>3, <2>7, CopyTaken
  <2>10. Uploaded(grabbed, v, id)
    BY <2>1, <2>6, SendClipboardIs
  <2> HIDE DEF v, id
  <2>11. \A a \in BOOLEAN : Alternates(grabbed, a) => Alternates(v, a)
    BY <2>10, UploadAlternates
  <2>12. \A i \in Ids : Followed(server, grabbed, c, i) => Followed(server, v, c, i)
    BY <1>3, <2>1, <2>6, <2>10, UploadFollows
  <2> QED
    BY <2>2, <2>8, <2>9, <2>11, <2>12
<1>10. CASE e.kind # "grabbed"
  <2> DEFINE out == Append(p.out, e)
  <2>1. w = [p EXCEPT !.local = local, !.out = out]
    BY <1>7, <1>10
  <2>2. e \in FromClient
    BY <1>4, <1>10 DEF FromClient, LocalType
  <2>3. out \in Seq(FromClient) /\ Longer(p.out, out, e)
    BY <1>3, <2>2, Appended
  <2> HIDE DEF out
  <2>4. /\ w.seq = p.seq /\ w.content = p.content /\ w.own = p.own
        /\ w.out = out /\ w.local = local
    BY <1>1, <2>1 DEF Client
  <2>5. Chunk(p, w, e)
    BY <1>4, <2>3, <2>4 DEF Chunk
  <2>6. \A a \in BOOLEAN : Alternates(p, a) => Alternates(w, a)
    <3>1. Shorter(p.local, w.local, e) /\ Longer(p.out, w.out, e)
      BY <1>4, <2>3, <2>4
    <3> QED
      BY <3>1, StillAlternates
  <2>7. \A i \in Ids : Followed(server, p, c, i) => Followed(server, w, c, i)
    BY <1>3, <1>4, <1>10, <2>5, ChunkFollows
  <2> QED
    BY <2>6, <2>7
<1> QED
  BY <1>9, <1>10

-----------------------------------------------------------------------------
(* What a client receives.                                                  *)

Takes(p, w, m) ==
    /\ w.local = p.local /\ w.out = p.out
    /\ w.seq = IF m.kind = "enter" THEN m.seq ELSE p.seq
    /\ \A i \in Ids : IF Touches(m, i) THEN w.own[i] = "no"
                      ELSE w.own[i] = p.own[i] /\ w.content[i] = p.content[i]

LEMMA TakenFollows ==
    ASSUME NEW s \in Server, NEW t, NEW p \in Client, NEW w \in Client, NEW c, NEW id \in Ids,
           NEW m, SameClipboards(s, t), Shorter(s.out[c], t.out[c], m), Takes(p, w, m),
           p.seq <= w.seq, Followed(s, p, c, id)
    PROVE  Followed(t, w, c, id)
<1>1. /\ w.local = p.local /\ w.out = p.out /\ p.local \in Seq(LocalType) /\ p.out \in Seq(FromClient)
      /\ p.seq \in Nat /\ w.seq \in Nat /\ s.seq[id] \in Nat /\ s.queue \in Seq(EventType)
  BY DEF Takes, Client, Server
<1>2. w.seq = IF m.kind = "enter" THEN m.seq ELSE p.seq
  BY DEF Takes
<1>3. /\ \A i \in 1 .. Len(t.out[c]) :
           i + 1 \in 1 .. Len(s.out[c]) /\ s.out[c][i + 1] = t.out[c][i]
      /\ \A i \in 1 .. Len(s.out[c]) :
           i = 1 \/ (i - 1 \in 1 .. Len(t.out[c]) /\ s.out[c][i] = t.out[c][i - 1])
      /\ 1 \in 1 .. Len(s.out[c]) /\ s.out[c][1] = m
  BY DEF Shorter
<1>4. Own(t, w, c)
  <2>1. UpTo(p.out, p.seq) /\ UpTo(p.local, p.seq) /\ Mine(s.queue, p, c)
    BY DEF Followed, Own
  <2>2. \A i \in 1 .. Len(p.out) : p.out[i].seq \in Nat
    <3>1. \A i \in 1 .. Len(p.out) : p.out[i] \in FromClient
      BY <1>1
    <3> QED
      BY <3>1 DEF FromClient
  <2>3. \A i \in 1 .. Len(p.local) : p.local[i].seq \in Nat
    <3>1. \A i \in 1 .. Len(p.local) : p.local[i] \in LocalType
      BY <1>1
    <3> QED
      BY <3>1 DEF LocalType
  <2>4. \A i \in 1 .. Len(s.queue) : s.queue[i].seq \in Nat
    <3>1. \A i \in 1 .. Len(s.queue) : s.queue[i] \in EventType
      BY <1>1
    <3> QED
      BY <3>1 DEF EventType
  <2>5. UpTo(w.out, w.seq) /\ UpTo(w.local, w.seq)
    BY <1>1, <2>1, <2>2, <2>3 DEF UpTo
  <2>6. Mine(t.queue, w, c)
    BY <1>1, <2>1, <2>4 DEF Mine, SameClipboards
  <2> QED
    BY <2>5, <2>6 DEF Own
<1>5. Old(s, p, c, id) => Old(t, w, c, id)
  <2> SUFFICES ASSUME Old(s, p, c, id)
               PROVE  Old(t, w, c, id)
    OBVIOUS
  <2>1. /\ s.dirty[c][id] /\ s.active # c /\ p.seq < s.seq[id]
        /\ \A i \in 1 .. Len(s.out[c]) : ~Enter(s.out[c][i], s.seq[id])
    BY DEF Old
  <2>2. w.seq < s.seq[id]
    BY <1>1, <1>2, <1>3, <2>1 DEF Enter
  <2> QED
    BY <1>3, <2>1, <2>2 DEF Old, SameClipboards
<1>6. InTime(s, p, c, id) => InTime(t, w, c, id)
  <2>1. m.kind = "enter" => w.seq = m.seq
    BY <1>2
  <2> QED
    BY <1>1, <2>1, CaughtByTaking DEF InTime, SameClipboards
<1>7. Owner(t, w, c, id)
  BY <1>5, <1>6 DEF Followed, Owner, SameClipboards
<1>8. CASE Touches(m, id)
  <2>1. w.own[id] # "sent"
    BY <1>8 DEF Takes
  <2> QED
    BY <1>4, <1>7, <2>1 DEF Followed, Heard
<1>9. CASE ~Touches(m, id)
  <2>1. w.own[id] = p.own[id] /\ w.content[id] = p.content[id]
    BY <1>9 DEF Takes
  <2>2. SaysSame(p, w, id)
    BY <1>1, <2>1 DEF SaysSame
  <2>3. Due(s, c, id) => Due(t, c, id)
    <3> HIDE DEF Touches
    <3> QED
      BY <1>3, <1>9 DEF Due, Untouched, SameClipboards
  <2>4. Void(s, p, c, id) => Void(t, w, c, id)
    BY <1>5, <2>3 DEF Void
  <2>5. Heard(s, p, c, id)
    BY DEF Followed
  <2> QED
    BY <1>1, <1>4, <1>7, <2>2, <2>3, <2>4, <2>5, SameSpeech
<1> QED
  BY <1>8, <1>9

\* The message is taken, and nothing is said of it yet.
LEMMA TakesIs ==
    ASSUME NEW p \in Client, NEW m \in ToClient
    PROVE  LET a == IF m.kind = "leave" THEN [p EXCEPT !.active = FALSE] ELSE Received(p, m)
           IN  a \in Client /\ Takes(p, a, m)
<1> DEFINE a == IF m.kind = "leave" THEN [p EXCEPT !.active = FALSE] ELSE Received(p, m)
<1>0. m.kind \in {"set", "grab", "enter", "leave"} /\ m.id \in Ids /\ m.seq \in Nat /\ m.data \in Value
  BY DEF ToClient
<1>1. CASE m.kind \in {"enter", "leave"}
  <2>1. a = IF m.kind = "leave" THEN [p EXCEPT !.active = FALSE]
            ELSE [p EXCEPT !.active = TRUE, !.seq = m.seq]
    BY <1>1 DEF Received
  <2> HIDE DEF a
  <2>2. /\ a \in Client /\ a.content = p.content /\ a.own = p.own
        /\ a.local = p.local /\ a.out = p.out
        /\ a.seq = IF m.kind = "enter" THEN m.seq ELSE p.seq
    BY <1>0, <1>1, <2>1 DEF Client
  <2>3. \A i : ~Touches(m, i)
    BY <1>1 DEF Touches
  <2>4. Takes(p, a, m)
    BY <2>2, <2>3 DEF Takes
  <2> QED
    BY <2>2, <2>4 DEF a
<1>2. CASE m.kind \in {"set", "grab"}
  <2> DEFINE d == IF m.kind = "set" THEN m.data ELSE Empty
             content == [p.content EXCEPT ![m.id] = d]
             own == [p.own EXCEPT ![m.id] = "no"]
  <2>1. a = [p EXCEPT !.content = content, !.own = own]
    BY <1>2 DEF Received
  <2>2. /\ content \in [Ids -> Value] /\ own \in [Ids -> {"no", "unsent", "sent"}]
        /\ own[m.id] = "no"
        /\ \A i \in Ids : i # m.id => content[i] = p.content[i] /\ own[i] = p.own[i]
    BY <1>0 DEF Client, Value
  <2> HIDE DEF a, content, own
  <2>3. /\ a \in Client /\ a.seq = p.seq /\ a.content = content /\ a.own = own
        /\ a.local = p.local /\ a.out = p.out
    BY <2>1, <2>2 DEF Client
  <2>4. Takes(p, a, m)
    BY <1>2, <2>2, <2>3 DEF Takes, Touches
  <2> QED
    BY <2>3, <2>4 DEF a
<1> QED
  BY <1>0, <1>1, <1>2

\* A client that is left sends both of its clipboards.
LEMMA LeftIs ==
    ASSUME NEW p \in Client, NEW m, m.kind = "leave"
    PROVE  LET a == [p EXCEPT !.active = FALSE]
               x == SendClipboard(a, 0)
           IN  /\ x \in Client /\ Received(p, m) \in Client
               /\ Uploaded(a, x, 0) /\ Uploaded(x, Received(p, m), 1)
<1> DEFINE a == [p EXCEPT !.active = FALSE]
           x == SendClipboard(a, 0)
<1>0. 0 \in Ids /\ 1 \in Ids
  BY DEF Ids, ClipboardEnd
<1>1. Received(p, m) = SendClipboard(x, 1)
  BY DEF Received, AllIds
<1>2. a \in Client
  BY DEF Client
<1> HIDE DEF a
<1>3. x \in Client /\ Uploaded(a, x, 0)
  BY <1>0, <1>2, SendClipboardIs
<1> HIDE DEF x
<1>4. SendClipboard(x, 1) \in Client /\ Uploaded(x, SendClipboard(x, 1), 1)
  BY <1>0, <1>3, SendClipboardIs
<1> QED
  BY <1>1, <1>3, <1>4 DEF a, x

LEMMA ClientReceiveFollows ==
    ASSUME ClipboardAssumption, IInv, AllFollowed(server, client),
           NEW c \in Clients, ClientReceive(c)
    PROVE  AllFollowed(server', client')
<1> DEFINE s == server
           k == client
           p == client[c]
           o == server.out[c]
           m == Head(o)
           r == Tail(o)
           a == IF m.kind = "leave" THEN [p EXCEPT !.active = FALSE] ELSE Received(p, m)
           w == Received(p, m)
           out == [server.out EXCEPT ![c] = r]
           t == [server EXCEPT !.out = out]
           j == [client EXCEPT ![c] = w]
<1>0. /\ Sound(s, k) /\ o # <<>> /\ s \in Server /\ k \in [Clients -> Client] /\ p \in Client
  BY DEF IInv, ClientReceive, Sound, Typed
<1>1. server' = t /\ client' = j
  BY DEF ClientReceive
<1>2. o \in Seq(ToClient) /\ server.out \in [Clients -> Seq(ToClient)] /\ p.seq \in Nat
  BY <1>0 DEF Server, Client
<1>3. m \in ToClient /\ r \in Seq(ToClient) /\ Shorter(o, r, m)
  BY <1>0, <1>2, Popped
<1>4. a \in Client /\ Takes(p, a, m)
  BY <1>0, <1>3, TakesIs
<1>5. out[c] = r /\ \A d \in Clients : d # c => out[d] = server.out[d]
  BY <1>2
<1>6. j[c] = w /\ Others(k, j, c)
  BY <1>0 DEF Others
<1>7. Increasing(o, p.seq, s.seqNum)
  BY <1>0 DEF Sound, Numbered
<1> HIDE DEF out
<1>8. SameElsewhere(s, t, c) /\ t.out = out
  BY <1>0, <1>5 DEF Server, SameElsewhere, SameClipboards, SameBuffer
<1>9. p.seq <= a.seq
  <2>1. 1 \in 1 .. Len(o) /\ o[1] = m
    BY <1>3 DEF Shorter
  <2>2. a.seq = IF m.kind = "enter" THEN m.seq ELSE p.seq
    BY <1>4 DEF Takes
  <2> HIDE DEF a, m, o, p
  <2> QED
    BY <1>2, <1>7, <2>1, <2>2 DEF Increasing
<1>10. w # a => m.kind = "leave"
  OBVIOUS
<1>11. m.kind = "leave" => a = [p EXCEPT !.active = FALSE]
  OBVIOUS
<1> HIDE DEF t, j, a, w, r
<1>12. ASSUME NEW i \in Ids, Followed(s, p, c, i)
       PROVE  Followed(t, a, c, i)
  <2>1. SameClipboards(s, t) /\ Shorter(s.out[c], t.out[c], m)
    BY <1>3, <1>5, <1>8 DEF SameElsewhere
  <2> HIDE DEF m, o, p, s
  <2> QED
    BY <1>0, <1>4, <1>9, <1>12, <2>1, TakenFollows
<1>13. ASSUME NEW b \in BOOLEAN, Alternates(p, b)
       PROVE  Alternates(a, b)
  BY <1>4, <1>13 DEF Takes, Alternates
<1>14. CASE w = a
  BY <1>0, <1>1, <1>6, <1>8, <1>12, <1>13, <1>14, ClientMoves
<1>15. CASE w # a
  <2> DEFINE x == SendClipboard(a, 0)
  <2>0. 0 \in Ids /\ 1 \in Ids
    BY DEF Ids, ClipboardEnd
  <2>1. m.kind = "leave" /\ a = [p EXCEPT !.active = FALSE]
    BY <1>10, <1>11, <1>15
  <2>2. x \in Client /\ Uploaded(a, x, 0) /\ Uploaded(x, w, 1)
    <3> HIDE DEF m
    <3> QED
      BY <1>0, <2>1, LeftIs DEF w
  <2> HIDE DEF x
  <2>3. a.seq \in Nat /\ x.seq \in Nat
    BY <1>4, <2>2 DEF Client
  <2>4. ASSUME NEW i \in Ids, Followed(s, p, c, i)
        PROVE  Followed(t, w, c, i)
    <3>1. Followed(t, x, c, i)
      BY <1>12, <2>0, <2>2, <2>3, <2>4, UploadFollows
    <3> QED
      BY <2>0, <2>2, <2>3, <3>1, UploadFollows
  <2>5. ASSUME NEW b \in BOOLEAN, Alternates(p, b)
        PROVE  Alternates(w, b)
    BY <1>13, <2>2, <2>5, UploadAlternates
  <2> QED
    BY <1>0, <1>1, <1>6, <1>8, <2>4, <2>5, ClientMoves
<1> QED
  BY <1>14, <1>15

-----------------------------------------------------------------------------
(* A user copies on a client.                                               *)

LEMMA CopyFollows ==
    ASSUME NEW s, NEW p, NEW w, NEW c, NEW id \in Ids, p.seq \in Nat, NEW i \in Ids,
           NEW e \in LocalType, e.kind = "grabbed", e.id = i, e.seq = 0,
           Longer(p.local, w.local, e), w.out = p.out, w.seq = p.seq, w.own = p.own,
           \A x \in Ids : x # i => w.content[x] = p.content[x], Followed(s, p, c, id)
    PROVE  Followed(s, w, c, id)
<1>1. UpTo(p.out, p.seq) /\ UpTo(p.local, p.seq)
  BY DEF Followed, Own
<1>2. UpTo(w.out, p.seq) /\ UpTo(w.local, p.seq)
  BY <1>1, UpToLonger
<1>3. /\ Own(s, w, c) /\ Owner(s, w, c, id) /\ Heard(s, p, c, id)
      /\ Void(s, p, c, id) <=> Void(s, w, c, id)
  BY <1>2, SameNumber
<1>4. CASE id = i
  <2>1. e \in Copies(id)
    BY <1>4 DEF Copies
  <2>2. Has(w.local, Copies(id))
    BY <2>1, HasLonger
  <2> QED
    BY <1>3, <2>2 DEF Followed, Heard
<1>5. CASE id # i
  <2>1. e \notin Copies(id) /\ e \notin Uploads(id)
    BY <1>5 DEF Copies, Uploads
  <2>2. /\ Has(w.local, Copies(id)) <=> Has(p.local, Copies(id))
        /\ Has(w.local, Uploads(id)) <=> Has(p.local, Uploads(id))
        /\ \A Q : EndsIn(p.local, Uploads(id), Q) => EndsIn(w.local, Uploads(id), Q)
    BY <2>1, HasLonger, EndsInLonger
  <2>3. SaysSame(p, w, id) /\ SameClipboards(s, s)
    BY <1>5, <2>2 DEF SaysSame, SameClipboards
  <2> QED
    BY <1>3, <2>3, SameSpeech
<1> QED
  BY <1>4, <1>5

LEMMA CopyOnClientFollows ==
    ASSUME ClipboardAssumption, IInv, AllFollowed(server, client),
           NEW c \in Clients, CopyOnClient(c)
    PROVE  AllFollowed(server', client')
<1> DEFINE p == client[c]
<1>0. Sound(server, client) /\ server' = server
  BY DEF IInv, CopyOnClient
<1>1. client \in [Clients -> Client] /\ p \in Client
  BY <1>0 DEF Sound, Typed
<1>2. p.local \in Seq(LocalType) /\ p.seq \in Nat
  BY <1>1 DEF Client
<1>3. PICK id \in Ids, d \in Data :
        client' = [client EXCEPT ![c].content[id] = d,
                                 ![c].local = IF c \notin server.listed THEN @
                                              ELSE Append(@, Msg("grabbed", id, 0, Empty))]
  BY DEF CopyOnClient, ClipboardAssumption
<1> DEFINE e == Msg("grabbed", id, 0, Empty)
           local == IF c \notin server.listed THEN p.local ELSE Append(p.local, e)
           content == [p.content EXCEPT ![id] = d]
           w == [p EXCEPT !.content = content, !.local = local]
           j == [client EXCEPT ![c] = w]
<1>4. client' = j
  BY <1>1, <1>3 DEF Client
<1>5. e \in LocalType /\ e.kind = "grabbed" /\ e.id = id /\ e.seq = 0
  BY DEF LocalType, Msg, Value
<1>6. \A i \in Ids : i # id => content[i] = p.content[i]
  BY <1>1 DEF Client
<1>7. j[c] = w /\ Others(client, j, c)
  BY <1>1 DEF Others
<1> HIDE DEF e
<1>8. Longer(p.local, Append(p.local, e), e)
  BY <1>2, <1>5, Appended
<1>9. IF c \in server.listed THEN Longer(p.local, local, e) ELSE local = p.local
  BY <1>8
<1> HIDE DEF local, content
<1>10. /\ w.seq = p.seq /\ w.content = content /\ w.out = p.out /\ w.local = local
       /\ w.own = p.own
  BY <1>1 DEF Client
<1> HIDE DEF w, p, j
<1>11. c \in server.listed => \A i \in Ids : Followed(server, p, c, i) => Followed(server, w, c, i)
  BY <1>2, <1>5, <1>6, <1>9, <1>10, CopyFollows
<1>12. ASSUME NEW a \in BOOLEAN, Alternates(p, a)
       PROVE  Alternates(w, a)
  <2>1. CASE c \in server.listed
    <3>1. PICK b \in BOOLEAN : Alternate(p.out, a, b) /\ Alternate(p.local, b, FALSE)
      BY <1>12 DEF Alternates
    <3>2. Opens(e, FALSE, FALSE)
      BY <1>5 DEF Opens
    <3>3. Alternate(local, b, FALSE)
      BY <1>9, <2>1, <3>1, <3>2, AlternateLonger
    <3> QED
      BY <1>10, <3>1, <3>3 DEF Alternates
  <2>2. CASE c \notin server.listed
    BY <1>9, <1>10, <1>12, <2>2 DEF Alternates
  <2> QED
    BY <2>1, <2>2
<1>13. SameElsewhere(server, server, c)
  BY ServerRests
<1>14. AllFollowed(server, j)
  BY <1>0, <1>7, <1>11, <1>12, <1>13, ClientMoves DEF p
<1> QED
  BY <1>0, <1>4, <1>14

-----------------------------------------------------------------------------
(* Connections.                                                             *)

\* A client whose events stay, when other connections come or go.
LEMMA ForgottenGentle ==
    ASSUME ClipboardAssumption, NEW s \in Server, NEW t, NEW d \in Clients,
           Apart(s.queue, t.queue, d), t.owner = s.owner, t.seq = s.seq,
           t.data = s.data, t.dirty[d] = s.dirty[d], t.copy[d] = s.copy[d], t.out[d] = s.out[d],
           t.active \in {s.active, Primary}, NEW p, NEW id \in Ids
    PROVE  Gentle(s, t, p, d, id)
<1>0. Len(s.queue) \in Nat /\ d # Primary /\ d # Empty
  BY DEF Server, ClipboardAssumption
<1>1. /\ Len(t.queue) = Len(s.queue)
      /\ \A i \in 1 .. Len(s.queue) : \/ t.queue[i] = s.queue[i]
                                      \/ s.queue[i].who # d /\ t.queue[i].who # d
  BY DEF Apart
<1>3. News(s.queue, t.queue, d, id)
  <2>1. (\A e \in Notes(d, id) : e.who = d) /\ \A u : \A e \in LateNotes(d, id, u) : e.who = d
    BY DEF Notes, LateNotes
  <2>2. /\ Has(t.queue, Notes(d, id)) <=> Has(s.queue, Notes(d, id))
        /\ \A Q : EndsIn(s.queue, Notes(d, id), Q) => EndsIn(t.queue, Notes(d, id), Q)
    BY <1>0, <2>1, HasForgotten
  <2>3. ASSUME NEW u, Has(t.queue, LateNotes(d, id, u))
        PROVE  Has(s.queue, LateNotes(d, id, u))
    BY <1>0, <2>1, <2>3, HasForgotten
  <2> QED
    BY <2>2, <2>3 DEF News
<1>4. Mine(s.queue, p, d) => Mine(t.queue, p, d)
  BY <1>0, <1>1 DEF Mine
<1>5. Coming(s.queue, d, id) => Coming(t.queue, d, id)
  BY <1>1 DEF Coming, SendFor
<1>6. Due(s, d, id) => Due(t, d, id)
  BY <1>5 DEF Due
<1>7. InTime(s, p, d, id) => InTime(t, p, d, id)
  BY <1>5 DEF InTime, Caught
<1>8. Old(s, p, d, id) => Old(t, p, d, id)
  BY <1>0 DEF Old
<1> QED
  BY <1>3, <1>4, <1>6, <1>7, <1>8 DEF Gentle, Steady

LEMMA ConnectFollows ==
    ASSUME ClipboardAssumption, IInv, AllFollowed(server, client), NEW c \in Clients, Connect(c)
    PROVE  AllFollowed(server', client')
<1> DEFINE s == server
           k == client
<1>0. /\ Sound(s, k) /\ s \in Server /\ k \in [Clients -> Client] /\ s.listed \subseteq Screens
      /\ s.active \in s.listed /\ c \notin s.listed /\ c # Primary /\ c # Empty
  BY DEF IInv, Connect, Sound, Typed, Server, ClipboardAssumption
<1>17. PICK reused \in BOOLEAN :
      server' = [server EXCEPT !.listed = @ \cup {c}, !.out[c] = <<>>,
                  !.dirty[c] = [id \in Ids |-> TRUE], !.copy[c] = Blank,
                  !.queue = IF reused THEN [i \in DOMAIN @ |-> Adopted(@[i], c)] ELSE @]
  BY DEF Connect
<1> DEFINE listed == s.listed \cup {c}
           out == [s.out EXCEPT ![c] = <<>>]
           dirty == [s.dirty EXCEPT ![c] = [id \in Ids |-> TRUE]]
           copy == [s.copy EXCEPT ![c] = Blank]
           own == [id \in Ids |-> "no"]
           q == Adopts(s.queue, c, reused)
           t == [s EXCEPT !.listed = listed, !.out = out, !.dirty = dirty, !.copy = copy,
                          !.queue = q]
           w == [k[c] EXCEPT !.own = own, !.seq = 0, !.local = <<>>, !.out = <<>>]
           j == [k EXCEPT ![c] = w]
<1>1. server' = t /\ client' = j
  BY <1>17 DEF Connect, Adopts
<1>15. /\ Len(q) = Len(s.queue)
      /\ \A i \in 1 .. Len(s.queue) : q[i] = s.queue[i] \/ (s.queue[i].who = Empty /\ q[i].who = c /\ q[i].seq = 0)
  <2>1. s.queue \in Seq(EventType)
    BY <1>0 DEF Server
  <2> QED
    BY <2>1, AdoptedOnly
<1>2. /\ out[c] = <<>> /\ \A d \in Clients : d # c => out[d] = s.out[d] /\ copy[d] = s.copy[d]
      /\ \A i \in Ids : dirty[c][i] /\ own[i] = "no"
      /\ \A d \in Screens : d # c => dirty[d] = s.dirty[d]
  BY <1>0 DEF Server, Screens
<1> HIDE DEF listed, out, dirty, copy, own, q
<1>3. w.seq = 0 /\ w.local = <<>> /\ w.out = <<>> /\ w.own = own
  <2>1. k[c] \in Client
    BY <1>0
  <2> QED
    BY <2>1 DEF Client
<1> HIDE DEF w
<1>4. j[c] = w /\ \A d \in Clients : d # c => j[d] = k[d]
  BY <1>0
<1> HIDE DEF j
<1>5. /\ t.unexpected = s.unexpected /\ t.data = s.data /\ t.dirty = dirty
      /\ t.listed = listed /\ t.active = s.active /\ t.owner = s.owner /\ t.seq = s.seq
      /\ t.out = out /\ t.queue = q /\ t.copy = copy /\ SameBuffer(s, t)
  BY <1>0 DEF Server, SameBuffer
<1> HIDE DEF t
<1>6. SUFFICES ASSUME ~t.mixed, ~t.unexpected
               PROVE  AllFollowed(t, j)
  BY <1>1 DEF AllFollowed
<1>7. /\ OneAtATime(s, k) /\ t.filling = s.filling /\ t.cached = s.cached
      /\ \A d \in s.listed \ {Primary}, id \in Ids : Followed(s, k[d], d, id)
  BY <1>5, <1>6 DEF AllFollowed, SameBuffer
<1>8. s.filling \in s.listed \cup {Empty} /\ (s.filling # Empty => s.cached = 0)
  BY <1>7 DEF OneAtATime
<1>9. ASSUME NEW d \in Clients
      PROVE  \E a, b \in BOOLEAN :
               /\ a <=> s.filling = d
               /\ Alternate(j[d].out, a, b) /\ Alternate(j[d].local, b, FALSE)
  <2>1. CASE d # c
    BY <1>4, <1>7, <2>1 DEF OneAtATime
  <2>2. CASE d = c
    <3>1. Len(w.out) = 0 /\ Len(w.local) = 0
      BY <1>3
    <3>2. Alternate(w.out, FALSE, FALSE) /\ Alternate(w.local, FALSE, FALSE)
      BY <3>1, AlternateEmpty
    <3>3. ~(s.filling = d)
      BY <1>0, <1>8, <2>2
    <3> QED
      BY <1>4, <2>2, <3>2, <3>3
  <2> QED
    BY <2>1, <2>2
<1>10. OneAtATime(t, j)
  BY <1>5, <1>7, <1>8, <1>9 DEF OneAtATime, listed
<1>11. ASSUME NEW d \in listed \ {Primary}, NEW id \in Ids
       PROVE  Followed(t, j[d], d, id)
  <2>1. d \in Clients /\ d \in Screens
    BY <1>0, <1>11 DEF Screens, listed
  <2>2. CASE d # c
    <3>1. d \in s.listed \ {Primary}
      BY <2>2 DEF listed
    <3>2. k[d].seq \in Nat /\ Followed(s, k[d], d, id)
      BY <1>0, <1>7, <3>1, FollowedType
    <3>3. t.out[d] = s.out[d] /\ t.dirty[d] = s.dirty[d] /\ t.copy[d] = s.copy[d] /\ j[d] = k[d]
      BY <1>2, <1>4, <1>5, <2>1, <2>2
    <3>5. Apart(s.queue, t.queue, d)
      BY <1>0, <1>5, <1>15, <2>1, <2>2 DEF Apart, ClipboardAssumption
    <3>4. Gentle(s, t, k[d], d, id)
      BY <1>0, <1>5, <2>1, <3>3, <3>5, ForgottenGentle
    <3> QED
      BY <3>2, <3>3, <3>4, GentleKeeps
  <2>3. CASE d = c
    <3>0. s.seq[id] \in Nat /\ \A i \in 1 .. Len(<<>>) : FALSE
      BY <1>0 DEF Server
    <3>1. Own(t, w, c)
      <4>1. Mine(q, w, c)
        BY <1>0, <1>3, <1>15 DEF Mine, Sound, Known
      <4> QED
        BY <1>3, <1>5, <3>0, <4>1 DEF Own, UpTo
    <3>2. Owner(t, w, c, id)
      <4>1. CASE s.seq[id] = 0
        BY <1>3, <1>5, <4>1 DEF Owner, InTime, Caught
      <4>2. CASE s.seq[id] # 0
        <5>1. w.seq < t.seq[id] /\ t.dirty[c][id] /\ t.active # c /\ t.out[c] = <<>>
          BY <1>0, <1>2, <1>3, <1>5, <3>0, <4>2
        <5> QED
          BY <3>0, <5>1 DEF Owner, Old
      <4> QED
        BY <4>1, <4>2
    <3>3. Heard(t, w, c, id)
      BY <1>2, <1>3 DEF Heard
    <3> QED
      BY <1>4, <2>3, <3>1, <3>2, <3>3 DEF Followed
  <2> QED
    BY <2>2, <2>3
<1>12. AllFollowed(t, j)
  BY <1>5, <1>10, <1>11 DEF AllFollowed
<1> QED
  BY <1>12

LEMMA DropFollows ==
    ASSUME ClipboardAssumption, IInv, AllFollowed(server, client), NEW c \in Clients, Drop(c)
    PROVE  AllFollowed(server', client')
<1> DEFINE s == server
           k == client
<1>0. /\ Sound(s, k) /\ s \in Server /\ k \in [Clients -> Client]
      /\ c # Primary /\ Empty \notin Clients
  BY DEF IInv, Drop, Sound, Typed, ClipboardAssumption
<1>17. PICK ended \in BOOLEAN :
      client' = [client EXCEPT ![c].local = <<>>, ![c].out = <<>>, ![c].active = @ /\ ~ended]
  BY DEF Drop
<1> DEFINE listed == s.listed \ {c}
           out == [s.out EXCEPT ![c] = <<>>]
           active == IF s.active = c THEN Primary ELSE s.active
           forced == (s.forced \/ s.active = c)
           screenSeq == IF s.active = c THEN s.seqNum ELSE s.screenSeq
           filling == IF s.filling = c THEN Empty ELSE s.filling
           q == Orphans(s.queue, c)
           still == (k[c].active /\ ~ended)
           t == [s EXCEPT !.listed = listed, !.out = out, !.active = active, !.forced = forced,
                          !.screenSeq = screenSeq, !.filling = filling, !.queue = q]
           w == [k[c] EXCEPT !.local = <<>>, !.out = <<>>, !.active = still]
           j == [k EXCEPT ![c] = w]
<1>1. server' = t /\ client' = j
  <2>1. server' = t
    BY DEF Drop, Orphans
  <2>2. client' = j
    BY <1>17
  <2> QED
    BY <2>1, <2>2
<1>2. \A d \in Clients : d # c => out[d] = s.out[d]
  BY <1>0 DEF Server
<1>3. \A d \in Clients : d # c => Apart(s.queue, q, d)
  <2>1. s.queue \in Seq(EventType)
    BY <1>0 DEF Server
  <2> QED
    BY <1>0, <2>1, Orphaned DEF Apart
<1>4. w.local = <<>> /\ w.out = <<>>
  <2>1. k[c] \in Client
    BY <1>0
  <2> QED
    BY <2>1 DEF Client
<1> HIDE DEF w, still
<1>5. j[c] = w /\ \A d \in Clients : d # c => j[d] = k[d]
  BY <1>0
<1> HIDE DEF j, listed, out, active, forced, screenSeq, filling, q
<1>6. /\ t.unexpected = s.unexpected /\ t.mixed = s.mixed /\ t.data = s.data
      /\ t.dirty = s.dirty /\ t.listed = listed /\ t.active = active
      /\ t.owner = s.owner /\ t.seq = s.seq /\ t.out = out /\ t.queue = q /\ t.copy = s.copy
      /\ t.cached = s.cached /\ t.filling = filling
  BY <1>0 DEF Server
<1> HIDE DEF t
<1>7. SUFFICES ASSUME ~t.mixed, ~t.unexpected
               PROVE  AllFollowed(t, j)
  BY <1>1 DEF AllFollowed
<1>8. /\ OneAtATime(s, k)
      /\ \A d \in s.listed \ {Primary}, id \in Ids : Followed(s, k[d], d, id)
  BY <1>6, <1>7 DEF AllFollowed
<1>9. s.filling \in s.listed \cup {Empty} /\ (s.filling # Empty => s.cached = 0)
  BY <1>8 DEF OneAtATime
<1>10. ASSUME NEW d \in Clients
       PROVE  \E a, b \in BOOLEAN :
                /\ a <=> t.filling = d
                /\ Alternate(j[d].out, a, b) /\ Alternate(j[d].local, b, FALSE)
  <2>1. CASE d # c
    <3>1. t.filling = d <=> s.filling = d
      BY <1>0, <1>6, <2>1 DEF filling
    <3> QED
      BY <1>5, <1>8, <2>1, <3>1 DEF OneAtATime
  <2>2. CASE d = c
    <3>1. Len(w.out) = 0 /\ Len(w.local) = 0
      BY <1>4
    <3>2. Alternate(w.out, FALSE, FALSE) /\ Alternate(w.local, FALSE, FALSE)
      BY <3>1, AlternateEmpty
    <3>3. ~(t.filling = d)
      BY <1>0, <1>6, <2>2 DEF filling
    <3> QED
      BY <1>5, <2>2, <3>2, <3>3
  <2> QED
    BY <2>1, <2>2
<1>11. OneAtATime(t, j)
  <2>1. t.filling \in t.listed \cup {Empty} /\ (t.filling # Empty => t.cached = 0)
    BY <1>6, <1>9 DEF filling, listed
  <2> QED
    BY <1>10, <2>1 DEF OneAtATime
<1>12. ASSUME NEW d \in listed \ {Primary}, NEW id \in Ids
       PROVE  Followed(t, j[d], d, id)
  <2>1. d \in s.listed \ {Primary} /\ d # c
    BY DEF listed
  <2>2. d \in Clients /\ k[d].seq \in Nat /\ Followed(s, k[d], d, id)
    BY <1>0, <1>8, <2>1, FollowedType
  <2>3. t.active \in {s.active, Primary} /\ t.out[d] = s.out[d] /\ j[d] = k[d]
    BY <1>2, <1>5, <1>6, <2>1, <2>2 DEF active
  <2>4. Gentle(s, t, k[d], d, id)
    <3>1. Apart(s.queue, t.queue, d) /\ t.dirty[d] = s.dirty[d] /\ t.copy[d] = s.copy[d]
      BY <1>3, <1>6, <2>1, <2>2
    <3> QED
      BY <1>0, <1>6, <2>1, <2>2, <2>3, <3>1, ForgottenGentle
  <2> QED
    BY <2>2, <2>3, <2>4, GentleKeeps
<1>13. AllFollowed(t, j)
  BY <1>6, <1>11, <1>12 DEF AllFollowed
<1> QED
  BY <1>13

LEMMA InitFollows ==
    ASSUME ClipboardAssumption, Init
    PROVE  AllFollowed(server, client)
<1> DEFINE s == server
           k == client
<1>1. /\ s.listed = Screens /\ s.queue = <<>> /\ s.filling = Empty
      /\ \A id \in Ids : s.owner[id] = Primary
  BY DEF Init
<1>2. \A c \in Clients : /\ k[c].out = <<>> /\ k[c].local = <<>>
                         /\ \A id \in Ids : k[c].own[id] = "no"
  BY DEF Init
<1>3. \A i \in 1 .. Len(<<>>) : FALSE
  OBVIOUS
<1> HIDE DEF s, k
<1>4. OneAtATime(s, k)
  <2> SUFFICES ASSUME NEW c \in Clients
               PROVE  \E a, b \in BOOLEAN :
                        /\ a <=> s.filling = c
                        /\ Alternate(k[c].out, a, b) /\ Alternate(k[c].local, b, FALSE)
    BY <1>1 DEF OneAtATime
  <2>1. Len(k[c].out) = 0 /\ Len(k[c].local) = 0
    BY <1>2
  <2>2. Alternate(k[c].out, FALSE, FALSE) /\ Alternate(k[c].local, FALSE, FALSE)
    BY <2>1, AlternateEmpty
  <2>3. ~(s.filling = c)
    BY <1>1 DEF ClipboardAssumption
  <2> QED
    BY <2>2, <2>3
<1>5. ASSUME NEW c \in s.listed \ {Primary}, NEW id \in Ids
      PROVE  Followed(s, k[c], c, id)
  <2>1. c \in Clients /\ c # Primary
    BY <1>1 DEF Screens
  <2>2. Own(s, k[c], c)
    BY <1>1, <1>2, <1>3, <2>1 DEF Own, UpTo, Mine
  <2>3. Owner(s, k[c], c, id) /\ Heard(s, k[c], c, id)
    BY <1>1, <1>2, <2>1 DEF Owner, Heard
  <2> QED
    BY <2>2, <2>3 DEF Followed
<1> QED
  BY <1>4, <1>5 DEF AllFollowed, s, k

\* In every reachable state the last upload of a client is somewhere between
\* its loop and the server's clipboard, as long as no two uploads were mixed and
\* the assertion has not failed (Client::sendClipboard, ClipboardChunk::assemble,
\* Server::handleClipboardChanged).
THEOREM UploadsAreFollowed == Spec => []AllFollowed(server, client)
<1> DEFINE J == IInv /\ AllFollowed(server, client)
<1>1. Init => J
  BY ClipboardAssumption, InitHolds, InitFollows
<1>2. J /\ IInv' /\ [Next]_vars => J'
  <2> SUFFICES ASSUME IInv, AllFollowed(server, client), [Next]_vars
               PROVE  AllFollowed(server', client')
    OBVIOUS
  <2>1. CASE SwitchScreen
    BY <2>1, ClipboardAssumption, SwitchFollows
  <2>2. CASE Dispatch
    BY <2>2, ClipboardAssumption, DispatchFollows
  <2>3. CASE CopyOnPrimary
    BY <2>3, ClipboardAssumption, CopyOnPrimaryFollows
  <2>4. ASSUME NEW c \in Clients, ServerReceive(c)
        PROVE  AllFollowed(server', client')
    BY <2>4, ClipboardAssumption, ServerReceiveFollows
  <2>5. ASSUME NEW c \in Clients, ClientDispatch(c)
        PROVE  AllFollowed(server', client')
    BY <2>5, ClipboardAssumption, ClientDispatchFollows
  <2>6. ASSUME NEW c \in Clients, ClientReceive(c)
        PROVE  AllFollowed(server', client')
    BY <2>6, ClipboardAssumption, ClientReceiveFollows
  <2>7. ASSUME NEW c \in Clients, CopyOnClient(c)
        PROVE  AllFollowed(server', client')
    BY <2>7, ClipboardAssumption, CopyOnClientFollows
  <2>8. ASSUME NEW c \in Clients, Connect(c)
        PROVE  AllFollowed(server', client')
    BY <2>8, ClipboardAssumption, ConnectFollows
  <2>9. ASSUME NEW c \in Clients, Drop(c)
        PROVE  AllFollowed(server', client')
    BY <2>9, ClipboardAssumption, DropFollows
  <2>10. CASE UNCHANGED vars
    BY <2>10 DEF vars
  <2> QED
    BY <2>1, <2>2, <2>3, <2>4, <2>5, <2>6, <2>7, <2>8, <2>9, <2>10 DEF Next
<1>3. J => AllFollowed(server, client)
  OBVIOUS
<1> HIDE DEF J
<1>4. Spec => []J
  BY <1>1, <1>2, InvariantHolds, PTL DEF Spec
<1> QED
  BY <1>3, <1>4, PTL

-----------------------------------------------------------------------------
(* What a client has not sent.                                              *)

\* A client that does not take itself for active holds back what is over the
\* limit, and what its loop has not come to.
SentOn(p, id) ==
    /\ p.own[id] = "unsent" /\ ~p.active
         => p.content[id] \in Big \/ Has(p.local, Copies(id))
AllSentOn(s, k) == \A c \in s.listed \ {Primary}, id \in Ids : SentOn(k[c], id)

\* The screens that are connected, after what leaves them alone.
SameListed(s, t) == DOMAIN t = DOMAIN s /\ ("listed" \in DOMAIN s => t.listed = s.listed)

LEMMA SetClipboardListed ==
    ASSUME NEW s, NEW dst, NEW id
    PROVE  SameListed(s, SetClipboard(s, dst, id))
  BY DEF SetClipboard, Post, SameListed

LEMMA ChangedListed ==
    ASSUME NEW s, NEW sender, NEW id, NEW seq
    PROVE  SameListed(s, OnClipboardChanged(s, sender, id, seq))
<1> DEFINE new == IF sender = Primary THEN s.content[id] ELSE s.copy[sender][id]
           odd == s.unexpected \/ s.owner[id] # sender
           got == [s EXCEPT !.shown[id] = new, !.unexpected = odd]
           kept == [got EXCEPT !.data[id] = new]
           marked == MarkDirty(kept, sender, id)
<1>1. SameListed(s, got) /\ SameListed(s, kept) /\ SameListed(s, s)
  BY DEF SameListed
<1>2. SameListed(kept, marked)
  BY DEF SameListed, MarkDirty
<1>3. SameListed(marked, SetClipboard(marked, kept.active, id))
  BY SetClipboardListed
<1>4. OnClipboardChanged(s, sender, id, seq)
        \in {s, got, SetClipboard(marked, kept.active, id)}
  BY DEF OnClipboardChanged, Deliver
<1> HIDE DEF got, kept, marked
<1> QED
  BY <1>1, <1>2, <1>3, <1>4 DEF SameListed

LEMMA SameListedThen ==
    ASSUME NEW s, NEW t, NEW u, SameListed(s, t), SameListed(t, u)
    PROVE  SameListed(s, u)
  BY DEF SameListed

LEMMA GrabbedListed ==
    ASSUME NEW s, NEW grabber, NEW id, NEW seq
    PROVE  SameListed(s, Grabbed(s, grabber, id, seq))
<1> DEFINE marked == MarkDirty(s, grabber, id)
           content == IF grabber = Primary THEN marked.content[id] ELSE Empty
           out == [c \in Clients |-> IF c \in s.listed \ {grabber}
                    THEN Append(marked.out[c], Msg("grab", id, 0, Empty)) ELSE marked.out[c]]
           told == [marked EXCEPT !.owner[id] = grabber, !.seq[id] = seq, !.shown[id] = Empty,
                                  !.data[id] = Empty, !.content[id] = content, !.out = out]
           first == Resend(told, 0)
           second == Resend(first, 1)
<1>1. SameListed(s, marked)
  BY DEF SameListed, MarkDirty
<1> HIDE DEF marked
<1>2. SameListed(marked, told)
  BY DEF SameListed
<1>3. Grabbed(s, grabber, id, seq) \in {s, second, told} /\ SameListed(s, s)
  BY DEF Grabbed, AllIds, Resend, marked, SameListed
<1> HIDE DEF told
<1>4. SameListed(told, first)
  BY ChangedListed DEF Resend
<1> HIDE DEF first
<1>5. SameListed(first, second)
  BY ChangedListed DEF Resend
<1> HIDE DEF second
<1> QED
  BY <1>1, <1>2, <1>3, <1>4, <1>5, SameListedThen

LEMMA SwitchedListed ==
    ASSUME NEW dst
    PROVE  SameListed(server, Switched(dst))
<1> DEFINE Update(s, id) == IF s.owner[id] = Primary
                            THEN OnClipboardChanged(s, Primary, id, s.seq[id]) ELSE s
           Send(s, id) == IF WithinLimit(s, id) THEN SetClipboard(s, dst, id) ELSE s
           first == Update(server, 0)
           left == IF server.active = Primary THEN Update(first, 1)
                   ELSE Write(server, server.active, Msg("leave", 0, 0, Empty))
           cut == [left EXCEPT !.active = dst, !.seqNum = @ + 1, !.forced = FALSE]
           entered == IF dst = Primary THEN [cut EXCEPT !.screenSeq = cut.seqNum]
                      ELSE Write(cut, dst, Msg("enter", 0, cut.seqNum, Empty))
           third == Send(entered, 0)
<1>1. Switched(dst) = Send(third, 1)
  BY DEF Switched, AllIds
<1>2. \A s, id : SameListed(s, Update(s, id)) /\ SameListed(s, Send(s, id))
  BY ChangedListed, SetClipboardListed DEF SameListed
<1>3. \A s, c, m : SameListed(s, Write(s, c, m))
  BY DEF SameListed, Write
<1>4. SameListed(server, left)
  BY <1>2, <1>3, SameListedThen
<1> HIDE DEF Update, Send, left
<1>5. SameListed(left, cut)
  BY DEF SameListed
<1> HIDE DEF cut
<1>6. SameListed(cut, entered)
  BY <1>3 DEF SameListed
<1> HIDE DEF entered
<1>7. SameListed(entered, third) /\ SameListed(third, Send(third, 1))
  BY <1>2
<1> HIDE DEF third
<1> QED
  BY <1>1, <1>4, <1>5, <1>6, <1>7, SameListedThen

\* The steps of the server alone.
LEMMA ServerListed ==
    ASSUME IInv, SwitchScreen \/ Dispatch \/ CopyOnPrimary
    PROVE  server'.listed = server.listed /\ client' = client
<1>0. server \in Server /\ "listed" \in DOMAIN server
  BY DEF IInv, Sound, Typed, Server
<1> SUFFICES SameListed(server, server') /\ client' = client
  BY <1>0 DEF SameListed
<1>1. CASE SwitchScreen
  BY <1>1, SwitchedListed DEF SwitchScreen
<1>2. CASE Dispatch
  <2> DEFINE e == Head(server.queue)
             s == [server EXCEPT !.queue = Tail(server.queue)]
  <2>1. SameListed(server, s)
    BY DEF SameListed
  <2>2. \A m : SameListed(s, Write(s, e.who, m))
    BY DEF SameListed, Write
  <2>3. /\ SameListed(s, Grabbed(s, e.who, e.id, e.seq)) /\ SameListed(s, s)
        /\ SameListed(s, OnClipboardChanged(s, e.who, e.id, e.seq))
    BY GrabbedListed, ChangedListed DEF SameListed
  <2>4. server' \in {Grabbed(s, e.who, e.id, e.seq), OnClipboardChanged(s, e.who, e.id, e.seq),
                     Write(s, e.who, Msg("set", e.id, 0, e.data)), s}
    BY <1>2 DEF Dispatch
  <2> HIDE DEF s, e
  <2>5. SameListed(s, server')
    BY <2>2, <2>3, <2>4
  <2> QED
    BY <1>2, <2>1, <2>5, SameListedThen DEF Dispatch
<1>3. CASE CopyOnPrimary
  BY <1>3 DEF CopyOnPrimary, Post, SameListed
<1> QED
  BY <1>1, <1>2, <1>3

\* sendClipboard holds back nothing else, and takes no copy from the loop.
LEMMA UploadSends ==
    ASSUME NEW p \in Client, NEW id \in Ids
    PROVE  LET w == SendClipboard(p, id)
           IN  /\ w \in Client /\ w.active = p.active
               /\ w.own[id] = "unsent" => w.content[id] \in Big
               /\ \A i \in Ids : /\ w.own[i] = "unsent" => p.own[i] = "unsent"
                                 /\ w.content[i] = p.content[i]
                                 /\ Has(p.local, Copies(i)) => Has(w.local, Copies(i))
<1> DEFINE w == SendClipboard(p, id)
<1>1. w \in Client /\ w.active = p.active /\ Uploaded(p, w, id)
  BY SendClipboardIs
<1>2. (w.own[id] = "unsent" => p.own[id] = "unsent") /\ (w.own[id] = "unsent" => p.content[id] \in Big)
  BY DEF SendClipboard, Unsent, Client
<1> HIDE DEF w
<1>3. w.content = p.content /\ \A i \in Ids : i # id => w.own[i] = p.own[i]
  BY <1>1 DEF Uploaded
<1>4. ASSUME NEW i \in Ids, Has(p.local, Copies(i))
      PROVE  Has(w.local, Copies(i))
  <2>1. CASE w = p
    BY <1>4, <2>1
  <2>2. CASE w # p
    <3>1. PICK l, m, n : Longer(p.local, l, m) /\ Longer(l, w.local, n)
      BY <1>1, <2>2 DEF Uploaded
    <3> QED
      BY <1>4, <3>1, HasLonger
  <2> QED
    BY <2>1, <2>2
<1> QED
  BY <1>1, <1>2, <1>3, <1>4 DEF w

\* One client moves.
LEMMA OneSendsOn ==
    ASSUME ClipboardAssumption, IInv, AllSentOn(server, client), NEW c \in Clients, NEW t, NEW j,
           t.listed \subseteq server.listed \cup {c}, Others(client, j, c),
           c \in t.listed => \A id \in Ids : SentOn(j[c], id)
    PROVE  AllSentOn(t, j)
<1> SUFFICES ASSUME NEW d \in t.listed \ {Primary}, NEW id \in Ids, d # c
             PROVE  SentOn(j[d], id)
  BY DEF AllSentOn
<1>1. d \in server.listed \ {Primary}
  OBVIOUS
<1>2. d \in Clients
  BY <1>1, FollowedType DEF IInv
<1> QED
  BY <1>1, <1>2 DEF AllSentOn, Others

LEMMA ClientDispatchSends ==
    ASSUME ClipboardAssumption, IInv, AllSentOn(server, client),
           NEW c \in Clients, ClientDispatch(c)
    PROVE  AllSentOn(server', client')
<1> DEFINE p == client[c]
           e == Head(p.local)
           local == Tail(p.local)
           k == [p EXCEPT !.local = local]
           w == IF e.kind = "grabbed" THEN GrabHandled(k, e.id)
                ELSE [k EXCEPT !.out = Append(@, e)]
           j == [client EXCEPT ![c] = w]
<1>1. client \in [Clients -> Client] /\ p \in Client
  BY DEF IInv, Sound, Typed
<1>2. p.local # <<>> /\ client' = j /\ server' = server
  BY DEF ClientDispatch
<1>3. p.local \in Seq(LocalType) /\ p.out \in Seq(FromClient) /\ p.seq \in Nat
  BY <1>1 DEF Client
<1>4. e \in LocalType /\ local \in Seq(LocalType) /\ Shorter(p.local, local, e)
  BY <1>2, <1>3, Popped
<1>5. j[c] = w /\ Others(client, j, c)
  BY <1>1 DEF Others
<1>6. SUFFICES ASSUME c \in server.listed
               PROVE  \A id \in Ids : SentOn(w, id)
  <2> HIDE DEF w, j
  <2> QED
    BY <1>2, <1>5, <1>6, OneSendsOn
<1>7. \A i \in Ids : SentOn(p, i)
  BY ClipboardAssumption, <1>6 DEF AllSentOn, ClipboardAssumption
<1>8. \A i \in Ids : e \notin Copies(i) => (Has(p.local, Copies(i)) <=> Has(local, Copies(i)))
  BY <1>4, HasShorter
<1> HIDE DEF e, local, p, j
<1>9. CASE e.kind = "grabbed"
  <2> DEFINE id == e.id
             own == [p.own EXCEPT ![id] = "unsent"]
             out == Append(p.out, Msg("grab", id, p.seq, Empty))
             grabbed == [p EXCEPT !.local = local, !.out = out, !.own = own]
             v == SendClipboard(grabbed, id)
  <2>1. id \in Ids
    BY <1>4 DEF LocalType
  <2>2. w = IF p.active THEN grabbed ELSE v
    <3>1. w = GrabHandled(k, id)
      BY <1>9
    <3>2. k = [p EXCEPT !.local = local]
      OBVIOUS
    <3> HIDE DEF k
    <3>3. k.active = p.active
      BY <1>1, <3>2 DEF Client
    <3>4. [k EXCEPT !.out = Append(@, Msg("grab", id, k.seq, Empty)), !.own[id] = "unsent"] = grabbed
      BY <1>1, <3>2 DEF Client
    <3> HIDE DEF id, grabbed, w
    <3> QED
      BY <3>1, <3>3, <3>4 DEF GrabHandled
  <2>3. Msg("grab", id, p.seq, Empty) \in FromClient
    BY <1>3, <2>1 DEF FromClient, Msg, Value
  <2>4. out \in Seq(FromClient) /\ own \in [Ids -> {"no", "unsent", "sent"}]
        /\ \A i \in Ids : i # id => own[i] = p.own[i]
    <3>1. out \in Seq(FromClient)
      BY <1>3, <2>3
    <3>2. p.own \in [Ids -> {"no", "unsent", "sent"}]
      BY <1>1 DEF Client
    <3> HIDE DEF id
    <3> QED
      BY <2>1, <3>1, <3>2
  <2> HIDE DEF out, own
  <2>5. /\ grabbed \in Client /\ grabbed.active = p.active /\ grabbed.content = p.content
        /\ grabbed.local = local /\ grabbed.own = own
    BY <1>1, <1>4, <2>4 DEF Client
  <2> HIDE DEF grabbed, w
  <2>6. \A i \in Ids : i # id => e \notin Copies(i)
    BY DEF Copies
  <2>7. \A i \in Ids : i # id => SentOn(grabbed, i)
    BY <1>7, <1>8, <2>4, <2>5, <2>6 DEF SentOn
  <2>8. CASE p.active
    BY <2>2, <2>5, <2>8 DEF SentOn
  <2>9. CASE ~p.active
    <3>1. w = v
      BY <2>2, <2>9
    <3> HIDE DEF v
    <3>2. /\ w.active = grabbed.active
          /\ w.own[id] = "unsent" => w.content[id] \in Big
          /\ \A i \in Ids : /\ w.own[i] = "unsent" => grabbed.own[i] = "unsent"
                            /\ w.content[i] = grabbed.content[i]
                            /\ Has(grabbed.local, Copies(i)) => Has(w.local, Copies(i))
      BY <2>1, <2>5, <3>1, UploadSends DEF v
    <3> QED
      BY <2>7, <3>2 DEF SentOn
  <2> QED
    BY <2>8, <2>9
<1>10. CASE e.kind # "grabbed"
  <2>1. w = [p EXCEPT !.local = local, !.out = Append(p.out, e)]
    BY <1>1, <1>10 DEF Client
  <2> HIDE DEF w
  <2>2. w.active = p.active /\ w.own = p.own /\ w.content = p.content /\ w.local = local
    BY <1>1, <2>1 DEF Client
  <2>3. \A i \in Ids : e \notin Copies(i)
    BY <1>10 DEF Copies
  <2> QED
    BY <1>7, <1>8, <2>2, <2>3 DEF SentOn
<1> QED
  BY <1>9, <1>10

LEMMA ClientReceiveSends ==
    ASSUME ClipboardAssumption, IInv, AllSentOn(server, client),
           NEW c \in Clients, ClientReceive(c)
    PROVE  AllSentOn(server', client')
<1> DEFINE p == client[c]
           o == server.out[c]
           m == Head(o)
           a == IF m.kind = "leave" THEN [p EXCEPT !.active = FALSE] ELSE Received(p, m)
           w == Received(p, m)
           j == [client EXCEPT ![c] = w]
<1>1. /\ o # <<>> /\ server \in Server /\ client \in [Clients -> Client] /\ p \in Client
  BY DEF IInv, ClientReceive, Sound, Typed
<1>2. client' = j /\ server'.listed = server.listed
  BY <1>1 DEF ClientReceive, Server
<1>3. o \in Seq(ToClient)
  BY <1>1 DEF Server
<1>4. m \in ToClient
  BY <1>1, <1>3, Popped
<1>5. j[c] = w /\ Others(client, j, c)
  BY <1>1 DEF Others
<1>6. SUFFICES ASSUME c \in server.listed
               PROVE  \A id \in Ids : SentOn(w, id)
  <2> HIDE DEF w, j
  <2> QED
    BY <1>2, <1>5, <1>6, OneSendsOn
<1>7. \A i \in Ids : SentOn(p, i)
  BY <1>6 DEF AllSentOn, ClipboardAssumption
<1>8. a \in Client /\ Takes(p, a, m)
  BY <1>1, <1>4, TakesIs
<1>9. CASE m.kind = "leave"
  <2> DEFINE x == SendClipboard(a, 0)
  <2>0. 0 \in Ids /\ 1 \in Ids /\ \A i \in Ids : i \in {0, 1}
    BY DEF Ids, ClipboardEnd
  <2>1. w = SendClipboard(x, 1)
    BY <1>9 DEF Received, AllIds
  <2> HIDE DEF a, w
  <2>2. /\ x \in Client
        /\ x.own[0] = "unsent" => x.content[0] \in Big
    BY <1>8, <2>0, UploadSends
  <2> HIDE DEF x
  <2>3. /\ w.own[1] = "unsent" => w.content[1] \in Big
        /\ w.own[0] = "unsent" => x.own[0] = "unsent"
        /\ w.content[0] = x.content[0]
    BY <2>0, <2>1, <2>2, UploadSends
  <2> QED
    BY <2>0, <2>2, <2>3 DEF SentOn
<1>10. CASE m.kind = "enter"
  <2>1. w.active
    BY <1>1, <1>10 DEF Received, Client
  <2> QED
    BY <2>1 DEF SentOn
<1>11. CASE m.kind \in {"set", "grab"}
  <2>1. w = a /\ w.active = p.active
    BY <1>1, <1>11 DEF Received, Client
  <2> HIDE DEF w, a, p
  <2> QED
    BY <1>7, <1>8, <2>1 DEF SentOn, Takes
<1> QED
  BY <1>4, <1>9, <1>10, <1>11 DEF ToClient

LEMMA CopyOnClientSends ==
    ASSUME ClipboardAssumption, IInv, AllSentOn(server, client),
           NEW c \in Clients, CopyOnClient(c)
    PROVE  AllSentOn(server', client')
<1> DEFINE p == client[c]
<1>1. client \in [Clients -> Client] /\ p \in Client /\ server' = server
  BY DEF IInv, Sound, Typed, CopyOnClient
<1>2. PICK id \in Ids, d \in Data :
        client' = [client EXCEPT ![c].content[id] = d,
                                 ![c].local = IF c \notin server.listed THEN @
                                              ELSE Append(@, Msg("grabbed", id, 0, Empty))]
  BY DEF CopyOnClient, ClipboardAssumption
<1> DEFINE e == Msg("grabbed", id, 0, Empty)
           local == IF c \notin server.listed THEN p.local ELSE Append(p.local, e)
           content == [p.content EXCEPT ![id] = d]
           w == [p EXCEPT !.content = content, !.local = local]
           j == [client EXCEPT ![c] = w]
<1>3. client' = j
  BY <1>1, <1>2 DEF Client
<1>4. j[c] = w /\ Others(client, j, c)
  BY <1>1 DEF Others
<1>5. SUFFICES ASSUME c \in server.listed
               PROVE  \A i \in Ids : SentOn(w, i)
  <2> HIDE DEF w, j
  <2> QED
    BY <1>1, <1>3, <1>4, <1>5, OneSendsOn
<1>6. e \in LocalType /\ e \in Copies(id)
  BY DEF LocalType, Msg, Value, Copies
<1>7. p.local \in Seq(LocalType)
  BY <1>1 DEF Client
<1> HIDE DEF e
<1>8. Longer(p.local, local, e)
  BY <1>5, <1>6, <1>7, Appended
<1>9. \A i \in Ids : i # id => content[i] = p.content[i]
  BY <1>1 DEF Client
<1> HIDE DEF local, content
<1>10. w.own = p.own /\ w.active = p.active /\ w.content = content /\ w.local = local
  BY <1>1 DEF Client
<1> HIDE DEF w
<1>11. Has(local, Copies(id)) /\ \A i \in Ids : Has(p.local, Copies(i)) => Has(local, Copies(i))
  BY <1>6, <1>8, HasLonger
<1>12. \A i \in Ids : SentOn(p, i)
  BY <1>5 DEF AllSentOn, ClipboardAssumption
<1> HIDE DEF p
<1> QED
  BY <1>9, <1>10, <1>11, <1>12 DEF SentOn

\* The rest of the steps, which take nothing from a loop but that of a client
\* whose connection is lost.
LEMMA ConnectionsSend ==
    ASSUME ClipboardAssumption, IInv, AllSentOn(server, client), NEW c \in Clients,
           ServerReceive(c) \/ Connect(c) \/ Drop(c)
    PROVE  AllSentOn(server', client')
<1>1. /\ server \in Server /\ client \in [Clients -> Client] /\ client[c] \in Client
      /\ Sound(server, client)
  BY DEF IInv, Sound, Typed
<1>2. CASE ServerReceive(c)
  <2> DEFINE p == client[c]
             m == Head(p.out)
             w == [p EXCEPT !.out = Tail(p.out)]
             t == IF m.kind = "grab" THEN Post(server, Event("grabbed", c, m.id, m.seq, Empty))
                  ELSE Assembled(server, c, m)
  <2>1. /\ p.out # <<>> /\ c \in server.listed /\ server' = t
        /\ client' = [client EXCEPT ![c] = w]
    BY <1>1, <1>2 DEF ServerReceive
  <2>2. p.out \in Seq(FromClient)
    BY <1>1 DEF Client
  <2>3. m \in FromClient
    BY <2>1, <2>2, Popped
  <2>4. t.listed = server.listed
    BY <1>1, <2>3, ReceivedIs DEF Handover, SameBoard
  <2> HIDE DEF t
  <2>5. w.own = p.own /\ w.active = p.active /\ w.content = p.content /\ w.local = p.local
    BY <1>1 DEF Client
  <2>6. \A i \in Ids : SentOn(p, i)
    BY <2>1 DEF AllSentOn, ClipboardAssumption
  <2> HIDE DEF w, p
  <2>7. \A i \in Ids : SentOn(w, i)
    BY <2>5, <2>6 DEF SentOn
  <2>8. client'[c] = w /\ Others(client, client', c)
    BY <1>1, <2>1 DEF Others
  <2> QED
    BY <2>1, <2>4, <2>7, <2>8, OneSendsOn
<1>3. CASE Connect(c)
  <2>1. /\ server'.listed = server.listed \cup {c} /\ Others(client, client', c)
        /\ client'[c].own = [id \in Ids |-> "no"]
    <3>1. server'.listed = server.listed \cup {c}
      BY <1>1, <1>3 DEF Connect, Server
    <3>2. client' = [client EXCEPT ![c] = [@ EXCEPT !.own = [id \in Ids |-> "no"],
                                           !.seq = 0, !.local = <<>>, !.out = <<>>]]
      BY <1>3 DEF Connect
    <3> QED
      BY <1>1, <3>1, <3>2 DEF Client, Others
  <2>2. \A id \in Ids : SentOn(client'[c], id)
    BY <2>1 DEF SentOn
  <2> QED
    BY <2>1, <2>2, OneSendsOn
<1>4. CASE Drop(c)
  <2>1. server'.listed = server.listed \ {c} /\ Others(client, client', c)
    BY <1>1, <1>4 DEF Drop, Server, Others
  <2> QED
    BY <2>1, OneSendsOn
<1> QED
  BY <1>2, <1>3, <1>4

LEMMA NothingIsHeldBack == Spec => []AllSentOn(server, client)
<1>1. Init => AllSentOn(server, client)
  BY ClipboardAssumption DEF Init, AllSentOn, SentOn, Screens
<1>2. IInv /\ AllSentOn(server, client) /\ [Next]_vars => AllSentOn(server', client')
  <2> SUFFICES ASSUME IInv, AllSentOn(server, client), [Next]_vars
               PROVE  AllSentOn(server', client')
    OBVIOUS
  <2>1. CASE SwitchScreen \/ Dispatch \/ CopyOnPrimary
    <3>1. server'.listed = server.listed /\ client' = client
      BY <2>1, ServerListed
    <3> QED
      BY <3>1 DEF AllSentOn
  <2>2. ASSUME NEW c \in Clients, ServerReceive(c) \/ Connect(c) \/ Drop(c)
        PROVE  AllSentOn(server', client')
    BY <2>2, ClipboardAssumption, ConnectionsSend
  <2>3. ASSUME NEW c \in Clients, ClientDispatch(c)
        PROVE  AllSentOn(server', client')
    BY <2>3, ClipboardAssumption, ClientDispatchSends
  <2>4. ASSUME NEW c \in Clients, ClientReceive(c)
        PROVE  AllSentOn(server', client')
    BY <2>4, ClipboardAssumption, ClientReceiveSends
  <2>5. ASSUME NEW c \in Clients, CopyOnClient(c)
        PROVE  AllSentOn(server', client')
    BY <2>5, ClipboardAssumption, CopyOnClientSends
  <2>6. CASE UNCHANGED vars
    BY <2>6 DEF vars
  <2> QED
    BY <2>1, <2>2, <2>3, <2>4, <2>5, <2>6 DEF Next
<1>3. (AllSentOn(server, client))' <=> AllSentOn(server', client')
  BY DEF AllSentOn
<1> HIDE DEF AllSentOn
<1> QED
  BY <1>1, <1>2, <1>3, InvariantHolds, PTL DEF Spec

\* When nothing is on its way, the server has what the client that owns the
\* clipboard has, if that is within the limit and the client has sent it or is not
\* active: no copy is held back, and no chunk that another message overtook, late
\* grab, switch or reconnection leaves the server with an earlier upload
\* (Client::sendClipboard, ClientProxy1_6::recvClipboard).
THEOREM OwnersAreHeard == Spec => []OwnerIsHeard
<1>1. AllFollowed(server, client) /\ AllSentOn(server, client) /\ IInv => OwnerIsHeard
  <2> SUFFICES ASSUME IInv, AllFollowed(server, client), AllSentOn(server, client), ~server.mixed, ~server.unexpected,
                      NEW c \in server.listed \ {Primary}, NEW id \in Ids,
                      \A d \in Screens : Settled(d), server.owner[id] = c,
                      client[c].own[id] # "no", client[c].active => client[c].own[id] = "sent",
                      client[c].content[id] \notin Big, server.seq[id] <= client[c].seq
               PROVE  server.data[id] = client[c].content[id]
    BY DEF OwnerIsHeard
  <2> DEFINE s == server
             p == client[c]
  <2>1. c \in Screens /\ c # Primary /\ p.seq \in Nat
    BY ClipboardAssumption, FollowedType DEF IInv
  <2>2. /\ \A i \in 1 .. Len(s.queue) : s.queue[i].who # c
        /\ s.out[c] = <<>> /\ p.local = <<>> /\ p.out = <<>>
    BY <2>1 DEF Settled
  <2>3. s.seq[id] \in Nat /\ s.seq[id] <= p.seq /\ s.owner[id] = c
    BY DEF IInv, Sound, Typed, Server
  <2>10. p.own[id] = "sent"
    <3>1. p.own[id] \in {"no", "unsent", "sent"}
      BY <2>1 DEF IInv, Sound, Typed, Server, Screens, Client
    <3>2. ~Has(p.local, Copies(id))
      <4>1. Len(p.local) = 0
        BY <2>2
      <4> QED
        BY <4>1 DEF Has
    <3> QED
      BY <3>1, <3>2 DEF AllSentOn, SentOn
  <2>4. Heard(s, p, c, id) /\ p.own[id] = "sent"
    BY <2>10 DEF AllFollowed, Followed
  <2> HIDE DEF s, p
  <2>5. \A i \in 1 .. Len(<<>>) : FALSE
    OBVIOUS
  <2>6. ~Has(p.local, Copies(id)) /\ ~Reported(p, id)
    BY <2>2, <2>5 DEF Has, Reported
  <2>7. ~Has(s.queue, Notes(c, id))
    BY <2>2 DEF Has, Notes
  <2>8. ~Void(s, p, c, id)
    <3>1. ~Coming(s.queue, c, id)
      BY <2>2 DEF Coming, SendFor
    <3>2. Untouched(s.out[c], id)
      BY <2>2, <2>5 DEF Untouched
    <3> QED
      BY <2>1, <2>3, <3>1, <3>2 DEF Void, Due, Old
  <2>9. PICK u \in 0 .. p.seq : HeardAt(s, p, c, id, u)
    BY <2>4, <2>6 DEF Heard
  <2> QED
    BY <2>3, <2>6, <2>7, <2>8, <2>9 DEF HeardAt, Arrived, s, p
<1> QED
  BY <1>1, InvariantHolds, UploadsAreFollowed, NothingIsHeldBack, PTL
=============================================================================
