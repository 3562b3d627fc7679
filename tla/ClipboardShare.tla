--------------------------- MODULE ClipboardShare ---------------------------
(***************************************************************************)
(* The shared clipboards: Server with its proxies and the server's own     *)
(* screen on one event loop, and every Client with its ServerProxy on a    *)
(* loop of its own.                                                        *)
(* A grab, an enter and a leave are written to the stream at once.  The    *)
(* data of a clipboard is posted to the event loop in chunks first, so     *)
(* that messages written later can overtake it.  All proxies of the server *)
(* assemble what they receive in one buffer.                               *)
(* A failed assertion ends the program, as in a build with assertions.      *)
(***************************************************************************)
EXTENDS Naturals, Sequences

CONSTANTS
    Clients,      \* clients that can connect
    Primary,      \* the screen of the server
    Data,         \* what a user can copy: in one chunk, and of one size
    Big,          \* the data over the size limit
    Empty,        \* a clipboard with nothing in it
    Copied,       \* bound: the clipboards that users copy to
    MaxCopies,    \* bound: how often users copy
    MaxMoves      \* bound: how often the active screen changes or a connection is lost

ClipboardEnd == 2
Ids == 0 .. ClipboardEnd - 1

ASSUME ClipboardAssumption ==
    /\ Primary \notin Clients /\ Empty \notin Clients \cup {Primary} \cup Data
    /\ Big \subseteq Data
    /\ Copied \subseteq Ids /\ MaxCopies \in Nat /\ MaxMoves \in Nat

VARIABLES
    server,   \* Server, its proxies, PrimaryClient, and what they have written
    client,   \* Client and ServerProxy of each client, and what they have written
    moves     \* what is left of MaxCopies and MaxMoves

vars == <<server, client, moves>>

AllIds(Op(_, _), s) == Op(Op(s, 0), 1)
Screens == Clients \cup {Primary}
Blank == [id \in Ids |-> Empty]
Msg(kind, id, seq, data) == [kind |-> kind, id |-> id, seq |-> seq, data |-> data]
Event(kind, who, id, seq, data) ==
    [kind |-> kind, who |-> who, id |-> id, seq |-> seq, data |-> data]

\* The proxy of an event is deleted, and the address of a deleted one taken.
Orphan(e) == [e EXCEPT !.who = Empty]
Adopted(e, c) ==
    IF e.kind = "send" /\ e.who = Empty THEN Event("send", c, e.id, 0, e.data) ELSE e

-----------------------------------------------------------------------------
(* Server.                                                                  *)

Post(s, event) == [s EXCEPT !.queue = Append(@, event)]
Write(s, c, msg) == [s EXCEPT !.out[c] = Append(@, msg)]

\* ClientProxy1_6::setClipboard, PrimaryClient::setClipboard.
SetClipboard(s, dst, id) ==
    CASE ~s.dirty[dst][id] -> s
      [] s.dirty[dst][id] /\ dst = Primary ->
           [s EXCEPT !.dirty[dst][id] = FALSE, !.content[id] = s.shown[id]]
      [] s.dirty[dst][id] /\ dst # Primary ->
           Post([s EXCEPT !.dirty[dst][id] = FALSE, !.copy[dst][id] = s.shown[id]],
                Event("send", dst, id, 0, s.shown[id]))

\* All screens but the one that has it get the clipboard again.
MarkDirty(s, owner, id) ==
    [s EXCEPT !.dirty = [c \in Screens |-> IF c \in s.listed
                          THEN [@[c] EXCEPT ![id] = c # owner] ELSE @[c]]]

DeliverThenMark(s, sender, id) ==    \* mutant: the wrong order
    MarkDirty(SetClipboard(s, s.active, id), sender, id)

Deliver(s, sender, id) ==
    SetClipboard(MarkDirty(s, sender, id), s.active, id)

StaleOrEqual(s, id, seq) == seq <= s.seq[id]    \* mutant: off by one

\* A message sent before the owner of the clipboard was entered.
Stale(s, id, seq) == seq < s.seq[id]

\* onClipboardChanged.  shown is m_clipboard, data is m_clipboardData: the
\* first is replaced before the size is looked at.
OnClipboardChanged(s, sender, id, seq) ==
    LET new == IF sender = Primary THEN s.content[id] ELSE s.copy[sender][id]
        got == [s EXCEPT !.shown[id] = new,
                         !.unexpected = @ \/ s.owner[id] # sender]
    IN  IF Stale(s, id, seq) THEN s
        ELSE IF new \in Big \/ new = s.data[id] THEN got
        ELSE Deliver([got EXCEPT !.data[id] = new], sender, id)

\* handleClipboardGrabbed.
Grabbed(s, grabber, id, seq) ==
    LET told == [MarkDirty(s, grabber, id) EXCEPT
                   !.owner[id] = grabber, !.seq[id] = seq,
                   !.shown[id] = Empty, !.data[id] = Empty,
                   !.content[id] = IF grabber = Primary THEN @ ELSE Empty,
                   !.out = [c \in Clients |-> IF c \in s.listed \ {grabber}
                             THEN Append(@[c], Msg("grab", id, 0, Empty)) ELSE @[c]]]
        Resend(t, i) == OnClipboardChanged(t, Primary, i, t.seq[i])
    IN  IF grabber \notin s.listed \/ (grabber # Primary /\ Stale(s, id, seq)) THEN s
        ELSE IF grabber = Primary /\ s.active # Primary THEN AllIds(Resend, told)
        ELSE told

AnySize(s, id) == TRUE    \* mutant: the limit is not asked again

WithinLimit(s, id) == s.shown[id] \notin Big

\* The clipboards of switchScreen.
Switched(dst) ==
    LET Update(s, id) == IF s.owner[id] = Primary
                         THEN OnClipboardChanged(s, Primary, id, s.seq[id]) ELSE s
        left    == IF server.active = Primary THEN AllIds(Update, server)
                   ELSE Write(server, server.active, Msg("leave", 0, 0, Empty))
        cut     == [left EXCEPT !.active = dst, !.seqNum = @ + 1, !.forced = FALSE]
        entered == IF dst = Primary THEN [cut EXCEPT !.screenSeq = cut.seqNum]
                   ELSE Write(cut, dst, Msg("enter", 0, cut.seqNum, Empty))
        Send(s, id) == IF WithinLimit(s, id) THEN SetClipboard(s, dst, id) ELSE s
    IN  AllIds(Send, entered)

SwitchScreen ==
    /\ moves.others > 0
    /\ \E dst \in server.listed \ {server.active} : server' = Switched(dst)
    /\ moves' = [moves EXCEPT !.others = @ - 1]
    /\ UNCHANGED client

\* The next event of the server's loop: ClipboardGrabbed, ClipboardChanged of a
\* proxy (handleClipboardChanged), or a chunk to be written (ClipboardChunk::send).
\* A chunk of a deleted proxy is written to no stream, or ends the program.
Dispatch ==
    /\ server.queue # <<>>
    /\ LET e == Head(server.queue)
           s == [server EXCEPT !.queue = Tail(@)]
       IN  server' = CASE e.kind = "grabbed" -> Grabbed(s, e.who, e.id, e.seq)
                       [] e.kind = "changed" /\ e.who \in s.listed ->
                            OnClipboardChanged(s, e.who, e.id, e.seq)
                       [] e.kind = "send" /\ e.who \in s.listed ->
                            Write(s, e.who, Msg("set", e.id, 0, e.data))
                       [] OTHER -> s
    /\ UNCHANGED <<client, moves>>

\* ClipboardChunk::assemble of a proxy, with the buffer that all proxies share.
\* The chunk and the end mark, which checks the size, are one message.
Assembled(s, c, msg) ==
    IF msg.kind = "start"
    THEN [s EXCEPT !.cached = 0, !.mixed = @ \/ s.filling \notin {Empty, c}, !.filling = c]
    ELSE LET done == [s EXCEPT !.cached = @ + 1, !.filling = Empty] IN
           IF s.cached # 0 THEN done
           ELSE Post([done EXCEPT !.copy[c][msg.id] = msg.data],
                     Event("changed", c, msg.id, msg.seq, Empty))

\* ClientProxy1_0::recvGrabClipboard, ClientProxy1_6::recvClipboard.
ServerReceive(c) ==
    /\ c \in server.listed /\ client[c].out # <<>>
    /\ LET msg == Head(client[c].out) IN
         server' = IF msg.kind = "grab"
                   THEN Post(server, Event("grabbed", c, msg.id, msg.seq, Empty))
                   ELSE Assembled(server, c, msg)
    /\ client' = [client EXCEPT ![c].out = Tail(@)]
    /\ UNCHANGED moves

-----------------------------------------------------------------------------
(* Client.                                                                  *)

Unsent(k, id) ==
    \/ k.own[id] = "unsent"
    \/ k.own[id] = "sent" /\ k.content[id] # k.data[id]

\* sendClipboard: not again what was sent, and nothing over the limit.  data is
\* m_dataClipboard; what is no other copy has the time of the last one.
SendClipboard(k, id) ==
    IF ~Unsent(k, id) \/ k.content[id] \in Big THEN k
    ELSE [k EXCEPT !.own[id] = "sent", !.data[id] = k.content[id],
                   !.local = @ \o <<Msg("start", id, k.seq, Empty),
                                    Msg("data", id, k.seq, k.content[id])>>]

\* handleClipboardGrabbed.
GrabHandled(k, id) ==
    LET grabbed == [k EXCEPT !.out = Append(@, Msg("grab", id, k.seq, Empty)),
                             !.own[id] = "unsent"]
    IN  IF k.active THEN grabbed ELSE SendClipboard(grabbed, id)

\* The next event of the client's loop: ClipboardGrabbed of its screen, or a
\* chunk to be written.
ClientDispatch(c) ==
    /\ client[c].local # <<>>
    /\ LET e == Head(client[c].local)
           k == [client[c] EXCEPT !.local = Tail(@)]
       IN  client' = [client EXCEPT ![c] =
                        IF e.kind = "grabbed" THEN GrabHandled(k, e.id)
                        ELSE [k EXCEPT !.out = Append(@, e)]]
    /\ UNCHANGED <<server, moves>>

\* enter, leave, setClipboard and grabClipboard of ServerProxy and Client.
Received(k, msg) ==
    CASE msg.kind = "enter" -> [k EXCEPT !.active = TRUE, !.seq = msg.seq]
      [] msg.kind = "leave" -> AllIds(SendClipboard, [k EXCEPT !.active = FALSE])
      [] msg.kind = "set"   -> [k EXCEPT !.content[msg.id] = msg.data, !.own[msg.id] = "no"]
      [] msg.kind = "grab"  -> [k EXCEPT !.content[msg.id] = Empty, !.own[msg.id] = "no"]

ClientReceive(c) ==
    /\ server.out[c] # <<>>
    /\ client' = [client EXCEPT ![c] = Received(@, Head(server.out[c]))]
    /\ server' = [server EXCEPT !.out[c] = Tail(@)]
    /\ UNCHANGED moves

-----------------------------------------------------------------------------
(* Users and connections.                                                   *)

\* A user copies on the server's screen, which reports it to the loop.
CopyOnPrimary ==
    /\ moves.copies > 0
    /\ \E id \in Copied, d \in Data :
         server' = Post([server EXCEPT !.content[id] = d],
                        Event("grabbed", Primary, id, server.screenSeq, Empty))
    /\ moves' = [moves EXCEPT !.copies = @ - 1]
    /\ UNCHANGED client

\* The same on a client.  One that is not connected has no handler for it.
CopyOnClient(c) ==
    /\ moves.copies > 0
    /\ \E id \in Copied, d \in Data :
         client' = [client EXCEPT ![c].content[id] = d,
                                  ![c].local = IF c \notin server.listed THEN @
                                               ELSE Append(@, Msg("grabbed", id, 0, Empty))]
    /\ moves' = [moves EXCEPT !.copies = @ - 1]
    /\ UNCHANGED server

\* Server::addClient with a new proxy, and Client::handleConnected, which keeps
\* m_active.  The proxy may have the address of a deleted one, and is the handler
\* of the chunks that wait for that one: reused.
Connect(c) ==
    /\ c \notin server.listed
    /\ \E reused \in BOOLEAN :
         server' = [server EXCEPT !.listed = @ \cup {c}, !.out[c] = <<>>,
                      !.dirty[c] = [id \in Ids |-> TRUE], !.copy[c] = Blank,
                      !.queue = IF reused THEN [i \in DOMAIN @ |-> Adopted(@[i], c)] ELSE @]
    /\ client' = [client EXCEPT ![c] = [@ EXCEPT !.own = [id \in Ids |-> "no"],
                                !.seq = 0, !.local = <<>>, !.out = <<>>]]
    /\ UNCHANGED moves

\* handleClientDisconnected, forceLeaveClient, and Client::cleanupScreen.  The
\* handlers of grabs and updates are removed, those of chunks are not and run on
\* the deleted proxy.  That of the client has no successor before they do: its
\* chunks come to nothing, or end the client, which starts without m_active.
Drop(c) ==
    /\ c \in server.listed /\ moves.others > 0
    /\ server' = [server EXCEPT !.listed = @ \ {c}, !.out[c] = <<>>,
                    !.active = IF @ = c THEN Primary ELSE @,
                    !.forced = @ \/ server.active = c,
                    !.screenSeq = IF server.active = c THEN server.seqNum ELSE @,
                    !.filling = IF @ = c THEN Empty ELSE @,
                    !.queue = [i \in DOMAIN @ |-> IF @[i].who = c THEN Orphan(@[i]) ELSE @[i]]]
    /\ \E ended \in BOOLEAN :
         client' = [client EXCEPT ![c].local = <<>>, ![c].out = <<>>, ![c].active = @ /\ ~ended]
    /\ moves' = [moves EXCEPT !.others = @ - 1]

Init ==
    /\ server = [listed |-> Screens, active |-> Primary, seqNum |-> 0,
                 owner |-> [id \in Ids |-> Primary], seq |-> [id \in Ids |-> 0],
                 shown |-> Blank, data |-> Blank,
                 dirty |-> [c \in Screens |-> [id \in Ids |-> c # Primary]],
                 copy |-> [c \in Clients |-> Blank], content |-> Blank, screenSeq |-> 0,
                 queue |-> <<>>, out |-> [c \in Clients |-> <<>>],
                 cached |-> 0, filling |-> Empty,
                 mixed |-> FALSE, unexpected |-> FALSE, forced |-> FALSE]
    /\ client = [c \in Clients |->
                   [content |-> Blank, own |-> [id \in Ids |-> "no"], data |-> Blank,
                    active |-> FALSE, seq |-> 0, local |-> <<>>, out |-> <<>>]]
    /\ moves = [copies |-> MaxCopies, others |-> MaxMoves]

Next ==
    /\ ~server.unexpected
    /\ \/ SwitchScreen \/ Dispatch \/ CopyOnPrimary
       \/ \E c \in Clients :
            \/ ServerReceive(c) \/ ClientDispatch(c) \/ ClientReceive(c)
            \/ CopyOnClient(c) \/ Connect(c) \/ Drop(c)

Spec == Init /\ [][Next]_vars

-----------------------------------------------------------------------------
(* Properties.                                                              *)

\* Nothing is on its way from or to a screen.
Settled(c) ==
    /\ \A i \in 1 .. Len(server.queue) : server.queue[i].who # c
    /\ c # Primary => /\ server.out[c] = <<>>
                      /\ client[c].local = <<>> /\ client[c].out = <<>>

\* A copy on the server's screen that the loop has not come to.
GrabQueued(id) ==
    \E i \in 1 .. Len(server.queue) :
      LET e == server.queue[i] IN e.kind = "grabbed" /\ e.who = Primary /\ e.id = id

ContentOf(c) == IF c = Primary THEN server.content ELSE client[c].content

\* A connected screen that the server takes for up to date has what the server
\* has: no copy of another user, late chunk, switch or reconnection in between
\* leaves it with anything else, as long as the assertion of onClipboardChanged
\* has not failed (the m_dirty flags of ClientProxy1_6 and
\* PrimaryClient, Server::onClipboardChanged).
CleanIsCurrent ==
    server.unexpected \/ \A c \in server.listed, id \in Ids :
      Settled(c) /\ ~server.dirty[c][id] /\ server.owner[id] # c
        => ContentOf(c)[id] = server.data[id]

\* The active screen has been sent every clipboard that the server has, unless
\* it is over the limit, or the screen became active because the one before
\* was lost (Server::switchScreen, onClipboardChanged).
ActiveIsServed ==
    server.unexpected \/ \A id \in Ids :
      server.dirty[server.active][id]
        => \/ server.data[id] = Empty \/ server.shown[id] \in Big \/ server.forced
           \/ GrabQueued(id)

\* When nothing is on its way, the server has the clipboard of the client that
\* owns it, if it is within the limit, unless the client is active, or takes
\* itself for active since it was lost when it was, and has not sent it; or it
\* has connected again and copied with a sequence number before the clipboard's.
\* Uploads of two clients at a time, and the update that the assertion of
\* onClipboardChanged excludes, void this (Client::sendClipboard,
\* ClientProxy1_6::recvClipboard).
OwnerIsHeard ==
    server.mixed \/ server.unexpected
    \/ \A c \in server.listed \ {Primary}, id \in Ids :
         /\ \A d \in Screens : Settled(d)
         /\ server.owner[id] = c /\ client[c].own[id] # "no"
         /\ client[c].active => client[c].own[id] = "sent"
         /\ client[c].content[id] \notin Big
         /\ server.seq[id] <= client[c].seq
         => server.data[id] = client[c].content[id]

\* "should be the expected client": an update comes from the screen that owns
\* the clipboard (Server::onClipboardChanged).
OwnerIsExpected == ~server.unexpected
=============================================================================
