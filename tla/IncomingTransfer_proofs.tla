----------------------- MODULE IncomingTransfer_proofs -----------------------
(***************************************************************************)
(* The safety invariants of IncomingTransfer, for every number of files,    *)
(* generations, queued frames and posted callbacks.                         *)
(*                                                                          *)
(* None of them is inductive alone.  The strengthening says who owns a      *)
(* running worker (the session, the destructor that waits for it, or the    *)
(* task of a cancel), in which states of the session each of these owners   *)
(* can exist, and that a callback still pending tells the truth about the   *)
(* worker that posted it.                                                   *)
(***************************************************************************)
EXTENDS IncomingTransfer, SequenceTheorems, TLAPS

Kinds == {"progress", "completed", "failed", "prompt", "cancel"}
Posts == [kind : Kinds, gen : Generations]

\* A callback of the given kind and generation waits in q.
Pending(q, k, g) == \E i \in 1..Len(q) : q[i] = [kind |-> k, gen |-> g]

Sessions ==
    [snap : Terminal \cup {"WaitingForAcceptance", "Queued", "Transferring",
              "Paused", "Interrupted", "Resuming", "Cancelling"},
     offer : {"awaiting", "accepted", "rejected"},
     preflight : BOOLEAN,
     pipe : {None} \cup Generations,
     gen : Generations,
     prompt : {None} \cup Generations,
     replay : BOOLEAN]

Workers ==
    [phase : {"none", "idle", "busy", "asking", "answered", "ended"},
     at : {"start", "manifest", "file", "broken"},
     queue : 0..QueueLimit,
     paused : BOOLEAN,
     stopping : BOOLEAN,
     decision : {"none", "go", "cancel"},
     out : {"none", "completed", "failed", "cancel"}]

Cleanups ==
    [phase : {"none", "waiting", "ok", "failed"}, of : {None} \cup Generations,
     gen : {None} \cup Generations, keep : BOOLEAN]

Typed ==
    /\ ses \in Sessions
    /\ w \in [Generations -> Workers]
    /\ posts \in Seq(Posts)
    /\ cleanup \in Cleanups
    /\ join \in {None} \cup Generations
    /\ disk \in [state : BOOLEAN, staging : BOOLEAN, done : 0..N]
    /\ conn \in BOOLEAN /\ trusted \in BOOLEAN /\ up \in BOOLEAN
    /\ Len(posts) <= MaxPosts

\* A worker's progress through its frames.
Working ==
    \A g \in Generations :
      Running(g) =>
        /\ w[g].out # "none" => w[g].out = "failed" /\ w[g].at = "broken"
        /\ w[g].phase \in {"asking", "answered"} => w[g].at = "manifest"
        /\ w[g].phase = "busy" => Len(posts) + 3 <= MaxPosts
        /\ w[g].phase # "idle" => Len(posts) + 2 <= MaxPosts

\* Who owns a running worker.
Owned ==
    \A g \in Generations :
      Running(g) =>
        \/ g = ses.pipe
        \/ g = join /\ w[g].stopping
        \/ cleanup.phase = "waiting" /\ g = cleanup.of /\ w[g].stopping

\* In which states of the session each owner exists.
Phases ==
    /\ ses.pipe # None => /\ join = None /\ cleanup.phase = "none"
                          /\ Active(ses) \/ ses.snap \in {"Completed", "Failed"}
    /\ join # None => Active(ses)
    /\ cleanup.phase # "none" => ses.snap = "Cancelling" /\ cleanup.gen = ses.gen
    /\ ses.offer = "awaiting" => ses.snap = "WaitingForAcceptance"
    /\ ses.preflight => ses.offer = "awaiting"
    /\ ~up => ses = FreshSession /\ posts = <<>>

\* Generations grow: what is left of an older pipeline is older.
Dated ==
    /\ ses.pipe # None => ses.pipe = ses.gen
    /\ join # None => join < ses.gen
    /\ cleanup.phase = "waiting" => cleanup.of < ses.gen
    /\ \A k \in Kinds, g \in Generations :
         Pending(posts, k, g) => g < ses.gen \/ g = ses.pipe

\* A pending report of an end is the end of its worker.
Truthful ==
    \A g \in Generations :
      /\ Pending(posts, "completed", g) => w[g].out = "completed"
      /\ Pending(posts, "failed", g) => w[g].out = "failed"

\* A finished cleanup that was to keep nothing has kept nothing.
Swept ==
    cleanup.phase = "ok" /\ ~cleanup.keep => ~disk.staging /\ ~disk.state

\* The prompt of a waiting worker, by cases that a step can follow.
Asked ==
    \A g \in Generations :
      w[g].phase = "asking" /\ ~w[g].stopping =>
        \/ w[g].decision # "none"
        \/ ses.prompt = g /\ ses.pipe = g
        \/ Pending(posts, "prompt", g)

IInv ==
    /\ Typed /\ Working /\ Owned /\ Phases /\ Dated /\ Truthful /\ Swept
    /\ EndedByItsOwnWorker /\ CancelledLeavesNothing /\ Asked

-----------------------------------------------------------------------------
(* The queue of callbacks.                                                  *)

\* invoke() adds the given callbacks of one worker and nothing else.
LEMMA PostEffect ==
    ASSUME posts \in Seq(Posts), NEW g \in Generations,
           NEW kinds \in Seq(Kinds), Post(g, kinds)
    PROVE  /\ posts' \in Seq(Posts)
           /\ Len(posts') = Len(posts) + Len(kinds)
           /\ \A k \in Kinds, h \in Generations :
                Pending(posts', k, h) <=>
                  \/ Pending(posts, k, h)
                  \/ h = g /\ \E j \in 1..Len(kinds) : kinds[j] = k
<1> DEFINE new == [i \in 1..Len(kinds) |-> [kind |-> kinds[i], gen |-> g]]
<1>1. new \in Seq(Posts) /\ Len(new) = Len(kinds)
  BY DEF Posts
<1>2. posts' = posts \o new
  BY DEF Post
<1> HIDE DEF new
<1>3. /\ posts' \in Seq(Posts)
      /\ Len(posts') = Len(posts) + Len(kinds)
      /\ \A i \in 1..Len(posts') :
           posts'[i] = IF i <= Len(posts) THEN posts[i] ELSE new[i - Len(posts)]
  <2>1. /\ posts \o new \in Seq(Posts)
        /\ Len(posts \o new) = Len(posts) + Len(new)
        /\ \A i \in 1..Len(posts) + Len(new) :
             (posts \o new)[i] = IF i <= Len(posts) THEN posts[i]
                                 ELSE new[i - Len(posts)]
    BY <1>1
  <2> QED BY <1>1, <1>2, <2>1
<1>4. ASSUME NEW k \in Kinds, NEW h \in Generations
      PROVE  Pending(posts', k, h) <=>
               \/ Pending(posts, k, h)
               \/ h = g /\ \E j \in 1..Len(kinds) : kinds[j] = k
  <2>1. ASSUME Pending(posts', k, h)
        PROVE  \/ Pending(posts, k, h)
               \/ h = g /\ \E j \in 1..Len(kinds) : kinds[j] = k
    <3>1. PICK i \in 1..Len(posts') : posts'[i] = [kind |-> k, gen |-> h]
      BY <2>1 DEF Pending
    <3>2. CASE i <= Len(posts)
      BY <1>3, <3>1, <3>2 DEF Pending
    <3>3. CASE i > Len(posts)
      <4>1. i - Len(posts) \in 1..Len(kinds) /\ posts'[i] = new[i - Len(posts)]
        BY <1>3, <3>3
      <4>2. [kind |-> kinds[i - Len(posts)], gen |-> g] = [kind |-> k, gen |-> h]
        BY <3>1, <4>1 DEF new
      <4> QED BY <4>1, <4>2
    <3> QED BY <3>2, <3>3, <1>3
  <2>2. ASSUME Pending(posts, k, h) PROVE Pending(posts', k, h)
    <3>1. PICK i \in 1..Len(posts) : posts[i] = [kind |-> k, gen |-> h]
      BY <2>2 DEF Pending
    <3>2. i \in 1..Len(posts') /\ posts'[i] = posts[i]
      BY <1>3
    <3> QED BY <3>1, <3>2 DEF Pending
  <2>3. ASSUME NEW j \in 1..Len(kinds), kinds[j] = k, h = g
        PROVE  Pending(posts', k, h)
    <3>1. Len(posts) + j \in 1..Len(posts')
      BY <1>3
    <3>2. posts'[Len(posts) + j] = new[j]
      BY <1>3, <3>1
    <3>3. new[j] = [kind |-> k, gen |-> h]
      BY <2>3 DEF new
    <3> QED BY <3>1, <3>2, <3>3 DEF Pending
  <2> QED BY <2>1, <2>2, <2>3
<1> QED BY <1>3, <1>4

\* One callback (a prompt, a progress report, a failure).
LEMMA PostOne ==
    ASSUME posts \in Seq(Posts), NEW g \in Generations, NEW a \in Kinds,
           Post(g, <<a>>)
    PROVE  /\ posts' \in Seq(Posts) /\ Len(posts') = Len(posts) + 1
           /\ \A k \in Kinds, h \in Generations :
                Pending(posts', k, h) <=>
                  Pending(posts, k, h) \/ (h = g /\ k \in {a})
<1> DEFINE kinds == <<a>>
<1>1. /\ kinds \in Seq(Kinds) /\ Len(kinds) = 1
      /\ \A k : (\E j \in 1..Len(kinds) : kinds[j] = k) <=> k \in {a}
  OBVIOUS
<1>2. Post(g, kinds)
  OBVIOUS
<1> HIDE DEF kinds
<1>4. /\ posts' \in Seq(Posts)
      /\ Len(posts') = Len(posts) + Len(kinds)
      /\ \A k \in Kinds, h \in Generations :
           Pending(posts', k, h) <=>
             \/ Pending(posts, k, h)
             \/ h = g /\ \E j \in 1..Len(kinds) : kinds[j] = k
  BY <1>1, <1>2, PostEffect, Zenon
<1> QED BY <1>1, <1>4

\* Two callbacks: the last progress and the end.
LEMMA PostTwo ==
    ASSUME posts \in Seq(Posts), NEW g \in Generations,
           NEW a \in Kinds, NEW b \in Kinds, Post(g, <<a, b>>)
    PROVE  /\ posts' \in Seq(Posts) /\ Len(posts') = Len(posts) + 2
           /\ \A k \in Kinds, h \in Generations :
                Pending(posts', k, h) <=>
                  Pending(posts, k, h) \/ (h = g /\ k \in {a, b})
<1> DEFINE kinds == <<a, b>>
<1>0. kinds \in Seq(Kinds)
  OBVIOUS
<1>1. /\ Len(kinds) = 2
      /\ kinds[1] = a /\ kinds[2] = b
  OBVIOUS
<1>2. Post(g, kinds)
  OBVIOUS
<1> HIDE DEF kinds
<1>3. \A k : (\E j \in 1..Len(kinds) : kinds[j] = k) <=> k \in {a, b}
  BY <1>1
<1>4. /\ posts' \in Seq(Posts)
      /\ Len(posts') = Len(posts) + Len(kinds)
      /\ \A k \in Kinds, h \in Generations :
           Pending(posts', k, h) <=>
             \/ Pending(posts, k, h)
             \/ h = g /\ \E j \in 1..Len(kinds) : kinds[j] = k
  BY <1>0, <1>2, PostEffect
<1>5. \A k \in Kinds, h \in Generations :
        Pending(posts', k, h) <=>
          Pending(posts, k, h) \/ (h = g /\ k \in {a, b})
  BY <1>3, <1>4, Zenon
<1>6. posts' \in Seq(Posts) /\ Len(posts') = Len(posts) + 2
  BY <1>1, <1>4
<1> QED BY <1>5, <1>6

\* The owner thread takes the oldest callback and leaves the others.
LEMMA TailEffect ==
    ASSUME posts \in Seq(Posts), posts # <<>>, posts' = Tail(posts)
    PROVE  /\ Head(posts) \in Posts
           /\ posts' \in Seq(Posts)
           /\ Len(posts') = Len(posts) - 1
           /\ \A k \in Kinds, h \in Generations :
                Pending(posts, k, h) <=>
                  \/ Pending(posts', k, h)
                  \/ Head(posts) = [kind |-> k, gen |-> h]
<1>1. /\ Head(posts) \in Posts /\ Head(posts) = posts[1]
      /\ posts' \in Seq(Posts)
      /\ Len(posts') = Len(posts) - 1
      /\ \A i \in 1..Len(posts') : posts'[i] = posts[i + 1]
      /\ Len(posts) \in Nat /\ Len(posts) > 0
  BY HeadTailProperties, EmptySeq
<1>2. ASSUME NEW k \in Kinds, NEW h \in Generations
      PROVE  Pending(posts, k, h) <=>
               \/ Pending(posts', k, h)
               \/ Head(posts) = [kind |-> k, gen |-> h]
  <2>1. ASSUME NEW i \in 1..Len(posts), posts[i] = [kind |-> k, gen |-> h]
        PROVE  \/ Pending(posts', k, h)
               \/ Head(posts) = [kind |-> k, gen |-> h]
    <3>1. CASE i = 1
      BY <1>1, <2>1, <3>1
    <3>2. CASE i # 1
      <4>1. i - 1 \in 1..Len(posts') /\ posts'[i - 1] = posts[i]
        BY <1>1, <3>2
      <4> QED BY <2>1, <4>1 DEF Pending
    <3> QED BY <3>1, <3>2
  <2>2. ASSUME NEW i \in 1..Len(posts'), posts'[i] = [kind |-> k, gen |-> h]
        PROVE  Pending(posts, k, h)
    <3>1. i + 1 \in 1..Len(posts) /\ posts[i + 1] = posts'[i]
      BY <1>1
    <3> QED BY <2>2, <3>1 DEF Pending
  <2>3. ASSUME Head(posts) = [kind |-> k, gen |-> h] PROVE Pending(posts, k, h)
    BY <1>1, <2>3 DEF Pending
  <2> QED BY <2>1, <2>2, <2>3 DEF Pending
<1> QED BY <1>1, <1>2

-----------------------------------------------------------------------------
(* The worker thread.                                                       *)

\* What every step of the worker of g has in common: it turns into nw and
\* posts callbacks of the kinds K.
Effect(g, nw, K) ==
    /\ Running(g) /\ UNCHANGED <<ses, cleanup, join, conn, trusted, up>> /\ up
    /\ nw.phase # "none" /\ w' = [w EXCEPT ![g] = nw]
    /\ disk' \in [state : BOOLEAN, staging : BOOLEAN, done : 0..N]
    /\ posts' \in Seq(Posts) /\ Len(posts') <= MaxPosts
    /\ \A k \in Kinds, h \in Generations :
         Pending(posts', k, h) <=> Pending(posts, k, h) \/ (h = g /\ k \in K)
    /\ nw.phase # "ended" =>
         /\ nw.stopping = w[g].stopping
         /\ nw.out # "none" => nw.out = "failed" /\ nw.at = "broken"
         /\ nw.phase \in {"asking", "answered"} => nw.at = "manifest"
         /\ nw.phase = "busy" => Len(posts') + 3 <= MaxPosts
         /\ nw.phase # "idle" => Len(posts') + 2 <= MaxPosts
         /\ nw.phase = "asking" => "prompt" \in K
    /\ w[g].out = "failed" => nw.out = "failed"
    /\ "completed" \in K => nw.out = "completed"
    /\ "failed" \in K => nw.out = "failed"

\* A worker that has returned.
LEMMA EndsTyped ==
    ASSUME NEW out \in {"none", "completed", "failed", "cancel"}
    PROVE  Ends(out) \in Workers /\ Ends(out).phase = "ended" /\ Ends(out).out = out
<1> DEFINE x == [NoWorker EXCEPT !.phase = "ended"]
           y == [x EXCEPT !.stopping = TRUE]
           z == [y EXCEPT !.out = out]
<1>1. NoWorker \in Workers
  BY IncomingAssumption DEF NoWorker, Workers
<1>2. x \in Workers /\ x.phase = "ended"
  BY <1>1 DEF Workers
<1> HIDE DEF x
<1>3. y \in Workers /\ y.phase = "ended"
  BY <1>2 DEF Workers
<1> HIDE DEF y
<1>4. z \in Workers /\ z.phase = "ended" /\ z.out = out
  BY <1>3 DEF Workers
<1>5. Ends(out) = z
  BY DEF Ends, x, y
<1> QED BY <1>4, <1>5

\* The disk after the last file, with and without its resume state.
LEMMA Emptied ==
    ASSUME disk \in [state : BOOLEAN, staging : BOOLEAN, done : 0..N]
    PROVE  /\ [disk EXCEPT !.done = N] \in
                 [state : BOOLEAN, staging : BOOLEAN, done : 0..N]
           /\ [disk EXCEPT !.done = N, !.state = FALSE] \in
                 [state : BOOLEAN, staging : BOOLEAN, done : 0..N]
<1> DEFINE D == [state : BOOLEAN, staging : BOOLEAN, done : 0..N]
           x == [disk EXCEPT !.done = N]
<1>1. x \in D
  BY IncomingAssumption
<1> HIDE DEF x
<1>2. [x EXCEPT !.state = FALSE] \in D
  BY <1>1
<1> QED BY <1>1, <1>2 DEF x

\* Every step of a worker has such an effect.
LEMMA WorkerEffect ==
    ASSUME Typed, Working, NEW g \in Generations, WorkerStep(g)
    PROVE  \E nw \in Workers, K \in SUBSET Kinds : Effect(g, nw, K)
<1>p. posts \in Seq(Posts)
  BY DEF Typed
<1>t. /\ w \in [Generations -> Workers] /\ w[g] \in Workers
      /\ disk \in [state : BOOLEAN, staging : BOOLEAN, done : 0..N]
      /\ Len(posts) \in Nat
  BY DEF Typed
<1>r. Running(g) =>
        /\ w[g].out # "none" => w[g].out = "failed" /\ w[g].at = "broken"
        /\ w[g].phase \in {"asking", "answered"} => w[g].at = "manifest"
        /\ w[g].phase = "busy" => Len(posts) + 3 <= MaxPosts
        /\ w[g].phase # "idle" => Len(posts) + 2 <= MaxPosts
  BY DEF Working
<1> USE IncomingAssumption DEF Typed, Worker, Working, Running
<1>1. ASSUME TakeFrame(g)
     PROVE  \E nw \in Workers, K \in SUBSET Kinds : Effect(g, nw, K)
  <2> DEFINE nw == [w[g] EXCEPT !.phase = "busy", !.queue = @ - 1]
  <2>1. nw \in Workers
    BY <1>1 DEF TakeFrame, Workers
  <2>2. /\ Running(g) /\ UNCHANGED <<ses, cleanup, join, conn, trusted, up>>
        /\ up /\ disk' = disk /\ posts' = posts
    BY <1>1 DEF TakeFrame
  <2>3. w' = [w EXCEPT ![g] = nw] /\ Len(posts) + 3 <= MaxPosts
    BY <1>1 DEF TakeFrame
  <2> HIDE DEF Typed, Working
  <2>4. /\ nw.phase = "busy" /\ nw.at = w[g].at /\ nw.out = w[g].out
        /\ nw.stopping = w[g].stopping
    BY <1>t DEF Workers
  <2> HIDE DEF nw
  <2>5. Effect(g, nw, {})
    BY <1>p, <1>t, <1>r, <2>2, <2>3, <2>4 DEF Effect
  <2> QED BY <2>1, <2>5
<1>2. ASSUME WorkerStops(g)
     PROVE  \E nw \in Workers, K \in SUBSET Kinds : Effect(g, nw, K)
  <2> DEFINE nw == Ends(w[g].out)
  <2>1. nw \in Workers
    BY <1>2, EndsTyped DEF WorkerStops, Workers
  <2>2. posts' = posts
    BY <1>2 DEF WorkerStops
  <2>3. Effect(g, nw, {})
    BY <1>2, <2>1, <2>2, EndsTyped DEF WorkerStops, Effect
  <2> QED BY <2>1, <2>3
<1>3. ASSUME ManifestDone(g)
     PROVE  \E nw \in Workers, K \in SUBSET Kinds : Effect(g, nw, K)
  <2> DEFINE nw == [w[g] EXCEPT !.phase = "idle", !.at = "manifest"]
  <2>1. nw \in Workers
    BY ONLY <1>t DEF Workers
  <2>2. posts' = posts
    BY <1>3 DEF ManifestDone
  <2>3. Effect(g, nw, {})
    BY <1>3, <2>1, <2>2 DEF ManifestDone, Effect, Workers
  <2> QED BY <2>1, <2>3
<1>4. ASSUME ManifestFails(g)
     PROVE  \E nw \in Workers, K \in SUBSET Kinds : Effect(g, nw, K)
  <2> DEFINE nw == [w[g] EXCEPT !.phase = "idle", !.at = "broken", !.out = "failed"]
  <2>1. nw \in Workers
    BY ONLY <1>t DEF Workers
  <2>2. Post(g, <<"failed">>)
    BY <1>4 DEF ManifestFails
  <2>3. /\ posts' \in Seq(Posts) /\ Len(posts') = Len(posts) + 1
        /\ \A k \in Kinds, h \in Generations :
             Pending(posts', k, h) <=>
               Pending(posts, k, h) \/ (h = g /\ k \in {"failed"})
    BY <2>2, <1>p, PostOne DEF Kinds
  <2>4. /\ Running(g) /\ UNCHANGED <<ses, cleanup, join, conn, trusted, up>> /\ up
        /\ disk' \in [state : BOOLEAN, staging : BOOLEAN, done : 0..N]
    BY <1>4 DEF ManifestFails
  <2>5. /\ w' = [w EXCEPT ![g] = nw]
        /\ w[g].phase # "idle" /\ w[g].at # "broken" /\ w[g].at = "start"
    BY <1>4 DEF ManifestFails
  <2> HIDE DEF Typed, Working
  <2>6. w[g].out = "none" /\ Len(posts) + 2 <= MaxPosts
    BY <1>r, <2>4, <2>5
  <2>7. /\ nw.phase = "idle" /\ nw.at = "broken" /\ nw.out = "failed"
        /\ nw.stopping = w[g].stopping
    BY <1>t, <2>5, <2>6 DEF Workers
  <2> HIDE DEF nw
  <2>8. Effect(g, nw, {"failed"})
    BY <1>t, <2>3, <2>4, <2>5, <2>6, <2>7 DEF Effect
  <2> QED BY <2>1, <2>8 DEF Kinds
<1>5. ASSUME AskForDecision(g)
     PROVE  \E nw \in Workers, K \in SUBSET Kinds : Effect(g, nw, K)
  <2> DEFINE nw == [w[g] EXCEPT !.phase = "asking", !.decision = "none"]
  <2>1. nw \in Workers
    BY ONLY <1>t DEF Workers
  <2>2. Post(g, <<"prompt">>)
    BY <1>5 DEF AskForDecision
  <2>3. /\ posts' \in Seq(Posts) /\ Len(posts') = Len(posts) + 1
        /\ \A k \in Kinds, h \in Generations :
             Pending(posts', k, h) <=>
               Pending(posts, k, h) \/ (h = g /\ k \in {"prompt"})
    BY <2>2, <1>p, PostOne DEF Kinds
  <2>c. w[g].phase = "busy" /\ w[g].at = "manifest"
    BY <1>5 DEF AskForDecision
  <2>e. w' = [w EXCEPT ![g] = nw]
    BY <1>5 DEF AskForDecision
  <2> HIDE DEF Typed, Working
  <2>d. /\ nw.phase = "asking" /\ nw.at = "manifest" /\ nw.out = "none"
        /\ nw.stopping = w[g].stopping /\ Len(posts) + 3 <= MaxPosts
        /\ w[g].out = "none" /\ Len(posts) \in Nat
    BY <1>t, <1>r, <2>c DEF Workers
  <2> HIDE DEF nw
  <2>4. Effect(g, nw, {"prompt"})
    <3>1. /\ Running(g) /\ UNCHANGED <<ses, cleanup, join, conn, trusted, up>>
          /\ up /\ disk' = disk
      BY <1>5 DEF AskForDecision
    <3>2. Len(posts') + 2 <= MaxPosts /\ Len(posts') <= MaxPosts
      BY <2>3, <2>d
    <3>3. disk' \in [state : BOOLEAN, staging : BOOLEAN, done : 0..N]
      BY <1>t, <3>1
    <3> QED BY <2>3, <2>d, <2>e, <3>1, <3>2, <3>3 DEF Effect
  <2> QED BY <2>1, <2>4 DEF Kinds
<1>6. ASSUME TakeDecision(g), w[g].decision = "cancel"
     PROVE  \E nw \in Workers, K \in SUBSET Kinds : Effect(g, nw, K)
  <2> DEFINE nw == Ends("cancel")
  <2>1. nw \in Workers
    BY <1>6, EndsTyped DEF TakeDecision
  <2>2. Post(g, <<"cancel">>)
    BY <1>6 DEF TakeDecision
  <2>3. /\ posts' \in Seq(Posts) /\ Len(posts') = Len(posts) + 1
        /\ \A k \in Kinds, h \in Generations :
             Pending(posts', k, h) <=>
               Pending(posts, k, h) \/ (h = g /\ k \in {"cancel"})
    BY <2>2, <1>p, PostOne DEF Kinds
  <2>4. Effect(g, nw, {"cancel"})
    BY <1>6, <2>1, <2>3, EndsTyped DEF TakeDecision, Effect
  <2> QED BY <2>1, <2>4 DEF Kinds
<1>7. ASSUME TakeDecision(g), w[g].decision # "cancel"
     PROVE  \E nw \in Workers, K \in SUBSET Kinds : Effect(g, nw, K)
  <2> DEFINE nw == [w[g] EXCEPT !.phase = "answered"]
  <2>1. nw \in Workers
    BY ONLY <1>t DEF Workers
  <2>2. posts' = posts
    BY <1>7 DEF TakeDecision
  <2>3. Effect(g, nw, {})
    BY <1>7, <2>1, <2>2 DEF TakeDecision, Effect, Workers
  <2> QED BY <2>1, <2>3
<1>8. ASSUME AskingStops(g)
     PROVE  \E nw \in Workers, K \in SUBSET Kinds : Effect(g, nw, K)
  <2> DEFINE nw == Ends(w[g].out)
  <2>1. nw \in Workers
    BY <1>8, EndsTyped DEF AskingStops, Workers
  <2>2. posts' = posts
    BY <1>8 DEF AskingStops
  <2>3. Effect(g, nw, {})
    BY <1>8, <2>1, <2>2, EndsTyped DEF AskingStops, Effect
  <2> QED BY <2>1, <2>3
<1>9. ASSUME FileBegun(g)
     PROVE  \E nw \in Workers, K \in SUBSET Kinds : Effect(g, nw, K)
  <2> DEFINE nw == [w[g] EXCEPT !.phase = "idle", !.at = "file"]
  <2>1. nw \in Workers
    BY ONLY <1>t DEF Workers
  <2>2. Post(g, <<"progress">>)
    BY <1>9 DEF FileBegun
  <2>3. /\ posts' \in Seq(Posts) /\ Len(posts') = Len(posts) + 1
        /\ \A k \in Kinds, h \in Generations :
             Pending(posts', k, h) <=>
               Pending(posts, k, h) \/ (h = g /\ k \in {"progress"})
    BY <2>2, <1>p, PostOne DEF Kinds
  <2>4. /\ Running(g) /\ UNCHANGED <<ses, cleanup, join, conn, trusted, up>> /\ up
        /\ disk' \in [state : BOOLEAN, staging : BOOLEAN, done : 0..N]
    BY <1>9 DEF FileBegun
  <2>5. /\ w' = [w EXCEPT ![g] = nw]
        /\ w[g].phase # "idle" /\ w[g].at # "broken" /\ w[g].at = "manifest"
    BY <1>9 DEF FileBegun
  <2> HIDE DEF Typed, Working
  <2>6. w[g].out = "none" /\ Len(posts) + 2 <= MaxPosts
    BY <1>r, <2>4, <2>5
  <2>7. /\ nw.phase = "idle" /\ nw.at = "file" /\ nw.out = "none"
        /\ nw.stopping = w[g].stopping
    BY <1>t, <2>5, <2>6 DEF Workers
  <2> HIDE DEF nw
  <2>8. Effect(g, nw, {"progress"})
    BY <1>t, <2>3, <2>4, <2>5, <2>6, <2>7 DEF Effect
  <2> QED BY <2>1, <2>8 DEF Kinds
<1>10. ASSUME ChunkStored(g)
     PROVE  \E nw \in Workers, K \in SUBSET Kinds : Effect(g, nw, K)
  <2> DEFINE nw == [w[g] EXCEPT !.phase = "idle"]
  <2>1. nw \in Workers
    BY ONLY <1>t DEF Workers
  <2>2. Post(g, <<"progress">>)
    BY <1>10 DEF ChunkStored
  <2>3. /\ posts' \in Seq(Posts) /\ Len(posts') = Len(posts) + 1
        /\ \A k \in Kinds, h \in Generations :
             Pending(posts', k, h) <=>
               Pending(posts, k, h) \/ (h = g /\ k \in {"progress"})
    BY <2>2, <1>p, PostOne DEF Kinds
  <2>4. /\ Running(g) /\ UNCHANGED <<ses, cleanup, join, conn, trusted, up>> /\ up
        /\ disk' \in [state : BOOLEAN, staging : BOOLEAN, done : 0..N]
    BY <1>10 DEF ChunkStored
  <2>5. /\ w' = [w EXCEPT ![g] = nw]
        /\ w[g].phase # "idle" /\ w[g].at # "broken" /\ w[g].at = "file"
    BY <1>10 DEF ChunkStored
  <2> HIDE DEF Typed, Working
  <2>6. w[g].out = "none" /\ Len(posts) + 2 <= MaxPosts
    BY <1>r, <2>4, <2>5
  <2>7. /\ nw.phase = "idle" /\ nw.at = "file" /\ nw.out = "none"
        /\ nw.stopping = w[g].stopping
    BY <1>t, <2>5, <2>6 DEF Workers
  <2> HIDE DEF nw
  <2>8. Effect(g, nw, {"progress"})
    BY <1>t, <2>3, <2>4, <2>5, <2>6, <2>7 DEF Effect
  <2> QED BY <2>1, <2>8 DEF Kinds
<1>11. ASSUME FileEnded(g), disk.done + 1 = N
     PROVE  \E nw \in Workers, K \in SUBSET Kinds : Effect(g, nw, K)
  <2> DEFINE nw == Ends("completed")
  <2>1. nw \in Workers
    BY <1>11, EndsTyped DEF FileEnded
  <2>2. Post(g, <<"progress", "completed">>)
    BY <1>11, Emptied DEF FileEnded
  <2>3. /\ posts' \in Seq(Posts) /\ Len(posts') = Len(posts) + 2
        /\ \A k \in Kinds, h \in Generations :
             Pending(posts', k, h) <=>
               Pending(posts, k, h) \/ (h = g /\ k \in {"progress", "completed"})
    BY <2>2, <1>p, PostTwo DEF Kinds
  <2>d. disk' \in [state : BOOLEAN, staging : BOOLEAN, done : 0..N]
    BY <1>11, Emptied DEF FileEnded
  <2>4. Effect(g, nw, {"progress", "completed"})
    BY <1>11, <2>1, <2>3, <2>d, EndsTyped DEF FileEnded, Effect
  <2> QED BY <2>1, <2>4 DEF Kinds
<1>12. ASSUME FileEnded(g), disk.done + 1 # N
     PROVE  \E nw \in Workers, K \in SUBSET Kinds : Effect(g, nw, K)
  <2> DEFINE nw == [w[g] EXCEPT !.phase = "idle", !.at = "manifest"]
  <2>1. nw \in Workers
    BY <1>12 DEF FileEnded, Workers
  <2>2. Post(g, <<"progress">>)
    BY <1>12 DEF FileEnded
  <2>3. /\ posts' \in Seq(Posts) /\ Len(posts') = Len(posts) + 1
        /\ \A k \in Kinds, h \in Generations :
             Pending(posts', k, h) <=>
               Pending(posts, k, h) \/ (h = g /\ k \in {"progress"})
    BY <2>2, <1>p, PostOne DEF Kinds
  <2>d. disk' \in [state : BOOLEAN, staging : BOOLEAN, done : 0..N]
    BY <1>12 DEF FileEnded
  <2>4. Effect(g, nw, {"progress"})
    BY <1>12, <2>1, <2>3, <2>d DEF FileEnded, Effect, Workers
  <2> QED BY <2>1, <2>4 DEF Kinds
<1>13. ASSUME PurgeFails(g)
     PROVE  \E nw \in Workers, K \in SUBSET Kinds : Effect(g, nw, K)
  <2> DEFINE nw == Ends("failed")
  <2>1. nw \in Workers
    BY <1>13, EndsTyped DEF PurgeFails
  <2>2. Post(g, <<"progress", "failed">>)
    BY <1>13, Emptied DEF PurgeFails
  <2>3. /\ posts' \in Seq(Posts) /\ Len(posts') = Len(posts) + 2
        /\ \A k \in Kinds, h \in Generations :
             Pending(posts', k, h) <=>
               Pending(posts, k, h) \/ (h = g /\ k \in {"progress", "failed"})
    BY <2>2, <1>p, PostTwo DEF Kinds
  <2>d. disk' \in [state : BOOLEAN, staging : BOOLEAN, done : 0..N]
    BY <1>13, Emptied DEF PurgeFails
  <2>4. Effect(g, nw, {"progress", "failed"})
    BY <1>13, <2>1, <2>3, <2>d, EndsTyped DEF PurgeFails, Effect
  <2> QED BY <2>1, <2>4 DEF Kinds
<1>14. ASSUME FrameFails(g)
     PROVE  \E nw \in Workers, K \in SUBSET Kinds : Effect(g, nw, K)
  <2> DEFINE nw == Ends("failed")
  <2>1. nw \in Workers
    BY <1>14, EndsTyped DEF FrameFails
  <2>2. Post(g, <<"failed">>)
    BY <1>14 DEF FrameFails
  <2>3. /\ posts' \in Seq(Posts) /\ Len(posts') = Len(posts) + 1
        /\ \A k \in Kinds, h \in Generations :
             Pending(posts', k, h) <=>
               Pending(posts, k, h) \/ (h = g /\ k \in {"failed"})
    BY <2>2, <1>p, PostOne DEF Kinds
  <2>4. Effect(g, nw, {"failed"})
    BY <1>14, <2>1, <2>3, EndsTyped DEF FrameFails, Effect
  <2> QED BY <2>1, <2>4 DEF Kinds
<1> QED BY <1>1, <1>2, <1>3, <1>4, <1>5, <1>6, <1>7,
           <1>8, <1>9, <1>10, <1>11, <1>12, <1>13, <1>14 DEF WorkerStep

-----------------------------------------------------------------------------
\* Ownership makes the writer unique: the three owners exclude each other.
LEMMA OwnershipImpliesOneWriter ==
    ASSUME IInv
    PROVE  OneWriter
BY DEF IInv, Owned, Phases, Typed, Sessions, Cleanups, OneWriter, Active,
       Terminal, None, Generations

\* A step of a worker keeps the invariant.
LEMMA WorkerKeeps ==
    ASSUME IInv, NEW g \in Generations, WorkerStep(g)
    PROVE  IInv'
<1>1. PICK nw \in Workers, K \in SUBSET Kinds : Effect(g, nw, K)
  BY WorkerEffect DEF IInv
<1>2. /\ Running(g) /\ \A h \in Generations : Running(h) => h = g
      /\ g < ses.gen \/ g = ses.pipe
      /\ cleanup.phase # "ok" /\ ses.snap # "Cancelled"
  <2>1. Running(g)
    BY <1>1 DEF Effect
  <2>2. \A h \in Generations : Running(h) => h = g
    BY <2>1, OwnershipImpliesOneWriter DEF OneWriter
  <2>3. g < ses.gen \/ g = ses.pipe
    BY <2>1 DEF IInv, Owned, Phases, Dated, Typed, Generations, None
  <2>4. cleanup.phase # "ok" /\ ses.snap # "Cancelled"
    BY <2>1 DEF IInv, Owned, Phases, Typed, Active, Generations, None
  <2> QED BY <2>1, <2>2, <2>3, <2>4
<1>3. /\ w'[g] = nw /\ \A h \in Generations : h # g => w'[h] = w[h]
      /\ w' \in [Generations -> Workers]
  BY <1>1 DEF Effect, IInv, Typed
<1>4. /\ ses' = ses /\ cleanup' = cleanup /\ join' = join /\ up' = up /\ up
      /\ conn' = conn /\ trusted' = trusted
  BY <1>1 DEF Effect
<1>5. \A h \in Generations : Running(h)' => h = g /\ nw.phase # "ended"
  BY <1>2, <1>3 DEF Running
<1>6. \A k \in Kinds, h \in Generations :
        Pending(posts', k, h) => Pending(posts, k, h) \/ (h = g /\ k \in K)
  BY <1>1 DEF Effect
<1>7. Typed'
  BY <1>1, <1>3, <1>4 DEF Effect, IInv, Typed
<1>8. Working'
  BY <1>1, <1>3, <1>5 DEF Effect, Working
<1>9. Owned'
  BY <1>1, <1>2, <1>3, <1>4, <1>5 DEF Effect, IInv, Owned
<1>10. Phases'
  BY <1>4 DEF IInv, Phases, Active
<1>11. Dated'
  BY <1>2, <1>4, <1>6 DEF IInv, Dated
<1>12. Truthful'
  <2>1. w[g].out # "completed"
    BY <1>2 DEF IInv, Working
  <2> QED BY <1>1, <1>3, <1>6, <2>1 DEF Effect, IInv, Truthful, Kinds
<1>13. Swept' /\ CancelledLeavesNothing'
  BY <1>2, <1>4 DEF Swept, CancelledLeavesNothing
<1>14. EndedByItsOwnWorker'
  <2>1. w[g].out # "completed"
    BY <1>2 DEF IInv, Working
  <2>2. w[g].out = "failed" => nw.out = "failed"
    BY <1>1 DEF Effect
  <2> QED BY <1>3, <1>4, <2>1, <2>2 DEF IInv, EndedByItsOwnWorker, Typed, Sessions
<1>15. Asked'
  <2> SUFFICES ASSUME NEW h \in Generations,
                      w'[h].phase = "asking", ~w'[h].stopping
               PROVE  \/ w'[h].decision # "none"
                      \/ ses'.prompt = h /\ ses'.pipe = h
                      \/ Pending(posts', "prompt", h)
    BY DEF Asked
  <2>1. h = g
    BY <1>5 DEF Running
  <2>2. "prompt" \in K
    BY <1>1, <1>3, <2>1 DEF Effect
  <2> QED BY <1>1, <2>1, <2>2 DEF Effect, Kinds
<1> QED BY <1>7, <1>8, <1>9, <1>10, <1>11, <1>12, <1>13, <1>14, <1>15 DEF IInv

-----------------------------------------------------------------------------
(* The owner thread.                                                        *)

\* requestStop changes one worker only.
LEMMA StopEffect ==
    ASSUME w \in [Generations -> Workers], NEW p \in Generations,
           w' = [w EXCEPT ![p].stopping = TRUE, ![p].queue = 0]
    PROVE  /\ w' \in [Generations -> Workers]
           /\ w'[p].stopping
           /\ \A h \in Generations :
                /\ w'[h].phase = w[h].phase /\ w'[h].at = w[h].at
                /\ w'[h].out = w[h].out /\ w'[h].decision = w[h].decision
                /\ h # p => w'[h] = w[h]
<1> DEFINE x == [w[p] EXCEPT !.stopping = TRUE]
           y == [x EXCEPT !.queue = 0]
<1>1. x \in Workers /\ x.stopping /\ x.phase = w[p].phase /\ x.at = w[p].at
      /\ x.out = w[p].out /\ x.decision = w[p].decision
  BY DEF Workers
<1>2. w' = [w EXCEPT ![p] = y]
  OBVIOUS
<1> HIDE DEF x
<1>3. y \in Workers /\ y.stopping /\ y.phase = w[p].phase /\ y.at = w[p].at
      /\ y.out = w[p].out /\ y.decision = w[p].decision
  BY <1>1, IncomingAssumption DEF Workers
<1> HIDE DEF y
<1> QED BY <1>2, <1>3

\* A new pipeline changes one worker only.
LEMMA StartEffect ==
    ASSUME w \in [Generations -> Workers], NEW p \in Generations,
           w' = [w EXCEPT ![p] = NewWorker]
    PROVE  /\ w' \in [Generations -> Workers]
           /\ w'[p].phase = "idle" /\ w'[p].out = "none" /\ ~w'[p].stopping
           /\ \A h \in Generations : h # p => w'[h] = w[h]
<1>0. NoWorker \in Workers /\ NoWorker.out = "none" /\ ~NoWorker.stopping
  BY IncomingAssumption DEF NoWorker, Workers
<1>1. /\ NewWorker \in Workers /\ NewWorker.phase = "idle"
      /\ NewWorker.out = "none" /\ ~NewWorker.stopping
  BY <1>0 DEF NewWorker, Workers
<1> QED BY <1>1


\* A new pipeline (accept, resume query) is the only one, and starts a
\* generation of which no callback is pending.
LEMMA StartKeeps ==
    ASSUME IInv, up, join = None, ses.pipe = None, cleanup.phase = "none",
           w' = [w EXCEPT ![ses.gen] = NewWorker],
           ses' \in Sessions, ses'.pipe = ses.gen, ses'.gen = ses.gen,
           Active(ses)', ses'.offer # "awaiting", ~ses'.preflight,
           UNCHANGED <<posts, cleanup, join, disk, conn, trusted, up>>
    PROVE  IInv'
<1> USE DEF None, Generations
<1>1. /\ w' \in [Generations -> Workers]
      /\ w'[ses.gen].phase = "idle" /\ w'[ses.gen].out = "none"
      /\ ~w'[ses.gen].stopping
      /\ \A h \in Generations : h # ses.gen => w'[h] = w[h]
  BY StartEffect DEF IInv, Typed, Sessions
<1>2. \A h \in Generations : ~Running(h)
  BY DEF IInv, Owned
<1>3. \A h \in Generations : Running(h)' => h = ses.gen
  BY <1>1, <1>2 DEF Running
<1>4. \A k \in Kinds : ~Pending(posts, k, ses.gen)
  BY DEF IInv, Dated, Typed, Sessions
<1>5. Typed' /\ Working'
  BY <1>1, <1>3 DEF IInv, Typed, Working
<1>6. Owned' /\ Phases' /\ Swept' /\ CancelledLeavesNothing'
  BY <1>3 DEF IInv, Owned, Phases, Swept, CancelledLeavesNothing, Active
<1>7. Dated'
  BY DEF IInv, Dated
<1>8. Truthful'
  BY <1>1, <1>4 DEF IInv, Truthful, Kinds
<1>9. EndedByItsOwnWorker'
  BY DEF EndedByItsOwnWorker, Active
<1>10. Asked'
  BY <1>1, <1>3 DEF Asked, Running
<1> QED BY <1>5, <1>6, <1>7, <1>8, <1>9, <1>10 DEF IInv

\* The session lets go of its pipeline: to the task of a cancel, or to the
\* destructor that waits for it.
LEMMA StopKeeps ==
    ASSUME IInv, up, join = None, ses.pipe # None,
           w' = [w EXCEPT ![ses.pipe].stopping = TRUE, ![ses.pipe].queue = 0],
           ses' \in Sessions, ses'.pipe = None, ses'.gen = ses.gen + 1,
           ses'.offer = ses.offer, ses'.preflight = ses.preflight,
           \/ /\ join' = ses.pipe /\ cleanup' = cleanup
              /\ Active(ses) /\ ses'.snap = ses.snap
           \/ /\ join' = join /\ ses'.snap = "Cancelling"
              /\ cleanup' \in Cleanups /\ cleanup'.phase = "waiting"
              /\ cleanup'.of = ses.pipe /\ cleanup'.gen = ses.gen + 1,
           posts' \in Seq(Posts), Len(posts') <= Len(posts),
           \A k \in Kinds, h \in Generations :
             Pending(posts', k, h) => Pending(posts, k, h),
           conn' \in BOOLEAN, UNCHANGED <<disk, trusted, up>>
    PROVE  IInv'
<1> USE DEF None, Generations
<1>0. ses.pipe \in Generations /\ ses.pipe = ses.gen /\ ses.offer # "awaiting"
      /\ ~ses.preflight /\ cleanup.phase = "none"
  BY DEF IInv, Typed, Sessions, Dated, Phases, Active
<1>1. /\ w' \in [Generations -> Workers] /\ w'[ses.pipe].stopping
      /\ \A h \in Generations :
           /\ w'[h].phase = w[h].phase /\ w'[h].at = w[h].at
           /\ w'[h].out = w[h].out /\ w'[h].decision = w[h].decision
           /\ h # ses.pipe => w'[h] = w[h]
  BY <1>0, StopEffect DEF IInv, Typed
<1>2. \A h \in Generations : Running(h) => h = ses.pipe
  BY <1>0 DEF IInv, Owned
<1>3. \A h \in Generations : Running(h)' => h = ses.pipe
  BY <1>1, <1>2 DEF Running
<1>4. Typed' /\ Working'
  <2>1. Len(posts') \in Nat /\ Len(posts) \in Nat
    BY DEF IInv, Typed
  <2>2. Typed'
    BY <1>0, <1>1, <2>1, IncomingAssumption DEF IInv, Typed
  <2>3. ASSUME NEW h \in Generations, Running(h)' PROVE Running(h)
    BY <1>1, <2>3 DEF Running
  <2>4. ASSUME NEW h \in Generations, Running(h)
        PROVE  /\ w[h].out # "none" => w[h].out = "failed" /\ w[h].at = "broken"
               /\ w[h].phase \in {"asking", "answered"} => w[h].at = "manifest"
               /\ w[h].phase = "busy" => Len(posts) + 3 <= MaxPosts
               /\ w[h].phase # "idle" => Len(posts) + 2 <= MaxPosts
    BY <2>4 DEF IInv, Working
  <2>5. MaxPosts \in Int /\ Len(posts') <= Len(posts)
    BY IncomingAssumption
  <2>6. ASSUME NEW h \in Generations, Running(h)'
        PROVE  /\ w'[h].out # "none" => w'[h].out = "failed" /\ w'[h].at = "broken"
               /\ w'[h].phase \in {"asking", "answered"} => w'[h].at = "manifest"
               /\ w'[h].phase = "busy" => Len(posts') + 3 <= MaxPosts
               /\ w'[h].phase # "idle" => Len(posts') + 2 <= MaxPosts
    <3>1. /\ w'[h].phase = w[h].phase /\ w'[h].at = w[h].at
          /\ w'[h].out = w[h].out /\ Running(h)
      BY <1>1, <2>3, <2>6
    <3> HIDE <1>1
    <3> QED BY <2>1, <2>4, <2>5, <3>1
  <2>7. Working'
    BY <2>6 DEF Working
  <2> QED BY <2>2, <2>7
<1>5. Owned' /\ Phases'
  BY <1>0, <1>1, <1>3 DEF IInv, Owned, Phases, Active
<1>6. Swept' /\ CancelledLeavesNothing' /\ EndedByItsOwnWorker'
  BY <1>0 DEF Swept, CancelledLeavesNothing, EndedByItsOwnWorker, Active
<1>7. Dated'
  <2>0. \A k \in Kinds, g \in Generations : Pending(posts, k, g) => g < ses.gen + 1
    <3>1. \A k \in Kinds, g \in Generations :
            Pending(posts, k, g) => g < ses.gen \/ g = ses.gen
      BY <1>0 DEF IInv, Dated
    <3>2. ses.gen \in Int
      BY DEF IInv, Typed, Sessions
    <3> QED BY <3>1, <3>2
  <2>1. \A k \in Kinds, g \in Generations : Pending(posts', k, g) => g < ses.gen + 1
    BY <2>0
  <2> QED BY <1>0, <2>1 DEF Dated
<1>8. Truthful'
  BY <1>1 DEF IInv, Truthful, Kinds
<1>9. Asked'
  BY <1>1, <1>3 DEF Asked, Running
<1> QED BY <1>4, <1>5, <1>6, <1>7, <1>8, <1>9 DEF IInv

\* Actions that neither start nor stop a worker.
LEMMA SessionKeeps ==
    ASSUME IInv, up, join = None,
           UNCHANGED <<posts, cleanup, join, disk, up>>,
           w' \in [Generations -> Workers],
           \A h \in Generations :
             /\ w'[h].phase = w[h].phase /\ w'[h].at = w[h].at
             /\ w'[h].out = w[h].out /\ w'[h].stopping = w[h].stopping
             /\ w[h].decision # "none" => w'[h].decision # "none",
           conn' \in BOOLEAN, trusted' \in BOOLEAN,
           ses' \in Sessions, ses'.pipe = ses.pipe, ses'.gen = ses.gen,
           \/ ses'.snap = ses.snap /\ (ses.pipe # None => ses'.offer = ses.offer)
              /\ (ses'.offer = "awaiting" => ses.offer = "awaiting")
              /\ (ses'.preflight => ses'.offer = "awaiting")
           \/ /\ Active(ses) /\ Active(ses)'
              /\ ses'.offer = ses.offer /\ ses'.preflight = ses.preflight,
           \/ ses'.prompt = ses.prompt \/ ses.pipe = None \/ ~Active(ses)
           \/ /\ w[ses.pipe].phase = "asking" /\ ~w[ses.pipe].stopping
              => w'[ses.pipe].decision # "none"
    PROVE  IInv'
<1>1. Typed' /\ Working'
  BY DEF IInv, Typed, Working, Running
<1>2. Owned'
  BY DEF IInv, Owned, Running
<1>3. Phases'
  BY DEF IInv, Phases, Active
<1>4. Dated' /\ Truthful' /\ Swept'
  BY DEF IInv, Dated, Truthful, Swept
<1>5. EndedByItsOwnWorker' /\ CancelledLeavesNothing'
  BY DEF IInv, EndedByItsOwnWorker, CancelledLeavesNothing, Active, Typed, Sessions
<1>6. Asked'
  <2> SUFFICES ASSUME NEW g \in Generations, w[g].phase = "asking", ~w[g].stopping,
                      w'[g].decision = "none", ~Pending(posts, "prompt", g)
               PROVE  ses'.prompt = g /\ ses'.pipe = g
    BY DEF Asked
  <2>1. ses.prompt = g /\ ses.pipe = g /\ g # None
    BY DEF IInv, Asked, Generations, None
  <2>2. w[g].out = "none"
    BY DEF IInv, Working, Running
  <2>3. Active(ses)
    BY <2>1, <2>2 DEF IInv, Phases, EndedByItsOwnWorker
  <2> QED BY <2>1, <2>3
<1> QED BY <1>1, <1>2, <1>3, <1>4, <1>5, <1>6 DEF IInv

\* A cancel, from whatever source.
LEMMA CancelKeeps ==
    ASSUME IInv, NEW keep \in BOOLEAN, CancelPipeline(keep), ses.pipe # None,
           up, join = None, UNCHANGED <<join, conn, disk, trusted, up>>,
           posts' \in Seq(Posts), Len(posts') <= Len(posts),
           \A k \in Kinds, h \in Generations :
             Pending(posts', k, h) => Pending(posts, k, h)
    PROVE  IInv'
<1> DEFINE x == [ses EXCEPT !.pipe = None, !.prompt = None]
           y == [x EXCEPT !.gen = @ + 1, !.snap = "Cancelling"]
<1>1. x \in Sessions /\ x.pipe = None /\ x.gen = ses.gen /\ x.offer = ses.offer
      /\ x.preflight = ses.preflight
  BY DEF IInv, Typed, Sessions
<1>2. ses' = y
  BY DEF CancelPipeline
<1>3. ses.gen + 1 \in Generations
  BY IncomingAssumption DEF CancelPipeline, IInv, Typed, Sessions, Generations
<1> HIDE DEF x
<1>4. /\ ses' \in Sessions /\ ses'.pipe = None /\ ses'.gen = ses.gen + 1
      /\ ses'.offer = ses.offer /\ ses'.preflight = ses.preflight
      /\ ses'.snap = "Cancelling"
  BY <1>1, <1>2, <1>3 DEF Sessions
<1>5. /\ cleanup' \in Cleanups /\ cleanup'.phase = "waiting"
      /\ cleanup'.of = ses.pipe /\ cleanup'.gen = ses.gen + 1
  BY <1>3 DEF CancelPipeline, Cleanups, IInv, Typed, Sessions
<1>6. w' = [w EXCEPT ![ses.pipe].stopping = TRUE, ![ses.pipe].queue = 0]
  BY DEF CancelPipeline
<1>7. conn' \in BOOLEAN
  BY DEF IInv, Typed
<1> QED BY <1>4, <1>5, <1>6, <1>7, StopKeeps

\* The loss of the peer.
LEMMA PeerDisconnectedKeeps ==
    ASSUME IInv, PeerDisconnected
    PROVE  IInv'
<1>0. up /\ join = None /\ conn' = FALSE /\ posts' = posts /\ cleanup' = cleanup
      /\ UNCHANGED <<disk, trusted, up>>
  BY DEF PeerDisconnected, Owner, Quiet
<1>1. CASE ses.pipe # None /\ Active(ses)
  <2> DEFINE x == [ses EXCEPT !.prompt = None, !.gen = @ + 1]
             y == [x EXCEPT !.pipe = None, !.replay = FALSE]
  <2>1. ses.gen + 1 \in Generations
    BY <1>1, IncomingAssumption
    DEF PeerDisconnected, IInv, Typed, Sessions, Generations
  <2>2. x \in Sessions /\ x.gen = ses.gen + 1 /\ x.offer = ses.offer
        /\ x.preflight = ses.preflight /\ x.snap = ses.snap
    BY <2>1 DEF IInv, Typed, Sessions
  <2>3. ses' = y
    BY <1>1 DEF PeerDisconnected
  <2> HIDE DEF x
  <2>4. /\ ses' \in Sessions /\ ses'.pipe = None /\ ses'.gen = ses.gen + 1
        /\ ses'.offer = ses.offer /\ ses'.preflight = ses.preflight
        /\ ses'.snap = ses.snap
    BY <2>2, <2>3 DEF Sessions
  <2>5. /\ w' = [w EXCEPT ![ses.pipe].stopping = TRUE, ![ses.pipe].queue = 0]
        /\ join' = ses.pipe
    BY <1>1 DEF PeerDisconnected
  <2>6. posts \in Seq(Posts) /\ Len(posts) \in Nat
    BY DEF IInv, Typed
  <2>7. /\ posts' \in Seq(Posts) /\ Len(posts') <= Len(posts)
        /\ \A k \in Kinds, h \in Generations :
             Pending(posts', k, h) => Pending(posts, k, h)
    BY <1>0, <2>6
  <2>8. conn' \in BOOLEAN
    BY <1>0
  <2> QED BY <1>0, <1>1, <2>4, <2>5, <2>7, <2>8, StopKeeps
<1>2. CASE ~(ses.pipe # None /\ Active(ses))
  <2>1. ses' = [ses EXCEPT !.prompt = None] /\ UNCHANGED <<w, join>>
    BY <1>2 DEF PeerDisconnected
  <2>2. /\ ses' \in Sessions /\ ses'.pipe = ses.pipe /\ ses'.gen = ses.gen
        /\ ses'.snap = ses.snap /\ ses'.offer = ses.offer
        /\ ses'.preflight = ses.preflight
    BY <2>1 DEF IInv, Typed, Sessions
  <2>3. trusted' \in BOOLEAN /\ conn' \in BOOLEAN /\ w \in [Generations -> Workers]
    BY <1>0 DEF IInv, Typed
  <2>4. ses.preflight => ses.offer = "awaiting"
    BY DEF IInv, Phases
  <2> QED BY <1>0, <1>2, <2>1, <2>2, <2>3, <2>4, SessionKeeps
<1> QED BY <1>1, <1>2

\* One field of one worker.
LEMMA FieldEffect ==
    ASSUME w \in [Generations -> Workers], NEW p \in Generations,
           NEW x \in Workers, w' = [w EXCEPT ![p] = x],
           x.phase = w[p].phase, x.at = w[p].at, x.out = w[p].out,
           x.stopping = w[p].stopping,
           w[p].decision # "none" => x.decision # "none"
    PROVE  /\ w' \in [Generations -> Workers] /\ w'[p] = x
           /\ \A h \in Generations :
                /\ w'[h].phase = w[h].phase /\ w'[h].at = w[h].at
                /\ w'[h].out = w[h].out /\ w'[h].stopping = w[h].stopping
                /\ w[h].decision # "none" => w'[h].decision # "none"
OBVIOUS

\* The offer: accept, its preflight, reject.
LEMMA OfferKeeps ==
    ASSUME IInv, NEW b \in BOOLEAN,
           Accept \/ FinishAcceptPreflight(b) \/ Reject
    PROVE  IInv'
<1>0. /\ up /\ join = None /\ UNCHANGED <<posts, cleanup, join, conn>>
      /\ UNCHANGED <<disk, trusted, up>> /\ conn' \in BOOLEAN /\ trusted' \in BOOLEAN
  BY DEF Accept, FinishAcceptPreflight, Reject, Owner, Quiet, IInv, Typed
<1>1. /\ ses.offer = "awaiting" /\ ses.pipe = None /\ cleanup.phase = "none"
      /\ ses.gen \in Generations
  BY DEF Accept, FinishAcceptPreflight, Reject, IInv, Typed, Sessions, Phases, Active
<1>2. CASE FinishAcceptPreflight(b) /\ trusted /\ b
  <2> DEFINE x == [ses EXCEPT !.preflight = FALSE, !.offer = "accepted"]
             y == [x EXCEPT !.snap = "Queued", !.pipe = ses.gen]
  <2>1. x \in Sessions /\ x.gen = ses.gen /\ x.offer = "accepted" /\ ~x.preflight
    BY DEF IInv, Typed, Sessions
  <2>2. ses' = y /\ w' = [w EXCEPT ![ses.gen] = NewWorker]
    BY <1>2 DEF FinishAcceptPreflight
  <2> HIDE DEF x
  <2>3. /\ ses' \in Sessions /\ ses'.pipe = ses.gen /\ ses'.gen = ses.gen
        /\ Active(ses)' /\ ses'.offer # "awaiting" /\ ~ses'.preflight
    BY <1>1, <2>1, <2>2 DEF Sessions, Active
  <2> QED BY <1>0, <1>1, <2>2, <2>3, StartKeeps
<1>3. CASE ~(FinishAcceptPreflight(b) /\ trusted /\ b)
  <2>1. /\ w' = w
        /\ \/ ses' = [ses EXCEPT !.preflight = TRUE]
           \/ ses' = [ses EXCEPT !.preflight = FALSE]
           \/ ses' = [ses EXCEPT !.offer = "rejected"] /\ ~ses.preflight
    BY <1>3 DEF Accept, FinishAcceptPreflight, Reject
  <2>2. /\ ses' \in Sessions /\ ses'.pipe = ses.pipe /\ ses'.gen = ses.gen
        /\ ses'.snap = ses.snap /\ ses'.prompt = ses.prompt
    BY <2>1 DEF IInv, Typed, Sessions
  <2>3. /\ ses'.offer = "awaiting" => ses.offer = "awaiting"
        /\ ses'.preflight => ses'.offer = "awaiting"
    BY <1>1, <2>1 DEF IInv, Typed, Sessions
  <2>4. w \in [Generations -> Workers]
    BY DEF IInv, Typed
  <2> QED BY <1>0, <1>1, <2>1, <2>2, <2>3, <2>4, SessionKeeps
<1> QED BY <1>2, <1>3

\* A frame, a pause, a resume, an answer to a prompt.
LEMMA CommandKeeps ==
    ASSUME IInv, NEW d \in {"go", "cancel"},
           EnqueueFrame \/ Pause \/ Resume \/ ResolveConflict(d)
    PROVE  IInv'
<1>0. /\ up /\ join = None /\ UNCHANGED <<posts, cleanup, join, conn>>
      /\ UNCHANGED <<disk, trusted, up>> /\ conn' \in BOOLEAN /\ trusted' \in BOOLEAN
  BY DEF EnqueueFrame, Pause, Resume, ResolveConflict, Owner, Quiet, IInv, Typed
<1>1. ses.pipe \in Generations /\ w[ses.pipe] \in Workers
      /\ w \in [Generations -> Workers] /\ ses \in Sessions
      /\ (ses.preflight => ses.offer = "awaiting")
  BY DEF EnqueueFrame, Pause, Resume, ResolveConflict, IInv, Typed, Sessions, Phases
<1>2. CASE EnqueueFrame
  <2> DEFINE x == [w[ses.pipe] EXCEPT !.queue = @ + 1]
  <2>1. x \in Workers /\ x.phase = w[ses.pipe].phase /\ x.at = w[ses.pipe].at
        /\ x.out = w[ses.pipe].out /\ x.stopping = w[ses.pipe].stopping
        /\ x.decision = w[ses.pipe].decision
    BY <1>1, <1>2, IncomingAssumption DEF EnqueueFrame, Workers
  <2>2. w' = [w EXCEPT ![ses.pipe] = x] /\ ses' = ses
    BY <1>2 DEF EnqueueFrame
  <2> HIDE DEF x
  <2> QED BY <1>0, <1>1, <2>1, <2>2, FieldEffect, SessionKeeps
<1>3. ASSUME NEW v \in BOOLEAN, NEW st \in {"Paused", "Transferring"}, Active(ses),
             w' = [w EXCEPT ![ses.pipe].paused = v], ses' = [ses EXCEPT !.snap = st]
      PROVE  IInv'
  <2> DEFINE x == [w[ses.pipe] EXCEPT !.paused = v]
  <2>1. x \in Workers /\ x.phase = w[ses.pipe].phase /\ x.at = w[ses.pipe].at
        /\ x.out = w[ses.pipe].out /\ x.stopping = w[ses.pipe].stopping
        /\ x.decision = w[ses.pipe].decision
    BY <1>1 DEF Workers
  <2>2. w' = [w EXCEPT ![ses.pipe] = x]
    BY <1>3
  <2>3. ses' \in Sessions /\ ses'.pipe = ses.pipe /\ ses'.gen = ses.gen
        /\ ses'.offer = ses.offer /\ ses'.preflight = ses.preflight
        /\ ses'.prompt = ses.prompt /\ Active(ses)'
    BY <1>1, <1>3 DEF Sessions, Active
  <2> HIDE DEF x
  <2> QED BY <1>0, <1>1, <1>3, <2>1, <2>2, <2>3, FieldEffect, SessionKeeps
<1>4. CASE Pause
  BY <1>3, <1>4 DEF Pause, Active
<1>5. CASE Resume
  BY <1>3, <1>5 DEF Resume, Active
<1>6. CASE ResolveConflict(d)
  <2> DEFINE x == [w[ses.pipe] EXCEPT !.decision =
                    IF w[ses.pipe].phase = "asking" /\ ~w[ses.pipe].stopping
                    THEN d ELSE @]
  <2>1. x \in Workers /\ x.phase = w[ses.pipe].phase /\ x.at = w[ses.pipe].at
        /\ x.out = w[ses.pipe].out /\ x.stopping = w[ses.pipe].stopping
        /\ (w[ses.pipe].decision # "none" => x.decision # "none")
        /\ (w[ses.pipe].phase = "asking" /\ ~w[ses.pipe].stopping
              => x.decision # "none")
    BY <1>1 DEF Workers
  <2>2. w' = [w EXCEPT ![ses.pipe] = x] /\ ses' = [ses EXCEPT !.prompt = None]
    BY <1>6 DEF ResolveConflict
  <2>3. ses' \in Sessions /\ ses'.pipe = ses.pipe /\ ses'.gen = ses.gen
        /\ ses'.offer = ses.offer /\ ses'.preflight = ses.preflight
        /\ ses'.snap = ses.snap
    BY <1>1, <2>2 DEF Sessions
  <2> HIDE DEF x
  <2> QED BY <1>0, <1>1, <2>1, <2>2, <2>3, FieldEffect, SessionKeeps
<1> QED BY <1>2, <1>4, <1>5, <1>6

\* The oldest callback is delivered, or dropped as out of date.
LEMMA DeliverKeeps ==
    ASSUME IInv, Deliver
    PROVE  IInv'
<1> DEFINE p == Head(posts)
<1>0. /\ up /\ join = None /\ UNCHANGED <<w, cleanup, join, conn>>
      /\ UNCHANGED <<disk, trusted, up>>
      /\ posts # <<>> /\ posts' = Tail(posts) /\ p.kind # "cancel"
      /\ ses' = AfterCallback(p)
  BY DEF Deliver, Owner, Quiet
<1>1. posts \in Seq(Posts) /\ Len(posts) \in Nat /\ Len(posts) <= MaxPosts
      /\ ses \in Sessions /\ MaxPosts \in Nat
  BY IncomingAssumption DEF IInv, Typed
<1>2. /\ p \in Posts /\ posts' \in Seq(Posts) /\ Len(posts') = Len(posts) - 1
      /\ \A k \in Kinds, h \in Generations :
           Pending(posts, k, h) <=>
             Pending(posts', k, h) \/ p = [kind |-> k, gen |-> h]
  BY <1>0, <1>1, TailEffect
<1> HIDE DEF p
<1>3. /\ p.kind \in {"progress", "completed", "failed", "prompt"}
      /\ p.gen \in Generations /\ Pending(posts, p.kind, p.gen)
  BY <1>0, <1>2 DEF Posts, Kinds
<1>4. /\ ses' \in Sessions /\ ses'.pipe = ses.pipe /\ ses'.gen = ses.gen
      /\ ses'.offer = ses.offer /\ ses'.preflight = ses.preflight
      /\ \/ ses'.snap = ses.snap
         \/ Active(ses) /\ Active(ses)'
         \/ /\ Active(ses) /\ p.gen = ses.gen /\ ses'.snap = "Completed"
            /\ p.kind = "completed"
         \/ /\ Active(ses) /\ p.gen = ses.gen /\ ses'.snap = "Failed"
            /\ p.kind = "failed"
      /\ ses'.prompt = IF p.kind = "prompt" /\ p.gen = ses.gen /\ Active(ses)
                       THEN p.gen ELSE ses.prompt
  <2>1. CASE p.gen # ses.gen \/ ~Active(ses)
    <3>1. ses' = ses
      BY <1>0, <2>1 DEF AfterCallback
    <3> QED BY <1>1, <2>1, <3>1
  <2>2. CASE p.gen = ses.gen /\ Active(ses)
    <3>1. CASE p.kind = "progress"
      <4>1. ses' = ses \/ ses' = [ses EXCEPT !.snap = "Transferring"]
        BY <1>0, <2>2, <3>1 DEF AfterCallback
      <4> QED BY <1>1, <2>2, <3>1, <4>1 DEF Sessions, Active
    <3>2. CASE p.kind = "completed"
      <4>1. ses' = [ses EXCEPT !.snap = "Completed"]
        BY <1>0, <2>2, <3>2 DEF AfterCallback
      <4> QED BY <1>1, <2>2, <3>2, <4>1 DEF Sessions, Terminal
    <3>3. CASE p.kind = "failed"
      <4>1. ses' = [ses EXCEPT !.snap = "Failed"]
        BY <1>0, <2>2, <3>3 DEF AfterCallback
      <4> QED BY <1>1, <2>2, <3>3, <4>1 DEF Sessions, Terminal
    <3>4. CASE p.kind = "prompt"
      <4>1. ses' = [ses EXCEPT !.prompt = p.gen]
        BY <1>0, <2>2, <3>4 DEF AfterCallback
      <4> QED BY <1>1, <1>3, <2>2, <3>4, <4>1 DEF Sessions
    <3> QED BY <1>3, <3>1, <3>2, <3>3, <3>4
  <2> QED BY <2>1, <2>2
<1>5. p.gen = ses.gen => ses.pipe = p.gen
  BY <1>1, <1>3 DEF IInv, Dated, Kinds, Generations, Sessions
<1>6. Typed'
  BY <1>0, <1>1, <1>2, <1>4 DEF IInv, Typed
<1>7. Working' /\ Owned'
  BY <1>0, <1>1, <1>2, <1>4, IncomingAssumption DEF IInv, Working, Owned, Running
<1>8. Phases'
  BY <1>0, <1>4, <1>5 DEF IInv, Phases, Active
<1>9. Dated' /\ Truthful' /\ Swept' /\ CancelledLeavesNothing'
  BY <1>0, <1>2, <1>4
  DEF IInv, Dated, Truthful, Swept, CancelledLeavesNothing, Active, Kinds
<1>10. EndedByItsOwnWorker'
  <2>1. /\ p.kind = "completed" => w[p.gen].out = "completed"
        /\ p.kind = "failed" => w[p.gen].out = "failed"
    BY <1>3 DEF IInv, Truthful
  <2> QED BY <1>0, <1>4, <1>5, <2>1 DEF IInv, EndedByItsOwnWorker, Active
<1>11. Asked'
  <2> SUFFICES ASSUME NEW g \in Generations, w[g].phase = "asking", ~w[g].stopping,
                      w[g].decision = "none", ~Pending(posts', "prompt", g)
               PROVE  ses'.prompt = g /\ ses'.pipe = g
    BY <1>0 DEF Asked
  <2>1. g # None /\ g = ses.pipe /\ ses.pipe = ses.gen
    BY DEF IInv, Owned, Running, Dated, Generations, None
  <2>2. Active(ses)
    <3>1. w[g].out = "none"
      BY DEF IInv, Working, Running
    <3> QED BY <2>1, <3>1 DEF IInv, Phases, EndedByItsOwnWorker
  <2>3. CASE ses.prompt = g
    BY <1>4, <2>1, <2>3
  <2>4. CASE Pending(posts, "prompt", g)
    <3>1. p = [kind |-> "prompt", gen |-> g]
      BY <1>2, <2>4 DEF Kinds
    <3> QED BY <1>4, <2>1, <2>2, <3>1
  <2> QED BY <2>3, <2>4 DEF IInv, Asked
<1> QED BY <1>6, <1>7, <1>8, <1>9, <1>10, <1>11 DEF IInv

\* The answer "cancel" of a prompt, which may find the channel gone.
LEMMA DeliverCancelRequestKeeps ==
    ASSUME IInv, NEW sent \in BOOLEAN, DeliverCancelRequest(sent)
    PROVE  IInv'
<1> DEFINE p == Head(posts)
<1>0. /\ up /\ join = None /\ UNCHANGED <<join, conn, disk, trusted, up>>
      /\ posts # <<>> /\ posts' = Tail(posts) /\ p.kind = "cancel"
  BY DEF DeliverCancelRequest, Owner, Quiet
<1>1. posts \in Seq(Posts) /\ Len(posts) \in Nat /\ Len(posts) <= MaxPosts
      /\ MaxPosts \in Nat
  BY IncomingAssumption DEF IInv, Typed
<1>2. /\ p \in Posts /\ posts' \in Seq(Posts) /\ Len(posts') = Len(posts) - 1
      /\ \A k \in Kinds, h \in Generations :
           Pending(posts, k, h) <=>
             Pending(posts', k, h) \/ p = [kind |-> k, gen |-> h]
  BY <1>0, <1>1, TailEffect
<1> HIDE DEF p
<1>3. CASE sent /\ MayCancelHere
  <2>1. CancelPipeline(TRUE) /\ ses.pipe # None
    BY <1>3 DEF DeliverCancelRequest, MayCancelHere
  <2>2. /\ Len(posts') <= Len(posts)
        /\ \A k \in Kinds, h \in Generations :
             Pending(posts', k, h) => Pending(posts, k, h)
    BY <1>1, <1>2
  <2> QED BY <1>0, <1>2, <2>1, <2>2, CancelKeeps
<1>4. CASE ~(sent /\ MayCancelHere)
  <2>1. UNCHANGED <<ses, w, cleanup>>
    BY <1>4 DEF DeliverCancelRequest
  <2>2. Typed'
    BY <1>0, <1>1, <1>2, <2>1 DEF IInv, Typed
  <2>3. Working' /\ Owned'
    BY <1>0, <1>1, <1>2, <2>1 DEF IInv, Working, Owned, Running
  <2>4. Phases' /\ Swept' /\ CancelledLeavesNothing' /\ EndedByItsOwnWorker'
    BY <1>0, <2>1
    DEF IInv, Phases, Active, Swept, CancelledLeavesNothing, EndedByItsOwnWorker
  <2>5. Dated' /\ Truthful'
    BY <1>0, <1>2, <2>1 DEF IInv, Dated, Truthful, Kinds
  <2>6. Asked'
    <3>1. \A g \in Generations : Pending(posts, "prompt", g) => Pending(posts', "prompt", g)
      BY <1>0, <1>2 DEF Kinds
    <3> QED BY <2>1, <3>1 DEF IInv, Asked
  <2> QED BY <2>2, <2>3, <2>4, <2>5, <2>6 DEF IInv
<1> QED BY <1>3, <1>4

\* Cancels that come from the user or from the peer.
LEMMA PlainCancelKeeps ==
    ASSUME IInv, NEW keep \in BOOLEAN, LocalCancel(keep) \/ RemoteCancel(keep)
    PROVE  IInv'
<1>1. /\ up /\ join = None /\ CancelPipeline(keep) /\ ses.pipe # None
      /\ UNCHANGED <<join, conn, disk, trusted, up>> /\ posts' = posts
  BY DEF LocalCancel, RemoteCancel, Owner, Quiet, MayCancelHere
<1>2. posts \in Seq(Posts) /\ Len(posts) \in Nat
  BY DEF IInv, Typed
<1>3. /\ posts' \in Seq(Posts) /\ Len(posts') <= Len(posts)
      /\ \A k \in Kinds, h \in Generations :
           Pending(posts', k, h) => Pending(posts, k, h)
  BY <1>1, <1>2
<1> QED BY <1>1, <1>3, CancelKeeps

\* The task of a cancel, and its end.
LEMMA CleanupKeeps ==
    ASSUME IInv, NEW ok \in BOOLEAN, RunCleanup(ok) \/ CleanupFinished
    PROVE  IInv'
<1> USE DEF IInv
<1>1. Typed'
  <2>1. cleanup' \in Cleanups /\ ses' \in Sessions
    BY DEF Typed, RunCleanup, CleanupFinished, Cleanups, Sessions, Terminal
  <2>2. disk' \in [state : BOOLEAN, staging : BOOLEAN, done : 0..N]
    <3> DEFINE u == [disk EXCEPT !.staging = FALSE]
               D == [state : BOOLEAN, staging : BOOLEAN, done : 0..N]
    <3>1. disk \in D /\ u \in D
      BY DEF Typed
    <3> HIDE DEF u
    <3>2. [u EXCEPT !.state = FALSE] \in D
      BY <3>1
    <3>3. disk' \in {disk, u, [u EXCEPT !.state = FALSE]}
      BY DEF RunCleanup, CleanupFinished, Quiet, Removed, u
    <3> QED BY <3>1, <3>2, <3>3
  <2>3. UNCHANGED <<w, posts, join, conn, trusted, up>>
    BY DEF RunCleanup, CleanupFinished, Quiet
  <2> QED BY <2>1, <2>2, <2>3 DEF Typed
<1>2. CASE RunCleanup(ok)
  <2>1. /\ UNCHANGED <<ses, w, posts, join, up>> /\ w[cleanup.of].phase = "ended"
        /\ cleanup' = [cleanup EXCEPT !.phase = IF ok THEN "ok" ELSE "failed"]
        /\ cleanup.phase = "waiting"
    BY <1>2 DEF RunCleanup
  <2>2. /\ cleanup'.phase = (IF ok THEN "ok" ELSE "failed")
        /\ cleanup'.keep = cleanup.keep /\ cleanup'.gen = cleanup.gen
    BY <2>1 DEF Typed, Cleanups
  <2>3. Working' /\ Owned'
    BY <2>1, <2>2 DEF Working, Owned, Running
  <2>4. Phases' /\ Dated'
    BY <2>1, <2>2 DEF Phases, Dated, Active
  <2>5. Truthful' /\ EndedByItsOwnWorker' /\ Asked'
    BY <2>1 DEF Truthful, EndedByItsOwnWorker, Asked
  <2>6. Swept'
    <3> DEFINE u == [disk EXCEPT !.staging = FALSE]
               D == [state : BOOLEAN, staging : BOOLEAN, done : 0..N]
    <3>1. u \in D /\ ~u.staging
      BY DEF Typed
    <3> HIDE DEF u
    <3>2. ~[u EXCEPT !.state = FALSE].staging /\ ~[u EXCEPT !.state = FALSE].state
      BY <3>1
    <3>3. ok /\ ~cleanup.keep => disk' = [u EXCEPT !.state = FALSE]
      BY <1>2 DEF RunCleanup, Removed, u
    <3> QED BY <2>2, <3>2, <3>3 DEF Swept
  <2>7. CancelledLeavesNothing'
    BY <2>1 DEF Phases, CancelledLeavesNothing
  <2> QED BY <1>1, <2>3, <2>4, <2>5, <2>6, <2>7
<1>3. CASE CleanupFinished
  <2>1. /\ UNCHANGED <<w, posts, join, disk, up>> /\ up
        /\ cleanup.phase \in {"ok", "failed"}
        /\ cleanup' = [cleanup EXCEPT !.phase = "none"]
    BY <1>3 DEF CleanupFinished, Owner, Quiet
  <2>2. cleanup'.phase = "none" /\ cleanup'.keep = cleanup.keep
    BY <2>1 DEF Typed, Cleanups
  <2>3. ses.snap = "Cancelling" /\ ses.pipe = None /\ join = None
    BY <2>1 DEF Phases, Active
  <2>4. /\ ses'.snap = (IF cleanup.phase = "ok" THEN "Cancelled" ELSE "Failed")
        /\ ses'.pipe = ses.pipe /\ ses'.gen = ses.gen /\ ses'.offer = ses.offer
        /\ ses'.preflight = ses.preflight /\ ses'.prompt = ses.prompt
    BY <1>3, <2>1, <2>3 DEF CleanupFinished, Phases, Typed, Sessions
  <2>5. Working' /\ Owned'
    BY <2>1, <2>2, <2>4 DEF Working, Owned, Running
  <2>6. Phases' /\ Dated'
    BY <2>1, <2>2, <2>3, <2>4 DEF Phases, Dated
  <2>7. Truthful' /\ Swept' /\ EndedByItsOwnWorker' /\ Asked'
    BY <2>1, <2>2, <2>3, <2>4 DEF Truthful, Swept, EndedByItsOwnWorker, Asked
  <2>8. CancelledLeavesNothing'
    BY <2>1, <2>2, <2>4 DEF Swept, CancelledLeavesNothing
  <2> QED BY <1>1, <2>5, <2>6, <2>7, <2>8
<1> QED BY <1>2, <1>3

\* What follows a loss: the destructor returns, the peer comes back, asks to
\* resume.
LEMMA ReturnKeeps ==
    ASSUME IInv, NEW b \in BOOLEAN,
           PipelineDestroyed \/ PeerReconnects \/ ReceiveResumeQuery(b)
    PROVE  IInv'
<1>1. CASE PipelineDestroyed
  <2>1. /\ up /\ join # None /\ w[join].phase = "ended" /\ join' = None
        /\ ses' = [ses EXCEPT !.snap = "Interrupted"]
        /\ UNCHANGED <<w, posts, cleanup, conn, disk, trusted, up>>
    BY <1>1 DEF PipelineDestroyed, Quiet
  <2>2. /\ ses' \in Sessions /\ ses'.snap = "Interrupted" /\ ses'.pipe = ses.pipe
        /\ ses'.gen = ses.gen /\ ses'.offer = ses.offer
        /\ ses'.preflight = ses.preflight /\ ses'.prompt = ses.prompt
    BY <2>1 DEF IInv, Typed, Sessions
  <2>3. /\ ses.pipe = None /\ cleanup.phase = "none"
        /\ ses.offer # "awaiting" /\ ~ses.preflight
    BY <2>1 DEF IInv, Typed, Sessions, Phases, Active
  <2>4. Typed' /\ Working' /\ Owned'
    BY <2>1, <2>2 DEF IInv, Typed, Working, Owned, Running
  <2>5. Phases' /\ Dated'
    BY <2>1, <2>2, <2>3 DEF IInv, Phases, Dated
  <2>6. Truthful' /\ Swept' /\ EndedByItsOwnWorker' /\ CancelledLeavesNothing'
    BY <2>1, <2>2
    DEF IInv, Truthful, Swept, EndedByItsOwnWorker, CancelledLeavesNothing
  <2>7. Asked'
    BY <2>1, <2>2 DEF IInv, Asked
  <2> QED BY <2>4, <2>5, <2>6, <2>7 DEF IInv
<1>2. CASE PeerReconnects
  <2>1. /\ up /\ join = None
        /\ UNCHANGED <<ses, w, posts, cleanup, join, disk, trusted, up>>
    BY <1>2 DEF PeerReconnects, Owner, Quiet
  <2>2. conn' \in BOOLEAN /\ trusted' \in BOOLEAN
    BY <1>2 DEF PeerReconnects, Quiet, IInv, Typed
  <2>3. /\ ses \in Sessions /\ w \in [Generations -> Workers]
        /\ ses.preflight => ses.offer = "awaiting"
    BY DEF IInv, Typed, Phases
  <2> QED BY <2>1, <2>2, <2>3, SessionKeeps
<1>3. CASE ReceiveResumeQuery(b)
  <2> DEFINE x == [ses EXCEPT !.snap = "Resuming", !.pipe = ses.gen]
             y == [x EXCEPT !.replay = TRUE]
  <2>1. /\ up /\ join = None /\ ses.snap = "Interrupted" /\ ses.pipe = None
        /\ UNCHANGED <<posts, cleanup, join, disk, conn, trusted, up>>
        /\ ses' = y /\ w' = [w EXCEPT ![ses.gen] = NewWorker]
    BY <1>3 DEF ReceiveResumeQuery, Owner, Quiet
  <2>2. /\ x \in Sessions /\ x.snap = "Resuming" /\ x.pipe = ses.gen
        /\ x.gen = ses.gen /\ x.offer = ses.offer /\ x.preflight = ses.preflight
    BY DEF IInv, Typed, Sessions
  <2> HIDE DEF x
  <2>3. /\ ses' \in Sessions /\ ses'.snap = "Resuming" /\ ses'.pipe = ses.gen
        /\ ses'.gen = ses.gen /\ ses'.offer = ses.offer
        /\ ses'.preflight = ses.preflight
    BY <2>1, <2>2 DEF Sessions
  <2>4. cleanup.phase = "none" /\ ses.offer # "awaiting" /\ ~ses.preflight
    BY <2>1 DEF IInv, Phases
  <2> QED BY <2>1, <2>3, <2>4, StartKeeps DEF Active
<1> QED BY <1>1, <1>2, <1>3

\* A process that has just started: no worker, no callback, no task.
LEMMA FreshHolds ==
    ASSUME ses' \in Sessions, ses'.pipe = None, ses'.gen = 0,
           \/ ses'.snap = "WaitingForAcceptance" /\ ~ses'.preflight
           \/ ses'.snap = "Interrupted" /\ ses'.offer = "accepted" /\ ~ses'.preflight,
           ~up' => ses' = FreshSession,
           w' = [g \in Generations |-> NoWorker], posts' = <<>>,
           cleanup' = NoCleanup, join' = None,
           disk' \in [state : BOOLEAN, staging : BOOLEAN, done : 0..N],
           conn' \in BOOLEAN, trusted' \in BOOLEAN, up' \in BOOLEAN
    PROVE  IInv'
<1>1. /\ \A g \in Generations : w'[g] \in Workers /\ w'[g].phase = "none"
      /\ w' \in [Generations -> Workers]
  <2>1. NoWorker \in Workers /\ NoWorker.phase = "none"
    BY IncomingAssumption DEF NoWorker, Workers
  <2> QED BY <2>1
<1>2. \A k, h : ~Pending(posts', k, h)
  BY DEF Pending
<1>3. cleanup' \in Cleanups /\ cleanup'.phase = "none"
  BY DEF NoCleanup, Cleanups
<1>4. posts' \in Seq(Posts) /\ Len(posts') = 0
  OBVIOUS
<1>5. Typed' /\ Working' /\ Owned'
  BY <1>1, <1>3, <1>4, IncomingAssumption DEF Typed, Working, Owned, Running
<1>6. Phases'
  BY <1>3 DEF Phases
<1>7. Dated' /\ Truthful' /\ Swept'
  BY <1>2, <1>3 DEF Dated, Truthful, Swept
<1>8. EndedByItsOwnWorker' /\ CancelledLeavesNothing' /\ Asked'
  BY <1>1 DEF EndedByItsOwnWorker, CancelledLeavesNothing, Asked
<1> QED BY <1>5, <1>6, <1>7, <1>8 DEF IInv

\* The process dies; another one finds the record; the peer is revoked.
LEMMA RestartKeeps ==
    ASSUME IInv, Crash \/ Hydrate \/ Revoke
    PROVE  IInv'
<1>1. /\ FreshSession \in Sessions /\ FreshSession.pipe = None
      /\ FreshSession.gen = 0 /\ FreshSession.snap = "WaitingForAcceptance"
      /\ ~FreshSession.preflight
  BY IncomingAssumption DEF FreshSession, Sessions, Generations
<1>2. CASE Crash
  <2>1. /\ ses' = FreshSession /\ w' = [g \in Generations |-> NoWorker]
        /\ posts' = <<>> /\ cleanup' = NoCleanup /\ join' = None
        /\ disk' = disk /\ trusted' = trusted /\ conn' = FALSE /\ up' = FALSE
    BY <1>2 DEF Crash
  <2>2. /\ disk' \in [state : BOOLEAN, staging : BOOLEAN, done : 0..N]
        /\ conn' \in BOOLEAN /\ trusted' \in BOOLEAN /\ up' \in BOOLEAN
    BY <2>1 DEF IInv, Typed
  <2> QED BY <1>1, <2>1, <2>2, FreshHolds
<1>3. CASE Hydrate
  <2> DEFINE x == [FreshSession EXCEPT !.offer = "accepted"]
             y == [x EXCEPT !.snap = "Interrupted"]
  <2>1. /\ ~up /\ up' = TRUE /\ ses' = y
        /\ UNCHANGED <<w, posts, cleanup, join, disk, conn, trusted>>
    BY <1>3 DEF Hydrate
  <2>2. /\ x \in Sessions /\ x.pipe = None /\ x.gen = 0 /\ x.offer = "accepted"
        /\ ~x.preflight
    BY <1>1 DEF Sessions
  <2> HIDE DEF x
  <2>3. /\ ses' \in Sessions /\ ses'.pipe = None /\ ses'.gen = 0
        /\ ses'.snap = "Interrupted" /\ ses'.offer = "accepted" /\ ~ses'.preflight
    BY <2>1, <2>2 DEF Sessions
  <2>4. /\ ses = FreshSession /\ posts = <<>> /\ join = None
        /\ cleanup.phase = "none"
    BY <1>1, <2>1 DEF IInv, Phases, Typed, Active
  <2>5. \A g \in Generations : ~Running(g)
    BY <1>1, <2>4 DEF IInv, Owned, Generations, None
  <2>6. \A k, h : ~Pending(posts', k, h)
    BY <2>1, <2>4 DEF Pending
  <2>7. Typed' /\ Working' /\ Owned'
    BY <2>1, <2>3, <2>5 DEF IInv, Typed, Working, Owned, Running
  <2>8. Phases'
    BY <2>1, <2>3, <2>4 DEF Phases
  <2>9. Dated' /\ Truthful' /\ Swept'
    BY <2>1, <2>3, <2>4, <2>6 DEF Dated, Truthful, Swept
  <2>10. EndedByItsOwnWorker' /\ CancelledLeavesNothing' /\ Asked'
    BY <2>1, <2>3, <2>5 DEF EndedByItsOwnWorker, CancelledLeavesNothing, Asked, Running
  <2> QED BY <2>7, <2>8, <2>9, <2>10 DEF IInv
<1>4. CASE Revoke
  <2>1. /\ UNCHANGED <<ses, w, posts, cleanup, join, disk, conn, up>>
        /\ trusted' = FALSE
    BY <1>4 DEF Revoke
  <2>2. Typed'
    BY <2>1 DEF IInv, Typed
  <2>3. Working' /\ Owned' /\ Phases' /\ Dated' /\ Truthful'
    BY <2>1 DEF IInv, Working, Owned, Running, Phases, Active, Dated, Truthful
  <2>4. Swept' /\ EndedByItsOwnWorker' /\ CancelledLeavesNothing' /\ Asked'
    BY <2>1 DEF IInv, Swept, EndedByItsOwnWorker, CancelledLeavesNothing, Asked
  <2> QED BY <2>2, <2>3, <2>4 DEF IInv
<1> QED BY <1>2, <1>3, <1>4

-----------------------------------------------------------------------------
(* The theorems.                                                            *)

\* The first state satisfies the invariant.
LEMMA InitHolds == Init => IInv
<1> SUFFICES ASSUME Init PROVE IInv
  OBVIOUS
<1>1. /\ ses \in Sessions /\ ses.pipe = None /\ ses.gen = 0
      /\ ses.snap = "WaitingForAcceptance" /\ ~ses.preflight
  BY IncomingAssumption DEF Init, FreshSession, Sessions, Generations
<1>2. /\ \A g \in Generations : w[g] \in Workers /\ w[g].phase = "none"
      /\ w \in [Generations -> Workers]
  <2>1. NoWorker \in Workers /\ NoWorker.phase = "none"
    BY IncomingAssumption DEF NoWorker, Workers
  <2> QED BY <2>1 DEF Init
<1>3. \A k, h : ~Pending(posts, k, h)
  BY DEF Init, Pending
<1>4. cleanup \in Cleanups /\ cleanup.phase = "none"
  BY DEF Init, NoCleanup, Cleanups
<1>5. posts \in Seq(Posts) /\ Len(posts) = 0
  BY DEF Init
<1>6. disk \in [state : BOOLEAN, staging : BOOLEAN, done : 0..N]
  BY IncomingAssumption DEF Init
<1>7. join = None /\ conn \in BOOLEAN /\ trusted \in BOOLEAN /\ up \in BOOLEAN /\ up
  BY DEF Init
<1>8. Typed /\ Working /\ Owned
  BY <1>1, <1>2, <1>4, <1>5, <1>6, <1>7, IncomingAssumption
  DEF Typed, Working, Owned, Running
<1>9. Phases /\ Dated /\ Truthful /\ Swept
  BY <1>1, <1>3, <1>4, <1>7 DEF Phases, Dated, Truthful, Swept
<1>10. EndedByItsOwnWorker /\ CancelledLeavesNothing /\ Asked
  BY <1>1, <1>2 DEF EndedByItsOwnWorker, CancelledLeavesNothing, Asked
<1> QED BY <1>8, <1>9, <1>10 DEF IInv

\* Every step of the owner thread, a worker, a task or the environment keeps it.
LEMMA NextKeeps == IInv /\ [Next]_vars => IInv'
<1> SUFFICES ASSUME IInv, [Next]_vars PROVE IInv'
  OBVIOUS
<1>1. CASE UNCHANGED vars
  <2>1. Typed' /\ Working' /\ Owned' /\ Phases' /\ Dated' /\ Truthful'
    BY <1>1 DEF vars, IInv, Typed, Working, Owned, Running, Phases, Active, Dated,
                Truthful
  <2>2. Swept' /\ EndedByItsOwnWorker' /\ CancelledLeavesNothing' /\ Asked'
    BY <1>1 DEF vars, IInv, Swept, EndedByItsOwnWorker, CancelledLeavesNothing, Asked
  <2> QED BY <2>1, <2>2 DEF IInv
<1>2. CASE \E g \in Generations : WorkerStep(g)
  BY <1>2, WorkerKeeps
<1>3. CASE Accept \/ Reject \/ \E b \in BOOLEAN : FinishAcceptPreflight(b)
  BY <1>3, OfferKeeps
<1>4. CASE \E b \in BOOLEAN : LocalCancel(b) \/ RemoteCancel(b)
  BY <1>4, PlainCancelKeeps
<1>5. CASE \E b \in BOOLEAN : DeliverCancelRequest(b)
  BY <1>5, DeliverCancelRequestKeeps
<1>6. CASE CleanupFinished \/ \E b \in BOOLEAN : RunCleanup(b)
  BY <1>6, CleanupKeeps
<1>7. CASE PipelineDestroyed \/ PeerReconnects \/ \E b \in BOOLEAN : ReceiveResumeQuery(b)
  BY <1>7, ReturnKeeps
<1>8. CASE \/ EnqueueFrame \/ Pause \/ Resume
           \/ \E decision \in {"go", "cancel"} : ResolveConflict(decision)
  BY <1>8, CommandKeeps
<1>9. CASE Deliver
  BY <1>9, DeliverKeeps
<1>10. CASE PeerDisconnected
  BY <1>10, PeerDisconnectedKeeps
<1>11. CASE Crash \/ Hydrate \/ Revoke
  BY <1>11, RestartKeeps
<1> QED
  BY <1>1, <1>2, <1>3, <1>4, <1>5, <1>6, <1>7, <1>8, <1>9, <1>10, <1>11 DEF Next

\* The strengthening is an invariant of the specification.
THEOREM Inductive == Spec => []IInv
BY InitHolds, NextKeeps, PTL DEF Spec

\* The session, its workers, queues and disk keep their types and bounds.
THEOREM IncomingTyped == Spec => []TypeOK
<1>1. IInv => TypeOK
  BY DEF IInv, Typed, Sessions, Workers, TypeOK
<1> QED BY <1>1, Inductive, PTL

\* Never do two workers write the files of one transfer, through any sequence
\* of losses, resumes and cancels (peerDisconnected, receiveResumeQuery).
THEOREM WriterIsUnique == Spec => []OneWriter
<1>1. IInv => OneWriter
  BY OwnershipImpliesOneWriter
<1> QED BY <1>1, Inductive, PTL

\* No late callback of a stopped pipeline ends the session in its place.
THEOREM EndIsItsOwn == Spec => []EndedByItsOwnWorker
<1>1. IInv => EndedByItsOwnWorker
  BY DEF IInv
<1> QED BY <1>1, Inductive, PTL

\* A cancel that keeps nothing leaves nothing on disk.
THEOREM CancelSweeps == Spec => []CancelledLeavesNothing
<1>1. IInv => CancelledLeavesNothing
  BY DEF IInv
<1> QED BY <1>1, Inductive, PTL

\* A worker that waits for a decision can get one.
THEOREM PromptsReachTheUser == Spec => []AskedIsAnswerable
<1>1. IInv => AskedIsAnswerable
  BY DEF IInv, Asked, AskedIsAnswerable, Pending
<1> QED BY <1>1, Inductive, PTL
=============================================================================
