---------------------------- MODULE Pairing_proofs ----------------------------
(***************************************************************************)
(* The invariants of Pairing, and that a revocation holds, for every number *)
(* of sessions, validity, clock skew and end of time.                       *)
(*                                                                          *)
(* The argument follows a session: a host that takes part in it has it from *)
(* its own call or from a request of the other host (Roles), a datagram     *)
(* tells the truth about its sender (Mail), and a commit needs what both    *)
(* users did (Agreed), which no later step takes away.                      *)
(***************************************************************************)
EXTENDS Pairing, TLAPS

Ghosts ==
    [owner: [Sessions -> Hosts], seen: SUBSET Sessions,
     committed: SUBSET (Sessions \X Hosts),
     acted: [Hosts -> BOOLEAN], apart: [Hosts -> BOOLEAN]]

GhostType ==
    /\ ghost \in Ghosts
    /\ \A h \in Hosts : memory[h] = Unusable => m[h].role = "none"

\* Both users have done their part in session s.
Agreed(s) ==
    /\ s \in ghost.seen
    /\ Submission(s, Other(ghost.owner[s]), TRUE) \in net
    /\ s < next

\* Who takes part in a session: the host that started it and the other one.
Role(h, x) ==
    /\ x.role = "out" =>
         /\ x.session \in Sessions /\ x.session < next
         /\ ghost.owner[x.session] = h
         /\ x.manual = "none"
         /\ x.matched => Submission(x.session, Other(h), TRUE) \in net
    /\ x.role = "in" =>
         /\ x.session \in Sessions /\ x.session < next
         /\ ghost.owner[x.session] = Other(h)
         /\ x.sm = "confirming" => ghost.acted[h]
    /\ x.role = "none" => x.sm \notin Live

Roles == \A h \in Hosts : Role(h, m[h])

\* What a datagram tells.
Tells(p) ==
    /\ p.session < next
    /\ p.kind = "request" => ghost.owner[p.session] = Other(p.to)
    /\ p.kind = "submission" => ghost.owner[p.session] = p.to
    /\ p.kind = "result" /\ p.accepted =>
         /\ ghost.owner[p.session] = Other(p.to)
         /\ <<p.session, Other(p.to)>> \in ghost.committed

Mail == \A p \in net : Tells(p)

Commits == \A s \in Sessions, h \in Hosts : <<s, h>> \in ghost.committed => Agreed(s)

Trusts ==
    \A h \in Hosts, s \in Sessions :
      TrustedAnywhere(h, s) =>
        /\ Agreed(s)
        /\ ghost.owner[s] # h => <<s, ghost.owner[s]>> \in ghost.committed

Types == TypeOK /\ GhostType

IInv ==
    /\ Types /\ Roles /\ Mail /\ Commits /\ Trusts
    /\ PrimaryIsMemory /\ NoHiddenSession

-----------------------------------------------------------------------------
(* Constants.                                                               *)
LEMMA OtherHost ==
    ASSUME NEW h \in Hosts
    PROVE  /\ Other(h) \in Hosts /\ Other(h) # h /\ Other(Other(h)) = h
           /\ \A k \in Hosts : k # h => k = Other(h)
<1>1. PICK a \in Hosts, b \in Hosts : a # b /\ Hosts = {a, b}
  BY PairingAssumption
<1>2. \A k \in Hosts : Other(k) \in Hosts /\ Other(k) # k
  <2> SUFFICES ASSUME NEW k \in Hosts PROVE Other(k) \in Hosts /\ Other(k) # k
    OBVIOUS
  <2>1. \E j \in Hosts : j # k
    BY <1>1
  <2> QED
    BY <2>1 DEF Other
<1> QED
  BY <1>1, <1>2

LEMMA RecordKinds ==
    /\ NoRecord \in Records /\ Revoked \in Records
    /\ \A s \in Sessions : s \in Records /\ s # Revoked /\ s # NoRecord
    /\ \A r \in Records : r # Missing /\ r # Unusable
    /\ Missing # Unusable
    /\ Revoked # NoRecord /\ Unusable \notin Sessions /\ Missing \notin Sessions
  BY PairingAssumption DEF Records, Sessions, NoRecord, Revoked, Missing, Unusable

LEMMA NowIsNat == TypeOK => \A h \in Hosts : Now(h) \in Nat
  BY PairingAssumption DEF TypeOK, Now

\* An expiry changes the state of one of the two snapshots.
LEMMA ExpiredEffect ==
    ASSUME TypeOK, NEW h \in Hosts
    PROVE  LET x == Expired(h)
           IN /\ x \in Manager
              /\ x.role = m[h].role /\ x.session = m[h].session
              /\ x.local = m[h].local /\ x.matched = m[h].matched
              /\ x.manual # "none" <=> m[h].manual # "none"
              /\ x.sm \in Live => x.sm = m[h].sm
<1>1. m[h] \in Manager
  BY DEF TypeOK
<1>2. CASE ~Due(h)
  BY <1>1, <1>2 DEF Expired
<1>3. CASE Due(h) /\ m[h].manual # "none"
  BY <1>1, <1>3 DEF Expired, Manager
<1>4. CASE Due(h) /\ m[h].manual = "none"
  BY <1>1, <1>4 DEF Expired, Manager, Live, Ended
<1> QED
  BY <1>2, <1>3, <1>4

-----------------------------------------------------------------------------
(* A commit of session x.session at host h.                                 *)
Disks == [primary: Records \cup {Missing}, backup: Records \cup {Missing}]

\* Its outcome: e is the state of the session, d the files, apart whether
\* the file is left with what memory does not have.
CommitResult(h, x, ok, e, d, apart) ==
    /\ clock' \in 0 .. MaxTime
    /\ m' = [m EXCEPT ![h] = [x EXCEPT !.sm = e]]
    /\ memory' = [memory EXCEPT ![h] = IF ok THEN x.session ELSE memory[h]]
    /\ disk' = [disk EXCEPT ![h] = d]
    /\ {d.primary, d.backup} \subseteq
         {disk[h].primary, disk[h].backup, x.session, memory[h]}
    /\ ghost' = [Confirmed(h, x) EXCEPT !.apart[h] = apart,
                   !.committed = IF ok THEN @ \cup {<<x.session, h>>} ELSE @]
    /\ \/ apart
       \/ d.primary = IF ok THEN x.session ELSE memory[h]
       \/ ~ok /\ d.primary = disk[h].primary /\ ~ghost.apart[h]

LEMMA CommitEffect ==
    ASSUME Types, NEW h \in Hosts, NEW x \in Manager, x.session \in Sessions,
           memory[h] # Unusable, NEW ok \in BOOLEAN, Commit(h, x, ok)
    PROVE  \E e \in Ended, d \in Disks, apart \in BOOLEAN :
             CommitResult(h, x, ok, e, d, apart)
<1>1. PICK primary, backup, again, againBackup \in BOOLEAN, took \in {0, 1} :
        LET late   == Now(h) + took >= x.smExpiry
            stored == Saved(disk[h], x.session, primary, backup)
            undone == Saved(stored, memory[h], again, againBackup)
        IN /\ clock + took <= MaxTime
           /\ clock' = clock + took
           /\ ok = (primary /\ ~late)
           /\ m' = [m EXCEPT ![h] = [x EXCEPT !.sm =
                IF ok THEN "completed" ELSE IF late THEN "expired" ELSE "failed"]]
           /\ memory' = [memory EXCEPT ![h] = IF ok THEN x.session ELSE @]
           /\ disk' = [disk EXCEPT ![h] = IF ok THEN stored ELSE undone]
           /\ ghost' = [Confirmed(h, x) EXCEPT
                !.apart[h] = ~ok /\ ~again /\ (primary \/ @),
                !.committed = IF ok THEN @ \cup {<<x.session, h>>} ELSE @]
  BY DEF Commit
<1> DEFINE late   == Now(h) + took >= x.smExpiry
           stored == Saved(disk[h], x.session, primary, backup)
           undone == Saved(stored, memory[h], again, againBackup)
           e == IF ok THEN "completed" ELSE IF late THEN "expired" ELSE "failed"
           d == IF ok THEN stored ELSE undone
           apart == ~ok /\ ~again /\ (primary \/ ghost.apart[h])
<1>2. e \in Ended /\ apart \in BOOLEAN
  BY DEF Ended
<1>3. clock' \in 0 .. MaxTime
  BY <1>1, PairingAssumption DEF Types, TypeOK
<1>4. /\ disk[h] \in Disks /\ memory[h] \in Records /\ x.session \in Records
      /\ ghost.apart[h] \in BOOLEAN
  <2>1. disk[h] \in Disks /\ memory[h] \in Records
    BY DEF Types, TypeOK, Disks
  <2>2. x.session \in Records
    BY RecordKinds
  <2>3. ghost.apart[h] \in BOOLEAN
    BY DEF Types, GhostType, Ghosts
  <2> QED
    BY <2>1, <2>2, <2>3
<1>5. stored \in Disks /\ {stored.primary, stored.backup} \subseteq
                            {disk[h].primary, disk[h].backup, x.session}
      /\ stored.primary = IF primary THEN x.session ELSE disk[h].primary
  BY <1>4 DEF Saved, Disks
<1> HIDE DEF stored
<1>6. undone \in Disks
      /\ {undone.primary, undone.backup} \subseteq
           {disk[h].primary, disk[h].backup, x.session, memory[h]}
      /\ undone.primary = IF again THEN memory[h] ELSE stored.primary
  BY <1>4, <1>5 DEF Saved, Disks
<1> HIDE DEF undone
<1>7. /\ d \in Disks
      /\ {d.primary, d.backup} \subseteq
           {disk[h].primary, disk[h].backup, x.session, memory[h]}
      /\ \/ apart
         \/ d.primary = IF ok THEN x.session ELSE memory[h]
         \/ ~ok /\ d.primary = disk[h].primary /\ ~ghost.apart[h]
  BY <1>1, <1>5, <1>6
<1>8. Confirmed(h, x).apart = ghost.apart /\ ghost.apart[h] \in BOOLEAN
  BY DEF Confirmed, Types, GhostType, Ghosts
<1>9. /\ m' = [m EXCEPT ![h] = [x EXCEPT !.sm = e]]
      /\ memory' = [memory EXCEPT ![h] = IF ok THEN x.session ELSE memory[h]]
      /\ disk' = [disk EXCEPT ![h] = d]
  BY <1>1 DEF stored, undone
<1>10. ghost' = [Confirmed(h, x) EXCEPT !.apart[h] = apart,
                  !.committed = IF ok THEN @ \cup {<<x.session, h>>} ELSE @]
  BY <1>1, <1>8
<1> HIDE DEF e, d, apart, late
<1>11. CommitResult(h, x, ok, e, d, apart)
  BY <1>3, <1>7, <1>9, <1>10 DEF CommitResult
<1> QED
  BY <1>2, <1>7, <1>11

\* What a host did in a session is not forgotten: Agreed and commits only grow
\* when datagrams and noted facts do.
LEMMA AgreedGrows ==
    ASSUME NEW s \in Sessions, Agreed(s), net \subseteq net', next <= next',
           Types, ghost.seen \subseteq ghost'.seen,
           ghost'.owner[s] = ghost.owner[s], next' \in Nat
    PROVE  Agreed(s)'
  BY DEF Agreed, Submission, Types, TypeOK, Sessions

\* So a host that takes part in a session goes on taking part in it.
LEMMA RoleKeeps ==
    ASSUME NEW h \in Hosts, NEW x \in Manager, Role(h, x),
           net \subseteq net', next <= next', next \in Nat, next' \in Nat,
           \A s \in Sessions : s < next => ghost'.owner[s] = ghost.owner[s],
           ghost.acted[h] => ghost'.acted[h]
    PROVE  Role(h, x)'
<1>1. ASSUME x.session \in Sessions, x.session < next
      PROVE  /\ x.session < next'
             /\ ghost'.owner[x.session] = ghost.owner[x.session]
  BY <1>1 DEF Sessions
<1>2. CASE x.role = "out"
  BY <1>1, <1>2 DEF Role, Submission
<1>3. CASE x.role = "in"
  BY <1>1, <1>3 DEF Role
<1>4. CASE x.role = "none"
  BY <1>4 DEF Role
<1> QED
  BY <1>2, <1>3, <1>4 DEF Manager

\* A commit by a host whose peer's part is proved by a datagram or a commit.
LEMMA CommitKeeps ==
    ASSUME IInv, NEW h \in Hosts, NEW x \in Manager,
           m[h].role \in {"out", "in"},
           x.role = m[h].role, x.session = m[h].session,
           x.manual # "none" <=> m[h].manual # "none",
           \/ /\ x.role = "out" /\ x.local
              /\ Submission(x.session, Other(h), TRUE) \in net
           \/ x.role = "in" /\ <<x.session, Other(h)>> \in ghost.committed,
           NEW ok \in BOOLEAN, Commit(h, x, ok),
           net' = net \/ (x.role = "out" /\ net' = net \cup {Result(x.session, h, ok)}),
           UNCHANGED <<skew, next>>
    PROVE  IInv'
<1>1. /\ Types /\ x.session \in Sessions /\ x.session < next
      /\ memory[h] # Unusable
      /\ ghost.owner[x.session] = IF x.role = "out" THEN h ELSE Other(h)
  BY DEF IInv, Roles, Role, Types, GhostType
<1>2. PICK e \in Ended, d \in Disks, apart \in BOOLEAN :
        CommitResult(h, x, ok, e, d, apart)
  BY <1>1, CommitEffect
<1>3. /\ ghost'.owner = ghost.owner
      /\ ghost'.seen = IF x.role = "out" /\ x.local
                       THEN ghost.seen \cup {x.session} ELSE ghost.seen
      /\ ghost'.committed = IF ok THEN ghost.committed \cup {<<x.session, h>>}
                            ELSE ghost.committed
      /\ \A k \in Hosts : ghost.acted[k] => ghost'.acted[k]
      /\ ghost'.apart = [ghost.apart EXCEPT ![h] = apart]
      /\ ghost' \in Ghosts
  <2>1. ghost \in Ghosts
    BY <1>1 DEF Types, GhostType
  <2>2. /\ Confirmed(h, x) \in Ghosts
        /\ Confirmed(h, x).owner = ghost.owner
        /\ Confirmed(h, x).committed = ghost.committed
        /\ Confirmed(h, x).apart = ghost.apart
        /\ Confirmed(h, x).seen = IF x.role = "out" /\ x.local
                                  THEN ghost.seen \cup {x.session} ELSE ghost.seen
        /\ \A k \in Hosts : ghost.acted[k] => Confirmed(h, x).acted[k]
    <3>1. CASE x.role = "out" /\ x.local
      BY <1>1, <2>1, <3>1 DEF Confirmed, Ghosts
    <3>2. CASE ~(x.role = "out" /\ x.local)
      BY <2>1, <3>2 DEF Confirmed
    <3> QED
      BY <3>1, <3>2
  <2>3. ghost' = [Confirmed(h, x) EXCEPT !.apart[h] = apart,
                   !.committed = IF ok THEN @ \cup {<<x.session, h>>} ELSE @]
    BY <1>2 DEF CommitResult
  <2> DEFINE g == Confirmed(h, x)
  <2>4. g \in Ghosts /\ <<x.session, h>> \in Sessions \X Hosts
    BY <1>1, <2>2
  <2> HIDE DEF g
  <2>5. ghost' = [g EXCEPT !.apart[h] = apart,
                   !.committed = IF ok THEN @ \cup {<<x.session, h>>} ELSE @]
    BY <2>3 DEF g
  <2>6. /\ ghost'.owner = g.owner /\ ghost'.seen = g.seen
        /\ ghost'.acted = g.acted
        /\ ghost'.apart = [g.apart EXCEPT ![h] = apart]
        /\ ghost'.committed = IF ok THEN g.committed \cup {<<x.session, h>>}
                              ELSE g.committed
    BY <2>4, <2>5 DEF Ghosts
  <2>7. ghost' \in Ghosts
    BY <2>4, <2>5 DEF Ghosts
  <2> QED
    BY <2>2, <2>6, <2>7 DEF g
<1>4. Types'
  <2>1. m' \in [Hosts -> Manager]
    BY <1>1, <1>2 DEF Types, TypeOK, Manager, Ended, CommitResult
  <2>2. /\ memory' \in [Hosts -> Records \cup {Unusable}]
        /\ disk' \in [Hosts -> [primary: Records \cup {Missing},
                                backup:  Records \cup {Missing}]]
    BY <1>1, <1>2, RecordKinds DEF Types, TypeOK, CommitResult, Disks
  <2>3. net' \subseteq Messages
    BY <1>1, OtherHost DEF Types, TypeOK, Messages, Result
  <2>4. \A k \in Hosts : memory'[k] = Unusable => m'[k].role = "none"
    BY <1>1, <1>2, RecordKinds DEF Types, TypeOK, GhostType, CommitResult
  <2>5. clock' \in 0 .. MaxTime /\ ghost' \in Ghosts /\ UNCHANGED <<next, skew>>
    BY <1>1, <1>2, <1>3 DEF Types, TypeOK, GhostType, CommitResult
  <2>6. next \in 1 .. MaxSessions + 1 /\ skew \in [Hosts -> 0 .. MaxSkew]
    BY <1>1 DEF Types, TypeOK
  <2> QED
    BY ONLY <2>1, <2>2, <2>3, <2>4, <2>5, <2>6 DEF Types, TypeOK, GhostType
<1>5. net \subseteq net' /\ next' = next /\ next \in Nat
  BY <1>1 DEF Types, TypeOK
<1>6. ASSUME NEW s \in Sessions, Agreed(s) PROVE Agreed(s)'
  BY <1>1, <1>3, <1>5, <1>6, AgreedGrows
<1>7. Agreed(x.session)'
  <2>1. CASE x.role = "out"
    BY <1>1, <1>3, <1>5, <2>1 DEF Agreed, Submission
  <2>2. CASE x.role = "in"
    <3>1. Agreed(x.session)
      BY <1>1, <2>2, OtherHost DEF IInv, Commits
    <3> QED
      BY <1>1, <1>6, <3>1
  <2> QED
    BY <2>1, <2>2
<1>8. /\ m'[h].role = m[h].role /\ m'[h].session = m[h].session
      /\ m'[h].matched = x.matched
      /\ m'[h].manual # "none" <=> m[h].manual # "none"
      /\ m'[h].sm \in Ended /\ m'[h].sm \notin Live
      /\ \A k \in Hosts : k # h => m'[k] = m[k]
  BY <1>1, <1>2 DEF CommitResult, Types, TypeOK, Manager, Ended, Live
<1>9. Roles'
  <2> SUFFICES ASSUME NEW k \in Hosts
               PROVE  Role(k, m[k])'
    BY DEF Roles
  <2>1. /\ Role(k, m[k]) /\ m'[k].role = m[k].role /\ m'[k].session = m[k].session
    BY <1>8 DEF IInv, Roles
  <2>2. m'[k].matched = m[k].matched \/ (k = h /\ m'[k].matched = x.matched)
    BY <1>8
  <2>3. (m'[k].sm = m[k].sm /\ k # h) \/ m'[k].sm \notin Live
    BY <1>8
  <2>4. /\ ghost'.owner = ghost.owner /\ ghost.seen \subseteq ghost'.seen
        /\ \A j \in Hosts : ghost.acted[j] => ghost'.acted[j]
    BY <1>3
  <2>5. m[k].role = "out" =>
          /\ m'[k].session < next'
          /\ ghost'.owner[m'[k].session] = k /\ m'[k].manual = "none"
          /\ m'[k].matched => Submission(m'[k].session, Other(k), TRUE) \in net'
    BY <1>1, <1>5, <1>8, <2>1, <2>2, <2>4 DEF Role
  <2>6. m[k].role = "in" =>
          /\ m'[k].session < next' /\ ghost'.owner[m'[k].session] = Other(k)
          /\ m'[k].sm = "confirming" => ghost'.acted[k]
    BY <1>5, <2>1, <2>3, <2>4 DEF Role, Live
  <2>7. m[k].role = "none" => m'[k].sm \notin Live
    BY <2>1, <2>3 DEF Role
  <2> QED
    BY <2>1, <2>5, <2>6, <2>7 DEF Role
<1>10. Mail'
  <2> SUFFICES ASSUME NEW p \in net' PROVE Tells(p)'
    BY DEF Mail
  <2>1. CASE p \in net
    BY <1>3, <1>5, <2>1 DEF IInv, Mail, Tells
  <2>2. CASE x.role = "out" /\ p = Result(x.session, h, ok)
    BY <1>1, <1>3, <1>5, <2>2, OtherHost DEF Result, Tells
  <2> QED
    BY <2>1, <2>2
<1>11. Commits'
  BY <1>1, <1>3, <1>6, <1>7 DEF IInv, Commits
<1>12. Trusts'
  <2> SUFFICES ASSUME NEW k \in Hosts, NEW s \in Sessions, TrustedAnywhere(k, s)'
               PROVE  /\ Agreed(s)'
                      /\ ghost'.owner[s] # k =>
                           <<s, ghost'.owner[s]>> \in ghost'.committed
    BY DEF Trusts
  <2>1. TrustedAnywhere(k, s) \/ (k = h /\ s = x.session)
    BY <1>1, <1>2 DEF TrustedAnywhere, CommitResult, Types, TypeOK
  <2>2. CASE TrustedAnywhere(k, s)
    BY <1>3, <1>6, <2>2 DEF IInv, Trusts
  <2>3. CASE k = h /\ s = x.session
    BY <1>1, <1>3, <1>7, <2>3, OtherHost
  <2> QED
    BY <2>1, <2>2, <2>3
<1>13. PrimaryIsMemory'
  <2> SUFFICES ASSUME NEW k \in Hosts
               PROVE  ghost'.apart[k] \/ Loaded(k, TRUE)' = memory'[k]
    BY DEF PrimaryIsMemory
  <2>1. CASE k # h
    BY <1>2, <1>3, <2>1 DEF IInv, PrimaryIsMemory, Loaded, CommitResult, Types, TypeOK,
                            GhostType, Ghosts
  <2>2. CASE k = h
    <3>1. /\ disk'[h] = d
          /\ memory'[h] = IF ok THEN x.session ELSE memory[h]
          /\ ghost'.apart[h] = apart
      BY <1>1, <1>2, <1>3 DEF CommitResult, Types, TypeOK, GhostType, Ghosts
    <3>2. CASE apart
      BY <2>2, <3>1, <3>2
    <3>3. CASE d.primary = IF ok THEN x.session ELSE memory[h]
      BY <1>1, <2>2, <3>1, <3>3, RecordKinds DEF Loaded, Types, TypeOK
    <3>4. CASE ~ok /\ d.primary = disk[h].primary /\ ~ghost.apart[h]
      BY <1>1, <2>2, <3>1, <3>4, RecordKinds DEF IInv, PrimaryIsMemory, Loaded
    <3> QED
      BY <1>2, <3>2, <3>3, <3>4 DEF CommitResult
  <2> QED
    BY <2>1, <2>2
<1>14. NoHiddenSession'
  BY <1>8 DEF IInv, NoHiddenSession
<1> QED
  BY <1>4, <1>9, <1>10, <1>11, <1>12, <1>13, <1>14 DEF IInv

-----------------------------------------------------------------------------
(* Steps that leave the stores alone: the manager of h moves on to y.       *)
LEMMA MoveKeeps ==
    ASSUME IInv, NEW h \in Hosts, NEW y \in Manager,
           m' = [m EXCEPT ![h] = y], Role(h, y)',
           memory[h] = Unusable => y.role = "none",
           y.manual # "none" => y.sm \notin Live,
           net \subseteq net', net' \subseteq Messages,
           \A p \in net' : p \in net \/ Tells(p)',
           next <= next', next' \in 1 .. MaxSessions + 1,
           ghost' \in Ghosts, ghost.seen \subseteq ghost'.seen,
           ghost'.committed = ghost.committed, ghost'.apart = ghost.apart,
           \A k \in Hosts : ghost.acted[k] => ghost'.acted[k],
           \A s \in Sessions : s < next => ghost'.owner[s] = ghost.owner[s],
           UNCHANGED <<memory, disk, clock, skew>>
    PROVE  IInv'
<1>1. Types /\ next \in Nat /\ next' \in Nat
  BY DEF IInv, Types, TypeOK
<1>2. Types'
  BY <1>1 DEF Types, TypeOK, GhostType
<1>3. ASSUME NEW s \in Sessions, Agreed(s) PROVE Agreed(s)'
  <2>1. s < next
    BY <1>3 DEF Agreed
  <2> QED
    BY <1>1, <1>3, <2>1, AgreedGrows
<1>4. Roles'
  <2> SUFFICES ASSUME NEW k \in Hosts PROVE Role(k, m[k])'
    BY DEF Roles
  <2>1. CASE k # h
    <3>1. PICK x \in Manager : x = m[k] /\ x = m'[k] /\ Role(k, x)
      BY <1>1, <2>1 DEF IInv, Roles, Types, TypeOK
    <3>2. Role(k, x)'
      BY <1>1, <3>1, RoleKeeps
    <3> QED
      BY <3>1, <3>2 DEF Role
  <2>2. CASE k = h
    BY <1>1, <2>2 DEF Types, TypeOK, Role
  <2> QED
    BY <2>1, <2>2
<1>5. Mail'
  <2> SUFFICES ASSUME NEW p \in net, Tells(p) PROVE Tells(p)'
    BY DEF IInv, Mail
  <2>1. p.session \in Sessions /\ p.session < next
    BY <1>1 DEF Types, TypeOK, Messages, Tells
  <2> QED
    BY <1>1, <2>1 DEF Tells, Sessions
<1>6. Commits'
  BY <1>3 DEF IInv, Commits
<1>7. Trusts'
  BY <1>3 DEF IInv, Trusts, TrustedAnywhere, Agreed
<1>8. PrimaryIsMemory'
  BY DEF IInv, PrimaryIsMemory, Loaded
<1>9. NoHiddenSession'
  BY <1>1 DEF IInv, NoHiddenSession, Types, TypeOK
<1> QED
  BY <1>2, <1>4, <1>5, <1>6, <1>7, <1>8, <1>9 DEF IInv

\* Without a commit, and with the noted facts as they were.
LEMMA TurnKeeps ==
    ASSUME IInv, NEW h \in Hosts, NEW y \in Manager,
           m' = [m EXCEPT ![h] = y], Role(h, y),
           memory[h] = Unusable => y.role = "none",
           y.manual # "none" => y.sm \notin Live,
           net' = net \/ \E q \in Messages : net' = net \cup {q} /\ Tells(q),
           UNCHANGED <<memory, disk, clock, skew, next, ghost>>
    PROVE  IInv'
<1>1. /\ net \subseteq net' /\ net' \subseteq Messages
      /\ \A p \in net' : p \in net \/ Tells(p)'
  BY DEF IInv, Types, TypeOK, Tells
<1>2. Role(h, y)'
  BY <1>1 DEF Role
<1>3. next' = next /\ next \in 1 .. MaxSessions + 1 /\ ghost \in Ghosts /\ ghost' = ghost
  BY DEF IInv, Types, TypeOK, GhostType
<1>4. next <= next'
  BY <1>3, PairingAssumption
<1> QED
  BY <1>1, <1>2, <1>3, <1>4, MoveKeeps

\* A manager after the expiry that every handler looks at first.
LEMMA ExpiredKeeps ==
    ASSUME IInv, NEW h \in Hosts
    PROVE  /\ Expired(h) \in Manager
           /\ Role(h, Expired(h))
           /\ Expired(h).role = m[h].role /\ Expired(h).session = m[h].session
           /\ Expired(h).manual # "none" <=> m[h].manual # "none"
           /\ Expired(h).manual # "none" => Expired(h).sm \notin Live
<1>1. Role(h, m[h]) /\ (m[h].manual # "none" => m[h].sm \notin Live) /\ TypeOK
  BY DEF IInv, Roles, NoHiddenSession, Types
<1> DEFINE x == Expired(h)
<1>2. /\ x \in Manager
      /\ x.role = m[h].role /\ x.session = m[h].session
      /\ x.local = m[h].local /\ x.matched = m[h].matched
      /\ x.manual # "none" <=> m[h].manual # "none"
      /\ x.sm \in Live => x.sm = m[h].sm
  BY <1>1, ExpiredEffect
<1> HIDE DEF x
<1>3. Role(h, x)
  BY <1>1, <1>2 DEF Role, Live
<1> QED
  BY <1>1, <1>2, <1>3 DEF x

LEMMA StartPairingKeeps ==
    ASSUME IInv, NEW h \in Hosts, StartPairing(h)
    PROVE  IInv'
<1>1. /\ TypeOK /\ next \in Sessions /\ next' = next + 1 /\ next \in Nat
      /\ ghost \in Ghosts /\ ghost' = [ghost EXCEPT !.owner[next] = h]
      /\ Now(h) + Validity \in 0 .. MaxTime + MaxSkew + Validity
      /\ memory[h] # Unusable
  BY PairingAssumption DEF StartPairing, IInv, Types, TypeOK, GhostType, Sessions, Now
<1> DEFINE until == Now(h) + Validity
<1>2. PICK sent \in BOOLEAN :
        /\ m' = [m EXCEPT ![h] =
                   [NoManager EXCEPT !.role = "out", !.session = next,
                       !.sm = IF sent THEN "awaiting" ELSE "failed",
                       !.smSession = next, !.smExpiry = until]]
        /\ net' = IF sent THEN net \cup {Request(next, h, until)} ELSE net
  BY DEF StartPairing
<1>3. until \in Nat
  BY <1>1
<1> HIDE DEF until
<1>4. PICK y \in Manager :
        /\ m' = [m EXCEPT ![h] = y]
        /\ y.role = "out" /\ y.session = next /\ y.manual = "none" /\ ~y.matched
  <2>1. PICK e \in Live \cup Ended, n \in Manager :
          /\ e = IF sent THEN "awaiting" ELSE "failed"
          /\ n = NoManager
    <3>1. NoManager \in Manager
      BY PairingAssumption DEF Manager, NoManager
    <3> QED
      BY <3>1 DEF Live, Ended
  <2>2. next \in 0 .. MaxSessions
    BY <1>1 DEF Sessions
  <2> DEFINE y == [n EXCEPT !.role = "out", !.session = next, !.sm = e,
                       !.smSession = next, !.smExpiry = until]
  <2>3. m' = [m EXCEPT ![h] = y]
    BY <1>2, <2>1
  <2>4. n.manual = "none" /\ n.matched = FALSE
    BY <2>1 DEF NoManager
  <2>5. /\ y.role = "out" /\ y.session = next /\ y.manual = n.manual
        /\ y.matched = n.matched
    BY DEF Manager
  <2>6. y \in Manager
    BY <1>3, <2>2 DEF Manager
  <2> HIDE DEF y
  <2> QED
    BY <2>3, <2>4, <2>5, <2>6
<1>5. /\ ghost'.owner = [ghost.owner EXCEPT ![next] = h] /\ ghost' \in Ghosts
      /\ ghost'.committed = ghost.committed /\ ghost'.apart = ghost.apart
      /\ ghost'.acted = ghost.acted /\ ghost'.seen = ghost.seen
  BY <1>1 DEF Ghosts
<1>6. /\ ghost'.owner[next] = h
      /\ \A s \in Sessions : s < next => ghost'.owner[s] = ghost.owner[s]
  <2>1. ghost.owner \in [Sessions -> Hosts]
    BY <1>1 DEF Ghosts
  <2>2. next \in Sessions /\ ghost'.owner = [ghost.owner EXCEPT ![next] = h]
    BY <1>1, <1>5
  <2>3. \A s \in Sessions : s < next => s # next
    BY <1>1 DEF Sessions
  <2> QED
    BY <2>1, <2>2, <2>3
<1>7. next < next' /\ next <= next' /\ next' \in 1 .. MaxSessions + 1
  BY <1>1, PairingAssumption DEF Sessions
<1>8. Role(h, y)'
  BY <1>1, <1>4, <1>6, <1>7 DEF Role
<1>9. /\ net \subseteq net' /\ net' \subseteq Messages
      /\ \A p \in net' : p \in net \/ Tells(p)'
  <2>1. CASE net' = net
    BY <1>1, <2>1 DEF TypeOK
  <2>2. CASE net' = net \cup {Request(next, h, until)}
    <3>1. PICK q \in Messages :
            /\ q = Request(next, h, until)
            /\ q.kind = "request" /\ q.session = next /\ q.to = Other(h)
      <4>1. /\ next \in Sessions /\ Other(h) \in Hosts
            /\ until \in 0 .. MaxTime + MaxSkew + Validity
        BY <1>1, OtherHost DEF until
      <4>2. Request(next, h, until) \in Messages
        BY <4>1 DEF Request, Messages
      <4> QED
        BY <4>2 DEF Request
    <3>2. Tells(q)'
      BY <1>6, <1>7, <3>1, OtherHost DEF Tells
    <3>3. net' = net \cup {q} /\ net \subseteq Messages
      BY <1>1, <2>2, <3>1 DEF TypeOK
    <3> QED
      BY <3>1, <3>2, <3>3
  <2> QED
    BY <1>2, <2>1, <2>2
<1>10. UNCHANGED <<memory, disk, clock, skew>>
  BY DEF StartPairing
<1> QED
  BY <1>1, <1>4, <1>5, <1>6, <1>7, <1>8, <1>9, <1>10, MoveKeeps

\* A manager after one of the assignments of the handlers.
WithState(x, e)  == [x EXCEPT !.sm = e]
WithManual(x, e) == [x EXCEPT !.manual = e]

LEMMA StateIsSet ==
    ASSUME NEW x \in Manager, NEW e \in Live \cup Ended
    PROVE  LET y == WithState(x, e)
           IN /\ y \in Manager /\ y.sm = e /\ y.manual = x.manual
              /\ y.role = x.role /\ y.session = x.session /\ y.matched = x.matched
  BY DEF Manager, WithState

LEMMA ManualIsSet ==
    ASSUME NEW x \in Manager
    PROVE  LET y == WithManual(x, "rejected")
           IN /\ y \in Manager /\ y.sm = x.sm /\ y.manual = "rejected"
              /\ y.role = x.role /\ y.session = x.session /\ y.matched = x.matched
  BY DEF Manager, WithManual

LEMMA Updated ==
    ASSUME NEW x \in Manager
    PROVE  /\ \E y \in Manager :
                /\ y = [x EXCEPT !.sm = "confirming", !.matched = TRUE]
                /\ y.role = x.role /\ y.session = x.session
                /\ y.manual = x.manual /\ y.sm = "confirming"
           /\ \E y \in Manager :
                /\ y = [x EXCEPT !.local = TRUE]
                /\ y.role = x.role /\ y.session = x.session /\ y.matched = x.matched
                /\ y.manual = x.manual /\ y.sm = x.sm
<1>1. \E y \in Manager :
        /\ y = [x EXCEPT !.sm = "confirming", !.matched = TRUE]
        /\ y.role = x.role /\ y.session = x.session
        /\ y.manual = x.manual /\ y.sm = "confirming"
  <2> DEFINE y == [x EXCEPT !.sm = "confirming", !.matched = TRUE]
  <2>1. /\ y.role = x.role /\ y.session = x.session
        /\ y.manual = x.manual /\ y.sm = "confirming" /\ y \in Manager
    BY DEF Manager, Live
  <2> QED
    BY <2>1
<1>2. \E y \in Manager :
        /\ y = [x EXCEPT !.local = TRUE]
        /\ y.role = x.role /\ y.session = x.session /\ y.matched = x.matched
        /\ y.manual = x.manual /\ y.sm = x.sm
  <2> DEFINE y == [x EXCEPT !.local = TRUE]
  <2>1. /\ y.role = x.role /\ y.session = x.session /\ y.matched = x.matched
        /\ y.manual = x.manual /\ y.sm = x.sm /\ y \in Manager
    BY DEF Manager
  <2> QED
    BY <2>1
<1> QED
  BY <1>1, <1>2

-----------------------------------------------------------------------------
(* The initiator's steps.                                                   *)

\* What the users do is noted, and nothing else.
LEMMA ConfirmedEffect ==
    ASSUME Types, NEW h \in Hosts, NEW x \in Manager, x.session \in Sessions
    PROVE  /\ Confirmed(h, x) \in Ghosts
           /\ Confirmed(h, x).owner = ghost.owner
           /\ Confirmed(h, x).committed = ghost.committed
           /\ Confirmed(h, x).apart = ghost.apart
           /\ ghost.seen \subseteq Confirmed(h, x).seen
           /\ \A k \in Hosts : ghost.acted[k] => Confirmed(h, x).acted[k]
           /\ x.role = "out" /\ x.local => Confirmed(h, x).acted[h]
<1>1. ghost \in Ghosts
  BY DEF Types, GhostType
<1>2. CASE x.role = "out" /\ x.local
  BY <1>1, <1>2 DEF Confirmed, Ghosts
<1>3. CASE ~(x.role = "out" /\ x.local)
  BY <1>1, <1>3 DEF Confirmed
<1> QED
  BY <1>2, <1>3

LEMMA FinalizeOutgoingKeeps ==
    ASSUME IInv, NEW h \in Hosts, NEW x \in Manager,
           m[h].role = "out", x.role = "out", x.session = m[h].session,
           x.manual = m[h].manual, x.sm \in Live,
           x.matched => Submission(x.session, Other(h), TRUE) \in net,
           FinalizeOutgoing(h, x), UNCHANGED <<skew, next>>
    PROVE  IInv'
<1>1. /\ Types /\ Role(h, m[h]) /\ x.session \in Sessions
      /\ memory[h] # Unusable /\ x.manual = "none"
  BY DEF IInv, Roles, Role, Types, GhostType
<1>2. CASE x.local /\ x.matched
  <2>1. PICK ok \in BOOLEAN : /\ Commit(h, x, ok)
                              /\ net' = net \cup {Result(x.session, h, ok)}
    BY <1>2 DEF FinalizeOutgoing
  <2> QED
    BY <1>2, <2>1, CommitKeeps
<1>3. CASE ~(x.local /\ x.matched)
  <2>1. /\ m' = [m EXCEPT ![h] = x] /\ ghost' = Confirmed(h, x)
        /\ UNCHANGED <<memory, disk, clock, net>>
    BY <1>3 DEF FinalizeOutgoing
  <2>2. /\ ghost' \in Ghosts /\ ghost'.owner = ghost.owner
        /\ ghost'.committed = ghost.committed /\ ghost'.apart = ghost.apart
        /\ ghost.seen \subseteq ghost'.seen
        /\ \A k \in Hosts : ghost.acted[k] => ghost'.acted[k]
    BY <1>1, <2>1, ConfirmedEffect
  <2>3. next \in 1 .. MaxSessions + 1 /\ next <= next' /\ net \subseteq Messages
    BY <1>1, PairingAssumption DEF Types, TypeOK
  <2>4. Role(h, x)'
    BY <1>1, <2>1, <2>2 DEF Role
  <2> QED
    BY <1>1, <2>1, <2>2, <2>3, <2>4, MoveKeeps
<1> QED
  BY <1>2, <1>3

LEMMA ConfirmMatchingSasKeeps ==
    ASSUME IInv, NEW h \in Hosts, ConfirmMatchingSas(h)
    PROVE  IInv'
<1>1. m[h] \in Manager /\ Role(h, m[h])
  BY DEF IInv, Types, TypeOK, Roles
<1>2. PICK x \in Manager :
        /\ x = [m[h] EXCEPT !.local = TRUE]
        /\ x.role = m[h].role /\ x.session = m[h].session /\ x.sm = m[h].sm
        /\ x.manual = m[h].manual /\ x.matched = m[h].matched
  BY <1>1, Updated
<1>3. m[h].role = "out" /\ m[h].sm \in Live /\ FinalizeOutgoing(h, x)
      /\ UNCHANGED <<skew, next>>
  BY <1>2 DEF ConfirmMatchingSas
<1> QED
  BY <1>1, <1>2, <1>3, FinalizeOutgoingKeeps DEF Role

LEMMA HandleSubmissionKeeps ==
    ASSUME IInv, NEW h \in Hosts, NEW p \in net, HandleSubmission(h, p)
    PROVE  IInv'
<1>1. /\ m[h] \in Manager /\ Role(h, m[h]) /\ p \in Messages /\ Tells(p)
      /\ memory[h] = Unusable => m[h].role = "none"
  BY DEF IInv, Types, TypeOK, GhostType, Roles, Mail
<1>2. /\ p.to = h /\ p.kind = "submission" /\ m[h].session = p.session
      /\ m[h].role = "out" /\ UNCHANGED <<skew, next>>
  BY DEF HandleSubmission, Bound
<1>3. CASE p.right
  <2>1. p = Submission(m[h].session, Other(h), TRUE)
    BY <1>1, <1>2, <1>3, OtherHost DEF Messages, Submission
  <2>2. PICK x \in Manager :
          /\ x = [m[h] EXCEPT !.sm = "confirming", !.matched = TRUE]
          /\ x.role = m[h].role /\ x.session = m[h].session
          /\ x.sm = "confirming" /\ x.manual = m[h].manual
    BY <1>1, Updated
  <2>3. FinalizeOutgoing(h, x)
    BY <1>3, <2>2 DEF HandleSubmission
  <2> QED
    BY <1>2, <2>1, <2>2, <2>3, FinalizeOutgoingKeeps DEF Live
<1>4. CASE ~p.right
  <2>1. PICK y \in Manager :
          /\ y = WithState(m[h], "rejected")
          /\ y.sm = "rejected" /\ y.manual = m[h].manual
          /\ y.role = m[h].role /\ y.session = m[h].session /\ y.matched = m[h].matched
    BY <1>1, StateIsSet DEF Ended
  <2>2. Role(h, y) /\ y.manual = "none"
    BY <1>1, <1>2, <2>1 DEF Role
  <2>3. PICK q \in Messages : q = Result(p.session, h, FALSE) /\ Tells(q)
    <3>1. m[h].session \in Sessions /\ p.session < next
      BY <1>1, <1>2 DEF Role, Tells
    <3>2. Result(p.session, h, FALSE) \in Messages
      BY <1>2, <3>1, OtherHost DEF Result, Messages
    <3> QED
      BY <3>1, <3>2 DEF Result, Tells
  <2>4. /\ m' = [m EXCEPT ![h] = y] /\ net' = net \cup {q}
        /\ UNCHANGED <<memory, disk, clock, ghost>>
    BY <1>4, <2>1, <2>3 DEF HandleSubmission, WithState
  <2> QED
    BY <1>1, <1>2, <2>1, <2>2, <2>3, <2>4, TurnKeeps
<1> QED
  BY <1>3, <1>4

-----------------------------------------------------------------------------
(* The receiver's steps.                                                    *)
LEMMA HandleRequestKeeps ==
    ASSUME IInv, NEW h \in Hosts, NEW p \in net, HandleRequest(h, p)
    PROVE  IInv'
<1>1. /\ p \in Messages /\ Tells(p) /\ Types /\ memory[h] # Unusable
      /\ p.kind = "request" /\ p.to = h
      /\ UNCHANGED <<memory, disk, net, clock, skew, next, ghost>>
  BY DEF IInv, Types, TypeOK, Mail, HandleRequest
<1>2. p.session \in Sessions /\ p.session < next /\ p.expires \in Nat
  BY <1>1, PairingAssumption DEF Messages, Tells
<1>3. PICK x \in Manager :
        /\ ~HasSession(x)
        /\ m' = [m EXCEPT ![h] =
                   [x EXCEPT !.role = "in", !.session = p.session,
                             !.local = FALSE, !.matched = FALSE,
                             !.manual = "awaiting", !.manualExpiry = p.expires]]
        /\ x = Expired(h) /\ Role(h, x)
        /\ x.manual # "none" => x.sm \notin Live
  BY ExpiredKeeps DEF HandleRequest
<1> DEFINE y == [x EXCEPT !.role = "in", !.session = p.session,
                          !.local = FALSE, !.matched = FALSE,
                          !.manual = "awaiting", !.manualExpiry = p.expires]
<1>4. y.role = "in" /\ y.session = p.session /\ y.sm = x.sm /\ y \in Manager
  <2>1. PICK s \in 0 .. MaxSessions, u \in Nat : s = p.session /\ u = p.expires
    BY <1>2 DEF Sessions
  <2> DEFINE z == [x EXCEPT !.role = "in", !.session = s,
                            !.local = FALSE, !.matched = FALSE,
                            !.manual = "awaiting", !.manualExpiry = u]
  <2>2. z.role = "in" /\ z.session = s /\ z.sm = x.sm
    BY DEF Manager
  <2>3. z \in Manager
    BY DEF Manager
  <2> QED
    BY <2>1, <2>2, <2>3
<1>5. m' = [m EXCEPT ![h] = y]
  BY <1>3
<1> HIDE DEF y
<1>6. y.sm \notin Live
  BY <1>3, <1>4 DEF HasSession
<1>7. Role(h, y)
  BY <1>1, <1>2, <1>4, <1>6, OtherHost DEF Role, Tells, Live
<1> QED
  <2>1. PICK z \in Manager : z = y
    BY <1>4
  <2> QED
    BY <1>1, <1>5, <1>6, <1>7, <2>1, TurnKeeps

LEMMA SubmitDisplayedSasKeeps ==
    ASSUME IInv, NEW h \in Hosts, SubmitDisplayedSas(h)
    PROVE  IInv'
<1>1. /\ m[h] \in Manager /\ Role(h, m[h]) /\ Types
      /\ m[h].role = "in" /\ memory[h] # Unusable
      /\ UNCHANGED <<memory, disk, clock, skew, next>>
      /\ ghost \in Ghosts /\ ghost' = [ghost EXCEPT !.acted[h] = TRUE]
  BY DEF IInv, Types, TypeOK, GhostType, Roles, SubmitDisplayedSas
<1>2. m[h].session \in Sessions /\ m[h].session < next
      /\ ghost.owner[m[h].session] = Other(h)
  BY <1>1 DEF Role
<1>3. PICK right \in BOOLEAN, sent \in BOOLEAN :
        /\ m' = [m EXCEPT ![h] =
                   [@ EXCEPT !.manual = "none",
                             !.sm = IF sent THEN "confirming" ELSE "failed",
                             !.smSession = m[h].session,
                             !.smExpiry = m[h].manualExpiry]]
        /\ net' = IF sent THEN net \cup {Submission(m[h].session, h, right)} ELSE net
  BY DEF SubmitDisplayedSas
<1>4. PICK y \in Manager :
        /\ m' = [m EXCEPT ![h] = y]
        /\ y.role = "in" /\ y.session = m[h].session /\ y.manual = "none"
  <2>1. PICK x \in Manager, e \in Live \cup Ended :
          /\ x = m[h] /\ e = IF sent THEN "confirming" ELSE "failed"
    BY <1>1 DEF Live, Ended
  <2> DEFINE y == [x EXCEPT !.manual = "none", !.sm = e, !.smSession = x.session,
                            !.smExpiry = x.manualExpiry]
  <2>2. m' = [m EXCEPT ![h] = y]
    BY <1>3, <2>1
  <2>3. y.role = x.role /\ y.session = x.session /\ y.manual = "none" /\ y \in Manager
    BY DEF Manager
  <2> HIDE DEF y
  <2> QED
    BY <1>1, <2>1, <2>2, <2>3
<1>5. /\ ghost' \in Ghosts /\ ghost'.owner = ghost.owner
      /\ ghost'.committed = ghost.committed /\ ghost'.apart = ghost.apart
      /\ ghost'.seen = ghost.seen /\ ghost'.acted[h] = TRUE
      /\ \A k \in Hosts : ghost.acted[k] => ghost'.acted[k]
  BY <1>1 DEF Ghosts
<1>6. Role(h, y)'
  BY <1>1, <1>2, <1>4, <1>5 DEF Role
<1>7. /\ net \subseteq net' /\ net' \subseteq Messages
      /\ \A p \in net' : p \in net \/ Tells(p)'
  <2>1. PICK q \in Messages :
          /\ q = Submission(m[h].session, h, right)
          /\ q.kind = "submission" /\ q.session = m[h].session /\ q.to = Other(h)
    <3>1. Submission(m[h].session, h, right) \in Messages
      BY <1>2, OtherHost DEF Submission, Messages
    <3> QED
      BY <3>1 DEF Submission
  <2>2. Tells(q)'
    BY <1>1, <1>2, <1>5, <2>1 DEF Tells
  <2>3. net \subseteq Messages
    BY <1>1 DEF Types, TypeOK
  <2> QED
    BY <1>3, <2>1, <2>2, <2>3
<1>8. next <= next' /\ next' \in 1 .. MaxSessions + 1
  BY <1>1, PairingAssumption DEF Types, TypeOK
<1> QED
  BY <1>1, <1>4, <1>5, <1>6, <1>7, <1>8, MoveKeeps

LEMMA HandleResultKeeps ==
    ASSUME IInv, NEW h \in Hosts, NEW p \in net, HandleResult(h, p)
    PROVE  IInv'
<1>1. /\ p \in Messages /\ Tells(p) /\ p.to = h /\ p.kind = "result"
      /\ m[h].role = "in" /\ m[h].session = p.session
      /\ memory[h] = Unusable => m[h].role = "none"
      /\ UNCHANGED <<net, skew, next>>
  BY DEF IInv, Types, TypeOK, GhostType, Mail, HandleResult, Bound
<1>2. PICK x \in Manager :
        /\ \/ /\ ~p.accepted /\ x.manual # "none"
              /\ m' = [m EXCEPT ![h] = [x EXCEPT !.manual = "rejected"]]
              /\ UNCHANGED <<memory, disk, clock, ghost>>
           \/ /\ ~p.accepted /\ x.manual = "none" /\ x.sm = "confirming"
              /\ m' = [m EXCEPT ![h] = [x EXCEPT !.sm = "failed"]]
              /\ UNCHANGED <<memory, disk, clock, ghost>>
           \/ /\ p.accepted /\ x.sm = "confirming"
              /\ \E ok \in BOOLEAN : Commit(h, x, ok)
        /\ Role(h, x)
        /\ x.role = m[h].role /\ x.session = m[h].session
        /\ x.manual # "none" <=> m[h].manual # "none"
        /\ x.manual # "none" => x.sm \notin Live
  BY ExpiredKeeps DEF HandleResult
<1>3. CASE ~p.accepted /\ x.manual # "none"
  <2>1. PICK y \in Manager :
          /\ y = WithManual(x, "rejected")
          /\ y.sm = x.sm /\ y.manual = "rejected"
          /\ y.role = x.role /\ y.session = x.session /\ y.matched = x.matched
    BY ManualIsSet
  <2>2. m' = [m EXCEPT ![h] = y] /\ UNCHANGED <<memory, disk, clock, ghost>>
    BY <1>2, <1>3, <2>1 DEF WithManual
  <2>3. Role(h, y)
    BY <1>1, <1>2, <2>1 DEF Role
  <2> QED
    BY <1>1, <1>2, <1>3, <2>1, <2>2, <2>3, TurnKeeps
<1>4. CASE ~p.accepted /\ x.manual = "none"
  <2>1. PICK y \in Manager :
          /\ y = WithState(x, "failed")
          /\ y.sm = "failed" /\ y.manual = x.manual
          /\ y.role = x.role /\ y.session = x.session /\ y.matched = x.matched
    BY StateIsSet DEF Ended
  <2>2. m' = [m EXCEPT ![h] = y] /\ UNCHANGED <<memory, disk, clock, ghost>>
    BY <1>2, <1>4, <2>1 DEF WithState
  <2>3. Role(h, y)
    BY <1>1, <1>2, <2>1 DEF Role
  <2> QED
    BY <1>1, <1>2, <1>4, <2>1, <2>2, <2>3, TurnKeeps
<1>5. CASE p.accepted
  <2>1. PICK ok \in BOOLEAN : Commit(h, x, ok)
    BY <1>2, <1>5
  <2>2. <<x.session, Other(h)>> \in ghost.committed
    BY <1>1, <1>2, <1>5 DEF Tells
  <2> QED
    BY <1>1, <1>2, <2>1, <2>2, CommitKeeps
<1> QED
  BY <1>3, <1>4, <1>5

-----------------------------------------------------------------------------
(* The steps of either side.                                                *)
LEMMA CancelKeeps ==
    ASSUME IInv, NEW h \in Hosts, Cancel(h)
    PROVE  IInv'
<1>1. /\ m[h] \in Manager /\ Role(h, m[h]) /\ m[h].role # "none"
      /\ memory[h] = Unusable => m[h].role = "none"
      /\ m[h].manual # "none" => m[h].sm \notin Live
      /\ m \in [Hosts -> Manager]
      /\ UNCHANGED <<memory, disk, clock, skew, next, ghost>>
  BY DEF IInv, Types, TypeOK, GhostType, Roles, NoHiddenSession, Cancel
<1>2. m[h].session \in Sessions /\ m[h].session < next
  BY <1>1 DEF Role, Manager
<1>3. PICK q \in Messages : net' = net \cup {q} /\ Tells(q)
  <2>1. Result(m[h].session, h, FALSE) \in Messages
    BY <1>2, OtherHost DEF Result, Messages
  <2>2. Tells(Result(m[h].session, h, FALSE))
    BY <1>2 DEF Result, Tells
  <2> QED
    BY <2>1, <2>2 DEF Cancel
<1>4. CASE m[h].manual # "none"
  <2>1. PICK y \in Manager :
          /\ y = WithManual(m[h], "rejected")
          /\ y.sm = m[h].sm /\ y.manual = "rejected"
          /\ y.role = m[h].role /\ y.session = m[h].session /\ y.matched = m[h].matched
    BY <1>1, ManualIsSet
  <2>2. m' = [m EXCEPT ![h] = y]
    BY <1>4, <2>1 DEF Cancel, WithManual
  <2>3. Role(h, y)
    BY <1>1, <1>4, <2>1 DEF Role
  <2> QED
    BY <1>1, <1>3, <1>4, <2>1, <2>2, <2>3, TurnKeeps
<1>5. CASE m[h].manual = "none" /\ m[h].sm \in Live
  <2>1. PICK y \in Manager :
          /\ y = WithState(m[h], "rejected")
          /\ y.sm = "rejected" /\ y.manual = m[h].manual
          /\ y.role = m[h].role /\ y.session = m[h].session /\ y.matched = m[h].matched
    BY <1>1, StateIsSet DEF Ended
  <2>2. m' = [m EXCEPT ![h] = y]
    BY <1>5, <2>1 DEF Cancel, WithState
  <2>3. Role(h, y)
    BY <1>1, <1>5, <2>1 DEF Role
  <2> QED
    BY <1>1, <1>3, <1>5, <2>1, <2>2, <2>3, TurnKeeps
<1>6. CASE m[h].manual = "none" /\ m[h].sm \notin Live
  <2>1. m' = [m EXCEPT ![h] = m[h]]
    BY <1>6 DEF Cancel
  <2>2. PICK y \in Manager : y = m[h]
    BY <1>1
  <2> QED
    BY <1>1, <1>3, <2>1, <2>2, TurnKeeps
<1> QED
  BY <1>4, <1>5, <1>6

LEMMA ExpireKeeps ==
    ASSUME IInv, NEW h \in Hosts, Expire(h)
    PROVE  IInv'
<1>1. PICK y \in Manager :
        /\ y = Expired(h) /\ Role(h, y) /\ y.role = m[h].role
        /\ y.manual # "none" => y.sm \notin Live
  BY ExpiredKeeps
<1>2. /\ m' = [m EXCEPT ![h] = y]
      /\ UNCHANGED <<memory, disk, net, clock, skew, next, ghost>>
      /\ memory[h] = Unusable => m[h].role = "none"
  BY <1>1 DEF Expire, IInv, Types, GhostType
<1> QED
  BY <1>1, <1>2, TurnKeeps

LEMMA TickKeeps ==
    ASSUME IInv, Tick
    PROVE  IInv'
<1>1. Types'
  BY PairingAssumption DEF Tick, IInv, Types, TypeOK, GhostType
<1>2. Roles' /\ Mail' /\ Commits' /\ Trusts'
  BY DEF Tick, IInv, Roles, Role, Mail, Tells, Commits, Trusts, TrustedAnywhere, Agreed
<1>3. PrimaryIsMemory' /\ NoHiddenSession'
  BY DEF Tick, IInv, PrimaryIsMemory, NoHiddenSession, Loaded
<1> QED
  BY <1>1, <1>2, <1>3 DEF IInv

-----------------------------------------------------------------------------
(* Steps that only rewrite the stores of h, to the records r and d.         *)
LEMMA StoresKeep ==
    ASSUME IInv, NEW h \in Hosts, NEW d \in Disks, NEW r \in Records \cup {Unusable},
           disk' = [disk EXCEPT ![h] = d], memory' = [memory EXCEPT ![h] = r],
           \A s \in Sessions \cap {r, d.primary, d.backup} : TrustedAnywhere(h, s),
           m' \in [Hosts -> Manager], m'[h] = NoManager \/ (m'[h] = m[h] /\ r # Unusable),
           \A k \in Hosts : k # h => m'[k] = m[k],
           ghost' \in Ghosts, ghost'.owner = ghost.owner, ghost'.seen = ghost.seen,
           ghost'.committed = ghost.committed,
           \A k \in Hosts : k # h => /\ ghost'.acted[k] = ghost.acted[k]
                                     /\ ghost'.apart[k] = ghost.apart[k],
           m'[h].role = "in" /\ m'[h].sm = "confirming" => ghost'.acted[h],
           ghost'.apart[h] \/ Loaded(h, TRUE)' = r,
           UNCHANGED <<net, clock, skew, next>>
    PROVE  IInv'
<1>1. /\ NoManager.role = "none" /\ NoManager.manual = "none" /\ NoManager.sm \notin Live
      /\ Types
  BY DEF NoManager, Live, IInv
<1>2. /\ disk'[h] = d /\ memory'[h] = r
      /\ \A k \in Hosts : k # h => disk'[k] = disk[k] /\ memory'[k] = memory[k]
  BY <1>1 DEF Types, TypeOK
<1>3. Types'
  <2>1. /\ memory' \in [Hosts -> Records \cup {Unusable}]
        /\ disk' \in [Hosts -> [primary: Records \cup {Missing},
                                backup:  Records \cup {Missing}]]
    BY <1>1 DEF Types, TypeOK, Disks
  <2>2. \A k \in Hosts : memory'[k] = Unusable => m'[k].role = "none"
    BY <1>1, <1>2 DEF Types, GhostType
  <2> QED
    BY <1>1, <2>1, <2>2 DEF Types, TypeOK, GhostType
<1>4. ASSUME NEW s \in Sessions, Agreed(s) PROVE Agreed(s)'
  BY <1>4 DEF Agreed
<1>5. Roles'
  <2> SUFFICES ASSUME NEW k \in Hosts PROVE Role(k, m[k])'
    BY DEF Roles
  <2>1. CASE k # h
    <3>1. m'[k] = m[k] /\ Role(k, m[k])
      BY <2>1 DEF IInv, Roles
    <3> QED
      BY <2>1, <3>1 DEF Role
  <2>2. CASE k = h /\ m'[h] = m[h]
    <3>1. Role(h, m[h])
      BY DEF IInv, Roles
    <3> QED
      BY <2>2, <3>1 DEF Role
  <2>3. CASE k = h /\ m'[h] = NoManager
    BY <1>1, <2>3 DEF Role
  <2> QED
    BY <2>1, <2>2, <2>3
<1>6. Mail'
  BY DEF IInv, Mail, Tells
<1>7. Commits'
  BY <1>4 DEF IInv, Commits
<1>8. Trusts'
  <2> SUFFICES ASSUME NEW k \in Hosts, NEW s \in Sessions, TrustedAnywhere(k, s)'
               PROVE  TrustedAnywhere(k, s)
    BY <1>4 DEF IInv, Trusts
  <2> QED
    BY <1>2 DEF TrustedAnywhere
<1>9. PrimaryIsMemory'
  BY <1>2 DEF IInv, PrimaryIsMemory, Loaded
<1>10. NoHiddenSession'
  BY <1>1 DEF IInv, NoHiddenSession
<1> QED
  BY <1>3, <1>5, <1>6, <1>7, <1>8, <1>9, <1>10 DEF IInv

LEMMA RevokeKeeps ==
    ASSUME IInv, NEW h \in Hosts, Revoke(h)
    PROVE  IInv'
<1>1. /\ Types /\ UNCHANGED <<m, net, clock, skew, next>>
      /\ Role(h, m[h]) /\ (m[h].manual # "none" => m[h].sm \notin Live)
      /\ memory' = [memory EXCEPT ![h] = Revoked]
      /\ ghost \in Ghosts
      /\ ghost' = [ghost EXCEPT !.apart[h] = FALSE, !.acted[h] = HasSession(m[h])]
  BY DEF Revoke, IInv, Types, GhostType, Roles, NoHiddenSession
<1>2. PICK backup \in BOOLEAN :
        disk' = [disk EXCEPT ![h] = Saved(@, Revoked, TRUE, backup)]
  BY DEF Revoke
<1>3. PICK d \in Disks :
        /\ disk' = [disk EXCEPT ![h] = d] /\ d.primary = Revoked
        /\ d.backup \in {Revoked, disk[h].backup}
  <2> DEFINE d == Saved(disk[h], Revoked, TRUE, backup)
  <2>1. disk[h] \in Disks /\ Revoked \in Records
    BY <1>1, RecordKinds DEF Types, TypeOK, Disks
  <2>2. d \in Disks /\ d.primary = Revoked /\ d.backup \in {Revoked, disk[h].backup}
    BY <2>1 DEF Saved, Disks
  <2>3. disk' = [disk EXCEPT ![h] = d]
    BY <1>2
  <2> HIDE DEF d
  <2> QED
    BY <2>2, <2>3
<1>4. \A s \in Sessions \cap {Revoked, d.primary, d.backup} : TrustedAnywhere(h, s)
  BY <1>3, RecordKinds DEF TrustedAnywhere
<1>5. PICK busy \in BOOLEAN :
        /\ busy = HasSession(m[h])
        /\ ghost' = [ghost EXCEPT !.apart[h] = FALSE, !.acted[h] = busy]
  <2>1. HasSession(m[h]) \in BOOLEAN
    <3>1. CASE m[h].manual = "none"
      BY <3>1 DEF HasSession
    <3>2. CASE m[h].manual # "none"
      BY <3>2 DEF HasSession
    <3> QED
      BY <3>1, <3>2
  <2> QED
    BY <1>1, <2>1
<1>6. /\ ghost' \in Ghosts /\ ghost'.owner = ghost.owner /\ ghost'.seen = ghost.seen
      /\ ghost'.committed = ghost.committed
      /\ \A k \in Hosts : k # h => /\ ghost'.acted[k] = ghost.acted[k]
                                   /\ ghost'.apart[k] = ghost.apart[k]
      /\ ghost'.acted[h] = busy
  <2>1. PICK g \in Ghosts : g = ghost
    BY <1>1
  <2>2. ghost' = [g EXCEPT !.apart[h] = FALSE, !.acted[h] = busy]
    BY <1>5, <2>1
  <2>3. /\ ghost'.owner = g.owner /\ ghost'.seen = g.seen
        /\ ghost'.committed = g.committed
        /\ ghost'.apart = [g.apart EXCEPT ![h] = FALSE]
        /\ ghost'.acted = [g.acted EXCEPT ![h] = busy]
    BY <2>2 DEF Ghosts
  <2>4. ghost' \in Ghosts
    BY <2>2 DEF Ghosts
  <2> QED
    BY <2>1, <2>3, <2>4 DEF Ghosts
<1>7. m'[h].role = "in" /\ m'[h].sm = "confirming" => ghost'.acted[h]
  BY <1>1, <1>5, <1>6 DEF HasSession, Live
<1>8. Loaded(h, TRUE)' = Revoked
  BY <1>1, <1>3, RecordKinds DEF Types, TypeOK, Loaded
<1>9. /\ m' \in [Hosts -> Manager] /\ m'[h] = m[h] /\ Revoked # Unusable
      /\ \A k \in Hosts : k # h => m'[k] = m[k]
      /\ Revoked \in Records \cup {Unusable}
  BY <1>1, RecordKinds DEF Types, TypeOK
<1> QED
  BY <1>1, <1>3, <1>4, <1>6, <1>7, <1>8, <1>9, StoresKeep

LEMMA SetAutoAcceptFilesKeeps ==
    ASSUME IInv, NEW h \in Hosts, SetAutoAcceptFiles(h)
    PROVE  IInv'
<1>1. /\ Types /\ UNCHANGED <<m, memory, net, clock, skew, next>>
      /\ Role(h, m[h]) /\ memory[h] \in Sessions /\ ghost \in Ghosts
      /\ ghost.apart[h] \/ Loaded(h, TRUE) = memory[h]
  BY DEF SetAutoAcceptFiles, IInv, Types, GhostType, Roles, PrimaryIsMemory
<1>2. PICK primary, backup, again, againBackup \in BOOLEAN :
        /\ disk' = [disk EXCEPT ![h] =
                      IF primary THEN Saved(@, memory[h], primary, backup)
                      ELSE Saved(@, memory[h], again, againBackup)]
        /\ ghost' = [ghost EXCEPT !.apart[h] = @ /\ ~primary /\ ~again]
  BY DEF SetAutoAcceptFiles
<1>3. PICK d \in Disks :
        /\ disk' = [disk EXCEPT ![h] = d]
        /\ {d.primary, d.backup} \subseteq {memory[h], disk[h].primary, disk[h].backup}
        /\ IF primary \/ again THEN d.primary = memory[h] ELSE d = disk[h]
  <2> DEFINE d == IF primary THEN Saved(disk[h], memory[h], primary, backup)
                  ELSE Saved(disk[h], memory[h], again, againBackup)
  <2>1. disk[h] \in Disks /\ memory[h] \in Records
    BY <1>1, RecordKinds DEF Types, TypeOK, Disks
  <2>2. /\ d \in Disks
        /\ {d.primary, d.backup} \subseteq {memory[h], disk[h].primary, disk[h].backup}
        /\ IF primary \/ again THEN d.primary = memory[h] ELSE d = disk[h]
    BY <2>1 DEF Saved, Disks
  <2>3. disk' = [disk EXCEPT ![h] = d]
    BY <1>2
  <2> HIDE DEF d
  <2> QED
    BY <2>2, <2>3
<1>4. PICK apart \in BOOLEAN :
        /\ apart = (ghost.apart[h] /\ ~primary /\ ~again)
        /\ ghost' = [ghost EXCEPT !.apart[h] = apart]
  BY <1>2
<1>5. /\ ghost' \in Ghosts /\ ghost'.owner = ghost.owner /\ ghost'.seen = ghost.seen
      /\ ghost'.committed = ghost.committed /\ ghost'.acted = ghost.acted
      /\ \A k \in Hosts : k # h => ghost'.apart[k] = ghost.apart[k]
      /\ ghost'.apart[h] = apart
  BY <1>1, <1>4 DEF Ghosts
<1>6. \A s \in Sessions \cap {memory[h], d.primary, d.backup} : TrustedAnywhere(h, s)
  BY <1>3 DEF TrustedAnywhere
<1>7. m'[h].role = "in" /\ m'[h].sm = "confirming" => ghost'.acted[h]
  BY <1>1, <1>5 DEF Role
<1>8. ghost'.apart[h] \/ Loaded(h, TRUE)' = memory[h]
  <2>1. disk'[h] = d
    BY <1>1, <1>3 DEF Types, TypeOK
  <2>2. CASE primary \/ again
    BY <1>1, <1>3, <2>1, <2>2, RecordKinds DEF Loaded
  <2>3. CASE ~primary /\ ~again
    BY <1>1, <1>3, <1>4, <1>5, <2>1, <2>3 DEF Loaded
  <2> QED
    BY <2>2, <2>3
<1>9. /\ m' \in [Hosts -> Manager] /\ m'[h] = m[h] /\ memory[h] # Unusable
      /\ \A k \in Hosts : k # h => m'[k] = m[k]
      /\ memory' = [memory EXCEPT ![h] = memory[h]]
  BY <1>1, RecordKinds DEF Types, TypeOK
<1>10. PICK r \in Records \cup {Unusable} : r = memory[h]
  BY <1>1 DEF Types, TypeOK
<1>11. /\ memory' = [memory EXCEPT ![h] = r] /\ m'[h] = m[h] /\ r # Unusable
       /\ \A s \in Sessions \cap {r, d.primary, d.backup} : TrustedAnywhere(h, s)
       /\ ghost'.apart[h] \/ Loaded(h, TRUE)' = r
  BY <1>6, <1>8, <1>9, <1>10
<1>12. disk' = [disk EXCEPT ![h] = d] /\ UNCHANGED <<net, clock, skew, next>>
  BY <1>1, <1>3
<1>13. /\ m' \in [Hosts -> Manager] /\ \A k \in Hosts : k # h => m'[k] = m[k]
       /\ ghost' \in Ghosts /\ ghost'.owner = ghost.owner /\ ghost'.seen = ghost.seen
       /\ ghost'.committed = ghost.committed
       /\ \A k \in Hosts : k # h => /\ ghost'.acted[k] = ghost.acted[k]
                                 /\ ghost'.apart[k] = ghost.apart[k]
  BY <1>5, <1>9
<1> QED
  BY ONLY IInv, <1>7, <1>11, <1>12, <1>13, StoresKeep

LEMMA RestartKeeps ==
    ASSUME IInv, NEW h \in Hosts, Restart(h)
    PROVE  IInv'
<1>1. /\ Types /\ UNCHANGED <<disk, net, clock, skew, next>> /\ ghost \in Ghosts
      /\ m' = [m EXCEPT ![h] = NoManager]
  BY DEF Restart, IInv, Types, GhostType
<1>2. PICK readable \in BOOLEAN :
        /\ memory' = [memory EXCEPT ![h] = Loaded(h, readable)]
        /\ ghost' = [ghost EXCEPT !.apart[h] = Loaded(h, readable) # Loaded(h, TRUE)]
  BY DEF Restart
<1>3. PICK d \in Disks : d = disk[h]
  BY <1>1 DEF Types, TypeOK, Disks
<1>4. PICK r \in Records \cup {Unusable} :
        r = Loaded(h, readable) /\ r \in {NoRecord, d.primary, d.backup, Unusable}
  BY <1>3, RecordKinds DEF Loaded, Disks
<1>5. PICK apart \in BOOLEAN : apart = (r # Loaded(h, TRUE))
  OBVIOUS
<1>6. /\ ghost' \in Ghosts /\ ghost'.owner = ghost.owner /\ ghost'.seen = ghost.seen
      /\ ghost'.committed = ghost.committed /\ ghost'.acted = ghost.acted
      /\ \A k \in Hosts : k # h => ghost'.apart[k] = ghost.apart[k]
      /\ ghost'.apart[h] = apart
  <2>1. ghost' = [ghost EXCEPT !.apart[h] = apart]
    BY <1>2, <1>4, <1>5
  <2> QED
    BY <1>1, <2>1 DEF Ghosts
<1>7. \A s \in Sessions \cap {r, d.primary, d.backup} : TrustedAnywhere(h, s)
  BY <1>3, <1>4, RecordKinds DEF TrustedAnywhere
<1>8. /\ NoManager \in Manager /\ NoManager.role = "none"
      /\ m' \in [Hosts -> Manager] /\ m'[h] = NoManager
      /\ \A k \in Hosts : k # h => m'[k] = m[k]
  <2>1. NoManager \in Manager /\ NoManager.role = "none"
    BY PairingAssumption DEF NoManager, Manager
  <2> QED
    BY <1>1, <2>1 DEF Types, TypeOK
<1>9. ghost'.apart[h] \/ Loaded(h, TRUE)' = r
  BY <1>1, <1>5, <1>6 DEF Loaded
<1>10. disk' = [disk EXCEPT ![h] = d] /\ memory' = [memory EXCEPT ![h] = r]
  BY <1>1, <1>2, <1>3, <1>4 DEF Types, TypeOK
<1> QED
  BY <1>1, <1>3, <1>6, <1>7, <1>8, <1>9, <1>10, StoresKeep

-----------------------------------------------------------------------------
(* The invariant, and what follows from it.                                 *)
LEMMA InitEstablishes == Init => IInv
<1> SUFFICES ASSUME Init PROVE IInv
  OBVIOUS
<1>1. /\ NoManager \in Manager /\ NoManager.role = "none"
      /\ NoManager.manual = "none" /\ NoManager.sm \notin Live
  BY PairingAssumption DEF NoManager, Manager, Live
<1>2. \E h \in Hosts : TRUE
  BY PairingAssumption
<1>3. ghost \in Ghosts
  <2>1. (CHOOSE h \in Hosts : TRUE) \in Hosts
    BY <1>2
  <2> QED
    BY <2>1 DEF Init, Ghosts
<1>4. Types
  <2>1. m \in [Hosts -> Manager] /\ net \subseteq Messages
    BY <1>1 DEF Init
  <2>2. /\ memory \in [Hosts -> Records \cup {Unusable}]
        /\ disk \in [Hosts -> [primary: Records \cup {Missing},
                               backup:  Records \cup {Missing}]]
    BY RecordKinds DEF Init
  <2>3. /\ clock \in 0 .. MaxTime /\ next \in 1 .. MaxSessions + 1
        /\ skew \in [Hosts -> 0 .. MaxSkew]
    BY PairingAssumption DEF Init
  <2>4. \A h \in Hosts : memory[h] # Unusable
    BY RecordKinds DEF Init
  <2> QED
    BY <1>3, <2>1, <2>2, <2>3, <2>4 DEF Types, TypeOK, GhostType
<1>5. Roles /\ NoHiddenSession
  BY <1>1 DEF Init, Roles, Role, NoHiddenSession
<1>6. Mail /\ Commits
  BY DEF Init, Mail, Commits
<1>7. Trusts
  BY RecordKinds DEF Init, Trusts, TrustedAnywhere
<1>8. PrimaryIsMemory
  BY RecordKinds DEF Init, PrimaryIsMemory, Loaded
<1> QED
  BY <1>4, <1>5, <1>6, <1>7, <1>8 DEF IInv

LEMMA StepKeeps == IInv /\ [Next]_vars => IInv'
<1> SUFFICES ASSUME IInv, [Next]_vars PROVE IInv'
  OBVIOUS
<1>1. CASE UNCHANGED vars
  <2>1. Types' /\ Roles' /\ Mail' /\ Commits' /\ Trusts'
    BY <1>1 DEF vars, IInv, Types, TypeOK, GhostType, Roles, Role, Mail, Tells, Commits,
                Trusts, TrustedAnywhere, Agreed
  <2>2. PrimaryIsMemory' /\ NoHiddenSession'
    BY <1>1 DEF vars, IInv, PrimaryIsMemory, NoHiddenSession, Loaded
  <2> QED
    BY <2>1, <2>2 DEF IInv
<1>2. CASE Tick
  BY <1>2, TickKeeps
<1>3. ASSUME NEW h \in Hosts, HostNext(h) PROVE IInv'
  <2>1. CASE StartPairing(h)
    BY <2>1, StartPairingKeeps
  <2>2. CASE ConfirmMatchingSas(h)
    BY <2>2, ConfirmMatchingSasKeeps
  <2>3. CASE SubmitDisplayedSas(h)
    BY <2>3, SubmitDisplayedSasKeeps
  <2>4. CASE Cancel(h)
    BY <2>4, CancelKeeps
  <2>5. CASE Expire(h)
    BY <2>5, ExpireKeeps
  <2>6. CASE Revoke(h)
    BY <2>6, RevokeKeeps
  <2>7. CASE SetAutoAcceptFiles(h)
    BY <2>7, SetAutoAcceptFilesKeeps
  <2>8. CASE Restart(h)
    BY <2>8, RestartKeeps
  <2>9. ASSUME NEW p \in net,
               HandleRequest(h, p) \/ HandleSubmission(h, p) \/ HandleResult(h, p)
        PROVE  IInv'
    BY <2>9, HandleRequestKeeps, HandleSubmissionKeeps, HandleResultKeeps
  <2> QED
    BY <1>3, <2>1, <2>2, <2>3, <2>4, <2>5, <2>6, <2>7, <2>8, <2>9 DEF HostNext
<1> QED
  BY <1>1, <1>2, <1>3 DEF Next

\* Every reachable state has the invariant.
THEOREM Invariance == Spec => []IInv
<1>1. Init => IInv
  BY InitEstablishes
<1>2. IInv /\ [Next]_vars => IInv'
  BY StepKeeps
<1> QED
  BY <1>1, <1>2, PTL DEF Spec

\* The managers, stores, datagrams and clocks only take values the code gives
\* them.
THEOREM TypeCorrect == Spec => []TypeOK
<1>1. IInv => TypeOK
  BY DEF IInv, Types
<1> QED
  BY <1>1, Invariance, PTL

\* Trust in a session, in memory or in a file, needs both users
\* (PairingManager::finalizeOutgoing, handleResult).
THEOREM TrustFollowsBothUsers == Spec => []TrustNeedsBothUsers
<1>1. IInv => TrustNeedsBothUsers
  BY DEF IInv, Trusts, Agreed, TrustNeedsBothUsers
<1> QED
  BY <1>1, Invariance, PTL

\* The receiver stores its trust only after the initiator has completed its
\* own commit (PairingManager::handleResult against finalizeOutgoing).
THEOREM ReceiverTrustsLast == Spec => []InitiatorCommitsFirst
<1>1. IInv => InitiatorCommitsFirst
  BY DEF IInv, Trusts, InitiatorCommitsFirst
<1> QED
  BY <1>1, Invariance, PTL

\* The file holds what memory holds unless an undo failed or the file could
\* not be read (PairingTrustCommitter::commit, PairingManager::revoke).
THEOREM FileFollowsMemory == Spec => []PrimaryIsMemory
<1>1. IInv => PrimaryIsMemory
  BY DEF IInv
<1> QED
  BY <1>1, Invariance, PTL

\* The manual snapshot never hides a running session from its expiry
\* (PairingManager::handleRequest, expireIfNeeded).
THEOREM SnapshotHidesNothing == Spec => []NoHiddenSession
<1>1. IInv => NoHiddenSession
  BY DEF IInv
<1> QED
  BY <1>1, Invariance, PTL

-----------------------------------------------------------------------------
(* What is revoked stays revoked.                                           *)

\* A commit of h follows an act of its user, and is no other host's.
LEMMA CommitFollowsAct ==
    ASSUME Types, NEW h \in Hosts, NEW x \in Manager, x.session \in Sessions,
           memory[h] # Unusable, (x.role = "out" /\ x.local) \/ ghost.acted[h],
           NEW ok \in BOOLEAN, Commit(h, x, ok)
    PROVE  ghost'.acted[h] /\ \A k \in Hosts : k # h => memory'[k] = memory[k]
<1>1. PICK e \in Ended, d \in Disks, apart \in BOOLEAN :
        CommitResult(h, x, ok, e, d, apart)
  BY CommitEffect
<1>2. Confirmed(h, x).acted[h] /\ Confirmed(h, x) \in Ghosts
  BY ConfirmedEffect
<1>3. PICK g \in Ghosts : g = Confirmed(h, x)
  BY <1>2
<1>4. ghost' = [g EXCEPT !.apart[h] = apart,
                  !.committed = IF ok THEN @ \cup {<<x.session, h>>} ELSE @]
  BY <1>1, <1>3 DEF CommitResult
<1>5. ghost'.acted = g.acted
  BY <1>4 DEF Ghosts
<1>6. memory' = [memory EXCEPT ![h] = IF ok THEN x.session ELSE memory[h]]
  BY <1>1 DEF CommitResult
<1> QED
  BY <1>2, <1>3, <1>5, <1>6 DEF Types, TypeOK

\* Trust appears in the memory of h only by a commit of h after its user acted,
\* or by a restart.
LEMMA TrustAppears ==
    ASSUME IInv, NEW h \in Hosts, HostNext(h), ~Restart(h), NEW k \in Hosts,
           memory[k] = Revoked, memory'[k] \in Sessions
    PROVE  k = h /\ ghost'.acted[h]
<1>1. /\ Types /\ Role(h, m[h]) /\ m[h] \in Manager /\ memory \in [Hosts -> Records \cup {Unusable}]
      /\ memory[h] = Unusable => m[h].role = "none"
      /\ memory[k] \notin Sessions
  BY RecordKinds DEF IInv, Types, TypeOK, GhostType, Roles
<1>2. ~ UNCHANGED memory
  BY <1>1
<1>3. ASSUME NEW x \in Manager, x.role = m[h].role, x.session = m[h].session,
             x.role \in {"out", "in"},
             (x.role = "out" /\ x.local) \/ ghost.acted[h],
             NEW ok \in BOOLEAN, Commit(h, x, ok)
      PROVE  k = h /\ ghost'.acted[h]
  <2>1. x.session \in Sessions /\ memory[h] # Unusable
    BY <1>1, <1>3 DEF Role
  <2>2. ghost'.acted[h] /\ \A j \in Hosts : j # h => memory'[j] = memory[j]
    BY <1>1, <1>3, <2>1, CommitFollowsAct
  <2> QED
    BY <1>1, <2>2
<1>4. ASSUME NEW x \in Manager, x.role = m[h].role, x.session = m[h].session,
             x.role = "out", FinalizeOutgoing(h, x)
      PROVE  k = h /\ ghost'.acted[h]
  <2>1. PICK ok \in BOOLEAN : Commit(h, x, ok) /\ x.local
    BY <1>2, <1>4 DEF FinalizeOutgoing
  <2> QED
    BY <1>3, <1>4, <2>1
<1>5. CASE ConfirmMatchingSas(h)
  <2>1. PICK x \in Manager : /\ x = [m[h] EXCEPT !.local = TRUE]
                             /\ x.role = m[h].role /\ x.session = m[h].session
    BY <1>1, Updated
  <2> QED
    BY <1>4, <1>5, <2>1 DEF ConfirmMatchingSas
<1>6. ASSUME NEW p \in net, HandleSubmission(h, p)
      PROVE  k = h /\ ghost'.acted[h]
  <2>1. PICK x \in Manager :
          /\ x = [m[h] EXCEPT !.sm = "confirming", !.matched = TRUE]
          /\ x.role = m[h].role /\ x.session = m[h].session
    BY <1>1, Updated
  <2>2. m[h].role = "out" /\ FinalizeOutgoing(h, x)
    BY <1>2, <1>6, <2>1 DEF HandleSubmission, Bound
  <2> QED
    BY <1>4, <2>1, <2>2
<1>7. ASSUME NEW p \in net, HandleResult(h, p)
      PROVE  k = h /\ ghost'.acted[h]
  <2>1. PICK x \in Manager, ok \in BOOLEAN :
          /\ x = Expired(h) /\ x.sm = "confirming" /\ Commit(h, x, ok)
          /\ Role(h, x) /\ x.role = m[h].role /\ x.session = m[h].session
    BY <1>2, <1>7, ExpiredKeeps DEF HandleResult
  <2>2. x.role = "in"
    BY <1>7, <2>1 DEF HandleResult, Bound
  <2>3. ghost.acted[h]
    BY <2>1, <2>2 DEF Role
  <2> QED
    BY <1>3, <2>1, <2>2, <2>3
<1>8. CASE Revoke(h)
  BY <1>1, <1>8 DEF Revoke
<1>9. CASE \/ StartPairing(h) \/ SubmitDisplayedSas(h) \/ Cancel(h) \/ Expire(h)
           \/ SetAutoAcceptFiles(h) \/ \E p \in net : HandleRequest(h, p)
  BY <1>2, <1>9 DEF StartPairing, SubmitDisplayedSas, Cancel, Expire,
                    SetAutoAcceptFiles, HandleRequest
<1> QED
  BY <1>5, <1>6, <1>7, <1>8, <1>9 DEF HostNext

\* Trust that was revoked while no pairing ran does not come back by itself,
\* except by a restart that reads a file the revocation did not reach
\* (PairingManager::revoke, handleResult, TrustedDeviceStore::load).
THEOREM RevocationIsFinal == Spec => RevocationHolds
<1> DEFINE Held == \A h \in Hosts :
                     memory[h] = Revoked /\ memory'[h] \in Sessions
                     => ghost'.acted[h] \/ disk[h] # [primary |-> Revoked, backup |-> Revoked]
<1>1. IInv /\ [Next]_vars => [Held]_vars
  <2> SUFFICES ASSUME IInv, Next, NEW k \in Hosts,
                      memory[k] = Revoked, memory'[k] \in Sessions,
                      disk[k] = [primary |-> Revoked, backup |-> Revoked]
               PROVE  ghost'.acted[k]
    OBVIOUS
  <2>1. CASE Tick
    BY <2>1, RecordKinds DEF Tick
  <2>2. ASSUME NEW h \in Hosts, HostNext(h), ~Restart(h)
        PROVE  ghost'.acted[k]
    BY <2>2, TrustAppears
  <2>3. ASSUME NEW h \in Hosts, Restart(h)
        PROVE  ghost'.acted[k]
    <3>1. PICK readable \in BOOLEAN :
            memory' = [memory EXCEPT ![h] = Loaded(h, readable)]
      BY <2>3 DEF Restart
    <3>2. memory \in [Hosts -> Records \cup {Unusable}]
      BY DEF IInv, Types, TypeOK
    <3>3. CASE k # h
      BY <3>1, <3>2, <3>3, RecordKinds
    <3>4. CASE k = h
      BY <3>1, <3>2, <3>4, RecordKinds DEF Loaded
    <3> QED
      BY <3>3, <3>4
  <2> QED
    BY <2>1, <2>2, <2>3 DEF Next
<1> QED
  BY <1>1, Invariance, PTL DEF Spec, RevocationHolds
=============================================================================
