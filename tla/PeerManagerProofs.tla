------------------------- MODULE PeerManagerProofs -------------------------
(***************************************************************************)
(* Proofs about PeerManager, for every number of ids, objects and          *)
(* bootstrap nodes, and for all lengths of the waits.                      *)
(***************************************************************************)
EXTENDS PeerManager, FiniteSetTheorems, TLAPS

-----------------------------------------------------------------------------
(* Type correctness *)

\* How far the threads are: the heartbeat and the bootstrap thread start
\* together and once, on an empty table, and no wait of the heartbeat is longer
\* than it may be.
ThreadInv ==
    /\ ~running /\ stopper = "none" => hb = "none"
    /\ hb = "none" => boot = "none" /\ \A i \in Ids : table[i] = NoObj
    /\ hb = "connect" => timer <= Timeout
    /\ hb = "sleep" => timer <= Sleep

TypeInv == TypeOK /\ ThreadInv

LEMMA TypeInit == Init => TypeInv
<1> SUFFICES ASSUME Init
             PROVE  TypeInv
  OBVIOUS
<1>1. 0 \in 0 .. Stale + 1 /\ Nodes \in 0 .. Nodes
      /\ 0 \in 0 .. (IF Timeout > Sleep THEN Timeout ELSE Sleep)
  BY PeerManagerAssumption
<1>2. TypeOK
  BY <1>1 DEF Init, TypeOK
<1> QED
  BY <1>2 DEF Init, TypeInv, ThreadInv

LEMMA TypeStep == TypeInv /\ [Next]_vars => TypeInv'
<1> SUFFICES ASSUME TypeInv, [Next]_vars
             PROVE  TypeInv'
  OBVIOUS
<1> USE DEF TypeInv, TypeOK, ThreadInv, heartbeatVars, bootVars
<1>1. ASSUME Start
      PROVE  TypeInv'
  BY <1>1 DEF Start
<1>2. ASSUME Stop
      PROVE  TypeInv'
  BY <1>2 DEF Stop
<1>3. ASSUME StopReturns
      PROVE  TypeInv'
  BY <1>3 DEF StopReturns
<1>4. ASSUME HeartbeatCheck
      PROVE  TypeInv'
  BY <1>4 DEF HeartbeatCheck
<1>5. ASSUME RemoveStalePeers
      PROVE  TypeInv'
  BY <1>5 DEF RemoveStalePeers
<1>6. ASSUME GetActivePeers
      PROVE  TypeInv'
  BY <1>6, PeerManagerAssumption DEF GetActivePeers, InTable
<1>7. ASSUME NEW o \in Objs, PingStart(o)
      PROVE  TypeInv'
  BY <1>7, PeerManagerAssumption DEF PingStart
<1>8. ASSUME PingSucceeds
      PROVE  TypeInv'
  BY <1>8, PeerManagerAssumption DEF PingSucceeds, PingEnd
<1>9. ASSUME PingFails
      PROVE  TypeInv'
  BY <1>9, PeerManagerAssumption DEF PingFails, PingEnd
<1>10. ASSUME RoundEnds
      PROVE  TypeInv'
  BY <1>10, PeerManagerAssumption DEF RoundEnds
<1>11. ASSUME Wake
      PROVE  TypeInv'
  BY <1>11, PeerManagerAssumption DEF Wake
<1>12. ASSUME BootstrapFails
      PROVE  TypeInv'
  BY <1>12, PeerManagerAssumption DEF BootstrapFails
<1>13. ASSUME NEW ids \in SUBSET Ids, BootstrapList(ids)
      PROVE  TypeInv'
  BY <1>13, PeerManagerAssumption DEF BootstrapList
<1>14. ASSUME NEW i \in Ids, NEW o \in Unused, NEW isActive \in BOOLEAN, BootstrapAdd(i, o, isActive)
      PROVE  TypeInv'
  BY <1>14, PeerManagerAssumption DEF BootstrapAdd, AddPeer, Unused
<1>15. ASSUME NEW i \in Ids, BootstrapSkip(i)
      PROVE  TypeInv'
  BY <1>15 DEF BootstrapSkip
<1>16. ASSUME BootstrapListEnds
      PROVE  TypeInv'
  BY <1>16 DEF BootstrapListEnds
<1>17. ASSUME NEW i \in Ids, RemovePeer(i)
      PROVE  TypeInv'
  BY <1>17 DEF RemovePeer
<1>18. ASSUME Tick
      PROVE  TypeInv'
  BY <1>18, PeerManagerAssumption DEF Tick
<1>19. ASSUME NEW i \in Ids, UpdatePeerFileList(i)
      PROVE  TypeInv'
  BY <1>19, PeerManagerAssumption DEF UpdatePeerFileList
<1>20. CASE UNCHANGED vars
  BY <1>20 DEF vars
<1> QED
  BY <1>1, <1>2, <1>3, <1>4, <1>5, <1>6, <1>7, <1>8, <1>9, <1>10, <1>11,
     <1>12, <1>13, <1>14, <1>15, <1>16, <1>17, <1>18, <1>19, <1>20 DEF Next,
     Heartbeat, Bootstrap

\* Every variable keeps its type in every behaviour; the heartbeat thread has a
\* pointer to a peer exactly while it pings, and its waits are bounded.
THEOREM TypeCorrect == Spec => []TypeOK
<1>1. Init => TypeInv
  BY TypeInit
<1>2. TypeInv /\ [Next]_vars => TypeInv'
  BY TypeStep
<1>3. TypeInv => TypeOK
  BY DEF TypeInv
<1> QED
  BY <1>1, <1>2, <1>3, PTL DEF Spec

-----------------------------------------------------------------------------
(* Only inactive peers are swept *)

\* What a round of the heartbeat may take: every ping may wait for its timeout.
\* With the numbers of the code, 10 s, 30 s and 5 min, it is for 27 peers.
RoundFits ==
    /\ IsFiniteSet(Ids)
    /\ Cardinality(Ids) * Timeout + Sleep <= Stale

\* Pings of this round that have not ended.
Open == Cardinality(pending) + (IF hb = "connect" THEN 1 ELSE 0)

\* The time that the ended pings, the present one and the pause can have taken,
\* which no active peer that this round does not wait for is older than.
Fresh(o) ==
    /\ hb \in {"check", "sweep", "snapshot"} =>
         age[o] <= Cardinality(Ids) * Timeout + Sleep
    /\ hb \in {"next", "connect"} /\ o \notin pending /\ o # target =>
         age[o] + Open * Timeout
           <= Cardinality(Ids) * Timeout + (IF hb = "connect" THEN timer ELSE 0)
    /\ hb = "sleep" => age[o] <= Cardinality(Ids) * Timeout + timer

RoundInv ==
    /\ IsFiniteSet(pending)
    /\ Open <= Cardinality(Ids)

FreshInv == \A i \in Ids : table[i] # NoObj /\ active[table[i]] => Fresh(table[i])

SweepInv == TypeInv /\ RoundInv /\ FreshInv

\* The table has at most one object for each id.
LEMMA FewObjects ==
    ASSUME TypeInv, IsFiniteSet(Ids), NEW S \in SUBSET InTable
    PROVE  IsFiniteSet(S) /\ Cardinality(S) <= Cardinality(Ids)
<1> DEFINE T == {table[i] : i \in Ids}
<1>1. table \in [Ids -> T]
  BY DEF TypeInv, TypeOK
<1>2. table \in Surjection(Ids, T)
  BY <1>1 DEF Surjection
<1>4. IsFiniteSet(T) /\ Cardinality(T) <= Cardinality(Ids)
  <2> HIDE DEF T
  <2> QED
    BY <1>2, FS_Surjection
<1>5. S \in SUBSET T
  BY DEF InTable
<1> HIDE DEF T
<1>6. IsFiniteSet(S) /\ Cardinality(S) <= Cardinality(T)
  BY <1>4, <1>5, FS_Subset
<1> QED
  BY <1>4, <1>6, FS_CardinalityType

\* Products of naturals.
LEMMA Times ==
    ASSUME NEW m \in Nat, NEW n \in Nat, NEW t \in Nat
    PROVE  /\ m * t \in Nat
           /\ m <= n => m * t <= n * t
           /\ (m + 1) * t = m * t + t
OBVIOUS

LEMMA RoundStep == RoundFits /\ TypeInv /\ RoundInv /\ [Next]_vars => RoundInv'
<1> SUFFICES ASSUME RoundFits, TypeInv, RoundInv, [Next]_vars
             PROVE  RoundInv'
  OBVIOUS
<1> USE DEF heartbeatVars, bootVars
<1>1. ASSUME Start
      PROVE  RoundInv'
  <2>1. pending' = pending /\ hb' # "connect" /\ hb # "connect"
    BY <1>1 DEF Start, TypeInv, ThreadInv
  <2> QED
    BY <2>1 DEF RoundInv, Open
<1>2. ASSUME Stop
      PROVE  RoundInv'
  <2>1. pending' = pending /\ (hb' = "connect" <=> hb = "connect")
    BY <1>2 DEF Stop
  <2> QED
    BY <2>1 DEF RoundInv, Open
<1>3. ASSUME StopReturns
      PROVE  RoundInv'
  <2>1. pending' = pending /\ (hb' = "connect" <=> hb = "connect")
    BY <1>3 DEF StopReturns
  <2> QED
    BY <2>1 DEF RoundInv, Open
<1>4. ASSUME HeartbeatCheck
      PROVE  RoundInv'
  <2>1. pending' = pending /\ (hb' = "connect" <=> hb = "connect")
    BY <1>4 DEF HeartbeatCheck
  <2> QED
    BY <2>1 DEF RoundInv, Open
<1>5. ASSUME RemoveStalePeers
      PROVE  RoundInv'
  <2>1. pending' = pending /\ (hb' = "connect" <=> hb = "connect")
    BY <1>5 DEF RemoveStalePeers
  <2> QED
    BY <2>1 DEF RoundInv, Open
<1>6. ASSUME GetActivePeers
      PROVE  RoundInv'
  <2>1. hb' # "connect" /\ pending' \in SUBSET InTable
    BY <1>6 DEF GetActivePeers
  <2>2. IsFiniteSet(pending') /\ Cardinality(pending') <= Cardinality(Ids)
    BY <2>1, FewObjects DEF RoundFits
  <2>3. Cardinality(pending') \in Nat
    BY <2>2, FS_CardinalityType
  <2> QED
    BY <2>1, <2>2, <2>3 DEF RoundInv, Open
<1>7. ASSUME NEW o \in Objs, PingStart(o)
      PROVE  RoundInv'
  <2>1. hb # "connect" /\ hb' = "connect" /\ pending' = pending \ {o} /\ o \in pending
    BY <1>7 DEF PingStart
  <2>2. /\ IsFiniteSet(pending') /\ Cardinality(pending') = Cardinality(pending) - 1
        /\ Cardinality(pending) \in Nat
    BY <2>1, FS_RemoveElement, FS_CardinalityType DEF RoundInv
  <2>3. Open' = Open
    BY <2>1, <2>2 DEF Open
  <2> QED
    BY <2>2, <2>3 DEF RoundInv
<1>8. ASSUME PingSucceeds
      PROVE  RoundInv'
  <2>1. hb = "connect" /\ hb' # "connect" /\ pending' = pending
    BY <1>8 DEF PingSucceeds, PingEnd
  <2>2. Cardinality(pending) \in Nat /\ Cardinality(Ids) \in Nat
    BY FS_CardinalityType DEF RoundInv, RoundFits
  <2> QED
    BY <2>1, <2>2 DEF RoundInv, Open
<1>9. ASSUME PingFails
      PROVE  RoundInv'
  <2>1. hb = "connect" /\ hb' # "connect" /\ pending' = pending
    BY <1>9 DEF PingFails, PingEnd
  <2>2. Cardinality(pending) \in Nat /\ Cardinality(Ids) \in Nat
    BY FS_CardinalityType DEF RoundInv, RoundFits
  <2> QED
    BY <2>1, <2>2 DEF RoundInv, Open
<1>10. ASSUME RoundEnds
      PROVE  RoundInv'
  <2>1. pending' = pending /\ (hb' = "connect" <=> hb = "connect")
    BY <1>10 DEF RoundEnds
  <2> QED
    BY <2>1 DEF RoundInv, Open
<1>11. ASSUME Wake
      PROVE  RoundInv'
  <2>1. pending' = pending /\ (hb' = "connect" <=> hb = "connect")
    BY <1>11 DEF Wake
  <2> QED
    BY <2>1 DEF RoundInv, Open
<1>12. ASSUME BootstrapFails
      PROVE  RoundInv'
  <2>1. pending' = pending /\ (hb' = "connect" <=> hb = "connect")
    BY <1>12 DEF BootstrapFails
  <2> QED
    BY <2>1 DEF RoundInv, Open
<1>13. ASSUME NEW ids \in SUBSET Ids, BootstrapList(ids)
      PROVE  RoundInv'
  <2>1. pending' = pending /\ (hb' = "connect" <=> hb = "connect")
    BY <1>13 DEF BootstrapList
  <2> QED
    BY <2>1 DEF RoundInv, Open
<1>14. ASSUME NEW i \in Ids, NEW o \in Unused, NEW isActive \in BOOLEAN, BootstrapAdd(i, o, isActive)
      PROVE  RoundInv'
  <2>1. pending' = pending /\ (hb' = "connect" <=> hb = "connect")
    BY <1>14 DEF BootstrapAdd
  <2> QED
    BY <2>1 DEF RoundInv, Open
<1>15. ASSUME NEW i \in Ids, BootstrapSkip(i)
      PROVE  RoundInv'
  <2>1. pending' = pending /\ (hb' = "connect" <=> hb = "connect")
    BY <1>15 DEF BootstrapSkip
  <2> QED
    BY <2>1 DEF RoundInv, Open
<1>16. ASSUME BootstrapListEnds
      PROVE  RoundInv'
  <2>1. pending' = pending /\ (hb' = "connect" <=> hb = "connect")
    BY <1>16 DEF BootstrapListEnds
  <2> QED
    BY <2>1 DEF RoundInv, Open
<1>17. ASSUME NEW i \in Ids, RemovePeer(i)
      PROVE  RoundInv'
  <2>1. pending' = pending /\ (hb' = "connect" <=> hb = "connect")
    BY <1>17 DEF RemovePeer
  <2> QED
    BY <2>1 DEF RoundInv, Open
<1>18. ASSUME Tick
      PROVE  RoundInv'
  <2>1. pending' = pending /\ (hb' = "connect" <=> hb = "connect")
    BY <1>18 DEF Tick
  <2> QED
    BY <2>1 DEF RoundInv, Open
<1>19. ASSUME NEW i \in Ids, UpdatePeerFileList(i)
      PROVE  RoundInv'
  <2>1. pending' = pending /\ (hb' = "connect" <=> hb = "connect")
    BY <1>19 DEF UpdatePeerFileList
  <2> QED
    BY <2>1 DEF RoundInv, Open
<1>20. CASE UNCHANGED vars
  <2>1. pending' = pending /\ (hb' = "connect" <=> hb = "connect")
    BY <1>20 DEF vars
  <2> QED
    BY <2>1 DEF RoundInv, Open
<1> QED
  BY <1>1, <1>2, <1>3, <1>4, <1>5, <1>6, <1>7, <1>8, <1>9, <1>10, <1>11,
     <1>12, <1>13, <1>14, <1>15, <1>16, <1>17, <1>18, <1>19, <1>20 DEF Next,
     Heartbeat, Bootstrap

LEMMA FreshStep == RoundFits /\ SweepInv /\ [Next]_vars => FreshInv'
<1> SUFFICES ASSUME RoundFits, SweepInv, [Next]_vars
             PROVE  FreshInv'
  OBVIOUS
<1> DEFINE N == Cardinality(Ids) * Timeout
           W == Open * Timeout
<1>a. /\ TypeOK /\ ThreadInv /\ RoundInv /\ FreshInv
      /\ TypeOK' /\ ThreadInv' /\ RoundInv'
  BY TypeStep, RoundStep DEF SweepInv, TypeInv
<1>b. Cardinality(Ids) \in Nat /\ Cardinality(pending) \in Nat
  BY <1>a, FS_CardinalityType DEF RoundFits, RoundInv
<1>c. /\ Timeout \in Nat /\ Sleep \in Nat /\ Stale \in Nat
      /\ N \in Nat /\ Open \in Nat /\ W \in Nat /\ W <= N
  BY <1>a, <1>b, PeerManagerAssumption, Times DEF RoundInv, Open
<1>d. SUFFICES ASSUME NEW j \in Ids, table'[j] # NoObj, active'[table'[j]]
               PROVE  Fresh(table[j])'
  BY DEF FreshInv
<1> USE DEF heartbeatVars, bootVars
<1>1. ASSUME Start
      PROVE  Fresh(table[j])'
  BY <1>1, <1>a, <1>d DEF Start, ThreadInv
<1>2. ASSUME Stop
      PROVE  Fresh(table[j])'
  <2>1. UNCHANGED <<table, active, age, hb, pending, target, timer>>
    BY <1>2 DEF Stop
  <2> QED
    BY <1>a, <1>d, <2>1 DEF FreshInv, Fresh, Open
<1>3. ASSUME StopReturns
      PROVE  Fresh(table[j])'
  <2>1. UNCHANGED <<table, active, age, hb, pending, target, timer>>
    BY <1>3 DEF StopReturns
  <2> QED
    BY <1>a, <1>d, <2>1 DEF FreshInv, Fresh, Open
<1>4. ASSUME HeartbeatCheck
      PROVE  Fresh(table[j])'
  <2>1. UNCHANGED <<table, active, age, pending, target, timer>>
    BY <1>4 DEF HeartbeatCheck
  <2>2. hb = "check" /\ hb' \in {"sweep", "exited"}
    BY <1>4 DEF HeartbeatCheck
  <2> QED
    BY <1>a, <1>d, <2>1, <2>2 DEF FreshInv, Fresh
<1>5. ASSUME RemoveStalePeers
      PROVE  Fresh(table[j])'
  <2>1. table'[j] = table[j]
    BY <1>5, <1>a, <1>d DEF RemoveStalePeers, TypeOK
  <2>2. UNCHANGED <<active, age, pending, target, timer>>
    BY <1>5 DEF RemoveStalePeers
  <2>3. hb = "sweep" /\ hb' = "snapshot"
    BY <1>5 DEF RemoveStalePeers
  <2> QED
    BY <1>a, <1>d, <2>1, <2>2, <2>3 DEF FreshInv, Fresh, Open
<1>6. ASSUME GetActivePeers
      PROVE  Fresh(table[j])'
  <2>1. table' = table /\ active' = active /\ hb' = "next"
    BY <1>6 DEF GetActivePeers
  <2>2. table[j] \in pending'
    BY <1>6, <1>d, <2>1 DEF GetActivePeers, InTable
  <2> QED
    BY <2>1, <2>2 DEF Fresh
<1>7. ASSUME NEW o \in Objs, PingStart(o)
      PROVE  Fresh(table[j])'
  <2>1. /\ UNCHANGED <<table, active, age>>
        /\ hb = "next" /\ hb' = "connect" /\ timer' = 0
        /\ o \in pending /\ pending' = pending \ {o} /\ target' = o
    BY <1>7 DEF PingStart
  <2>2. Open' = Open
    <3>1. Cardinality(pending') = Cardinality(pending) - 1
      BY <1>a, <2>1, FS_RemoveElement DEF RoundInv
    <3> QED
      BY <1>b, <2>1, <3>1 DEF Open
  <2>3. target = NoObj
    BY <1>a, <2>1 DEF TypeOK
  <2> QED
    BY <1>a, <1>c, <1>d, <2>1, <2>2, <2>3 DEF FreshInv, Fresh
<1>8. ASSUME PingSucceeds
      PROVE  Fresh(table[j])'
  <2>1. /\ UNCHANGED <<table, active, pending>>
        /\ hb = "connect" /\ hb' = "next" /\ target' = NoObj
        /\ age' = [age EXCEPT ![target] = 0]
    BY <1>8 DEF PingSucceeds, PingEnd
  <2>2. /\ Open' \in Nat /\ Open = Open' + 1 /\ Open' <= Cardinality(Ids)
    BY <1>a, <1>b, <2>1 DEF Open, RoundInv
  <2>3. Open' * Timeout \in Nat /\ Open' * Timeout <= N /\ W = Open' * Timeout + Timeout
    BY <1>b, <1>c, <2>2, Times
  <2>4. timer \in Nat /\ timer <= Timeout /\ table[j] \in Objs
    BY <1>a, <1>c, <1>d, <2>1 DEF TypeOK, ThreadInv
  <2>5. CASE table[j] = target
    <3>1. age'[table[j]] = 0
      BY <1>a, <2>1, <2>4, <2>5 DEF TypeOK
    <3> QED
      BY <1>c, <2>1, <2>3, <3>1 DEF Fresh
  <2>6. CASE table[j] # target
    <3>1. age'[table[j]] = age[table[j]] /\ age[table[j]] \in Nat
      BY <1>a, <2>1, <2>4, <2>6 DEF TypeOK
    <3>2. CASE table[j] \in pending
      BY <2>1, <3>2 DEF Fresh
    <3>3. CASE table[j] \notin pending
      <4>1. age[table[j]] + W <= N + timer
        BY <1>a, <1>d, <2>1, <2>6, <3>3 DEF FreshInv, Fresh
      <4>2. age[table[j]] + Open' * Timeout <= N
        BY <1>c, <2>3, <2>4, <3>1, <4>1
      <4> QED
        BY <1>c, <2>1, <3>1, <4>2 DEF Fresh
    <3> QED
      BY <3>2, <3>3
  <2> QED
    BY <2>5, <2>6
<1>9. ASSUME PingFails
      PROVE  Fresh(table[j])'
  <2>1. /\ UNCHANGED <<table, age, pending>>
        /\ hb = "connect" /\ hb' = "next" /\ target' = NoObj
        /\ active' = [active EXCEPT ![target] = FALSE]
    BY <1>9 DEF PingFails, PingEnd
  <2>2. /\ Open' \in Nat /\ Open = Open' + 1
    BY <1>a, <1>b, <2>1 DEF Open, RoundInv
  <2>3. Open' * Timeout \in Nat /\ W = Open' * Timeout + Timeout
    BY <1>b, <1>c, <2>2, Times
  <2>4. /\ timer \in Nat /\ timer <= Timeout /\ table[j] \in Objs
        /\ age[table[j]] \in Nat
    BY <1>a, <1>c, <1>d, <2>1 DEF TypeOK, ThreadInv
  <2>5. table[j] # target /\ active[table[j]]
    BY <1>a, <1>d, <2>1, <2>4 DEF TypeOK
  <2>6. CASE table[j] \in pending
    BY <2>1, <2>6 DEF Fresh
  <2>7. CASE table[j] \notin pending
    <3>1. age[table[j]] + W <= N + timer
      BY <1>a, <1>d, <2>1, <2>5, <2>7 DEF FreshInv, Fresh
    <3>2. age[table[j]] + Open' * Timeout <= N
      BY <1>c, <2>3, <2>4, <3>1
    <3> QED
      BY <1>c, <2>1, <3>2 DEF Fresh
  <2> QED
    BY <2>6, <2>7
<1>10. ASSUME RoundEnds
      PROVE  Fresh(table[j])'
  <2>1. /\ UNCHANGED <<table, active, age>>
        /\ hb = "next" /\ hb' = "sleep" /\ timer' = 0 /\ pending = {}
    BY <1>10 DEF RoundEnds
  <2>2. target = NoObj /\ age[table[j]] \in Nat
    BY <1>a, <1>d, <2>1 DEF TypeOK
  <2>3. age[table[j]] + W <= N
    BY <1>a, <1>c, <1>d, <2>1, <2>2 DEF FreshInv, Fresh
  <2>4. age[table[j]] <= N
    BY <1>c, <2>2, <2>3
  <2> QED
    BY <1>c, <2>1, <2>4 DEF Fresh
<1>11. ASSUME Wake
      PROVE  Fresh(table[j])'
  <2>1. /\ UNCHANGED <<table, active, age>>
        /\ hb = "sleep" /\ hb' = "check" /\ timer = Sleep
    BY <1>11 DEF Wake
  <2> QED
    BY <1>a, <1>d, <2>1 DEF FreshInv, Fresh
<1>12. ASSUME BootstrapFails
      PROVE  Fresh(table[j])'
  <2>1. UNCHANGED <<table, active, age, hb, pending, target, timer>>
    BY <1>12 DEF BootstrapFails
  <2> QED
    BY <1>a, <1>d, <2>1 DEF FreshInv, Fresh, Open
<1>13. ASSUME NEW ids \in SUBSET Ids, BootstrapList(ids)
      PROVE  Fresh(table[j])'
  <2>1. UNCHANGED <<table, active, age, hb, pending, target, timer>>
    BY <1>13 DEF BootstrapList
  <2> QED
    BY <1>a, <1>d, <2>1 DEF FreshInv, Fresh, Open
<1>14. ASSUME NEW i \in Ids, NEW o \in Unused, NEW isActive \in BOOLEAN, BootstrapAdd(i, o, isActive)
      PROVE  Fresh(table[j])'
  <2>1. /\ UNCHANGED <<hb, pending, target, timer>>
        /\ table' = [table EXCEPT ![i] = o] /\ o \in Objs
        /\ active' = [active EXCEPT ![o] = isActive]
        /\ age' = [age EXCEPT ![o] = 0]
    BY <1>14 DEF BootstrapAdd, AddPeer, Unused
  <2>2. Open' = Open /\ timer \in Nat
    BY <1>a, <1>c, <2>1 DEF Open, TypeOK
  <2>3. CASE j = i
    <3>1. table'[j] = o /\ age'[o] = 0
      BY <1>a, <2>1, <2>3 DEF TypeOK
    <3>2. 0 <= N + Sleep /\ 0 + W <= N /\ 0 + W <= N + timer /\ 0 <= N + timer
      BY <1>c, <2>2
    <3> QED
      BY <1>c, <2>1, <2>2, <3>1, <3>2 DEF Fresh
  <2>4. CASE j # i
    <3>1. table'[j] = table[j] /\ table[j] # o
      BY <1>a, <1>d, <2>1, <2>4 DEF TypeOK, Unused, InTable
    <3>2. age'[table[j]] = age[table[j]] /\ active[table[j]]
      BY <1>a, <1>d, <2>1, <3>1 DEF TypeOK
    <3>3. Fresh(table[j])
      BY <1>a, <1>d, <3>1, <3>2 DEF FreshInv
    <3> QED
      BY <2>1, <2>2, <3>1, <3>2, <3>3 DEF Fresh
  <2> QED
    BY <2>3, <2>4
<1>15. ASSUME NEW i \in Ids, BootstrapSkip(i)
      PROVE  Fresh(table[j])'
  <2>1. UNCHANGED <<table, active, age, hb, pending, target, timer>>
    BY <1>15 DEF BootstrapSkip
  <2> QED
    BY <1>a, <1>d, <2>1 DEF FreshInv, Fresh, Open
<1>16. ASSUME BootstrapListEnds
      PROVE  Fresh(table[j])'
  <2>1. UNCHANGED <<table, active, age, hb, pending, target, timer>>
    BY <1>16 DEF BootstrapListEnds
  <2> QED
    BY <1>a, <1>d, <2>1 DEF FreshInv, Fresh, Open
<1>17. ASSUME NEW i \in Ids, RemovePeer(i)
      PROVE  Fresh(table[j])'
  <2>1. table'[j] = table[j]
    BY <1>17, <1>a, <1>d DEF RemovePeer, TypeOK
  <2>2. UNCHANGED <<active, age, pending, target, timer>>
    BY <1>17 DEF RemovePeer
  <2>3. hb' = hb
    BY <1>17 DEF RemovePeer
  <2> QED
    BY <1>a, <1>d, <2>1, <2>2, <2>3 DEF FreshInv, Fresh, Open
<1>18. ASSUME Tick
      PROVE  Fresh(table[j])'
  <2>1. UNCHANGED <<table, active, hb, pending, target>>
    BY <1>18 DEF Tick
  <2>2. /\ table[j] \in Objs /\ age[table[j]] \in Nat /\ timer \in Nat
        /\ Open' = Open
    BY <1>a, <1>c, <1>d, <2>1 DEF TypeOK, Open
  <2>3. age'[table[j]] \in Nat /\ age'[table[j]] <= age[table[j]] + 1
    BY <1>18, <2>2 DEF Tick
  <2>4. Fresh(table[j])
    BY <1>a, <1>d, <2>1 DEF FreshInv
  <2>5. CASE hb \in {"none", "exited"}
    BY <2>1, <2>5 DEF Fresh
  <2>6. CASE hb = "connect"
    <3>1. timer' = timer + 1
      BY <1>18, <2>6 DEF Tick
    <3>2. CASE table[j] \in pending \/ table[j] = target
      BY <2>1, <2>6, <3>2 DEF Fresh
    <3>3. CASE table[j] \notin pending /\ table[j] # target
      <4>1. age[table[j]] + W <= N + timer
        BY <2>4, <2>6, <3>3 DEF Fresh
      <4>2. age'[table[j]] + W <= N + timer'
        BY <1>c, <2>2, <2>3, <3>1, <4>1
      <4> QED
        BY <2>1, <2>2, <2>6, <4>2 DEF Fresh
    <3> QED
      BY <3>2, <3>3
  <2>7. CASE hb = "sleep"
    <3>1. timer' = timer + 1
      BY <1>18, <2>7 DEF Tick
    <3>2. age[table[j]] <= N + timer
      BY <2>4, <2>7 DEF Fresh
    <3>3. age'[table[j]] <= N + timer'
      BY <1>c, <2>2, <2>3, <3>1, <3>2
    <3> QED
      BY <2>1, <2>7, <3>3 DEF Fresh
  <2> QED
    BY <1>18, <2>5, <2>6, <2>7 DEF Tick
<1>19. ASSUME NEW i \in Ids, UpdatePeerFileList(i)
      PROVE  Fresh(table[j])'
  <2>1. /\ UNCHANGED <<table, active, hb, pending, target, timer>>
        /\ age' = [age EXCEPT ![table[i]] = 0]
    BY <1>19 DEF UpdatePeerFileList
  <2>2. Open' = Open /\ timer \in Nat /\ table[j] \in Objs /\ age[table[j]] \in Nat
    BY <1>a, <1>c, <1>d, <2>1 DEF Open, TypeOK
  <2>3. age'[table[j]] = age[table[j]] \/ age'[table[j]] = 0
    BY <1>a, <2>1, <2>2 DEF TypeOK
  <2>4. CASE age'[table[j]] = age[table[j]]
    BY <1>a, <1>d, <2>1, <2>2, <2>4 DEF FreshInv, Fresh
  <2>5. CASE age'[table[j]] = 0
    <3>1. 0 <= N + Sleep /\ 0 + W <= N /\ 0 + W <= N + timer /\ 0 <= N + timer
      BY <1>c, <2>2
    <3> QED
      BY <1>c, <2>1, <2>2, <2>5, <3>1 DEF Fresh
  <2> QED
    BY <2>3, <2>4, <2>5
<1>20. CASE UNCHANGED vars
  <2>1. UNCHANGED <<table, active, age, hb, pending, target, timer>>
    BY <1>20 DEF vars
  <2> QED
    BY <1>a, <1>d, <2>1 DEF FreshInv, Fresh, Open
<1> QED
  BY <1>1, <1>2, <1>3, <1>4, <1>5, <1>6, <1>7, <1>8, <1>9, <1>10, <1>11,
     <1>12, <1>13, <1>14, <1>15, <1>16, <1>17, <1>18, <1>19, <1>20 DEF Next,
     Heartbeat, Bootstrap

\* As long as a round, with all its timeouts and its pause, fits into the time
\* after which a peer is stale, the sweep forgets no active peer.
THEOREM SweptCorrect ==
    ASSUME RoundFits
    PROVE  Spec => []OnlyInactiveSwept
<1>1. Init => SweepInv
  BY TypeInit, FS_EmptySet, FS_CardinalityType
     DEF Init, SweepInv, RoundInv, FreshInv, Open, RoundFits
<1>2. SweepInv /\ [Next]_vars => SweepInv'
  BY TypeStep, RoundStep, FreshStep DEF SweepInv
<1>3. SweepInv => OnlyInactiveSwept
  <2> SUFFICES ASSUME SweepInv, hb = "sweep", NEW i \in Ids,
                      table[i] # NoObj, active[table[i]]
               PROVE  age[table[i]] <= Stale
    BY DEF OnlyInactiveSwept
  <2>1. age[table[i]] <= Cardinality(Ids) * Timeout + Sleep
    BY DEF SweepInv, FreshInv, Fresh
  <2>2. /\ Cardinality(Ids) * Timeout + Sleep \in Nat /\ Stale \in Nat
        /\ age[table[i]] \in Nat
    BY FS_CardinalityType, Times, PeerManagerAssumption 
       DEF RoundFits, SweepInv, TypeInv, TypeOK
  <2> QED
    BY <2>1, <2>2 DEF RoundFits
<1> QED
  BY <1>1, <1>2, <1>3, PTL DEF Spec
=============================================================================
