-------------------------- MODULE QueuePoolProofs --------------------------
(***************************************************************************)
(* Safety of QueuePool, for every set of connections and every bound.      *)
(* The invariant PoolInv is inductive: it is proved one conjunct at a time, *)
(* and for each conjunct one action at a time.                             *)
(***************************************************************************)
EXTENDS QueuePoolTypes

-----------------------------------------------------------------------------
(***************************************************************************)
(* The inductive invariant.                                                *)
(***************************************************************************)

\* OnePlace, container by container.
Apart ==
  /\ Distinct(connections)
  /\ Distinct(recyclable_connections)
  /\ Distinct(new_connections)
  /\ ToSet(connections) \cap ToSet(recyclable_connections) = {}
  /\ (ToSet(connections) \cup ToSet(recyclable_connections))
       \cap ToSet(new_connections) = {}
  /\ (ToSet(connections) \cup ToSet(recyclable_connections)
        \cup ToSet(new_connections)) \cap (checking \cup granted \cup inflight) = {}
  /\ checking \cap (granted \cup inflight) = {}
  /\ granted \cap inflight = {}

\* What the client holds at each point of its cycle.
ClientHolds ==
  /\ pc # "checking" => checking = {}
  /\ pc # "granted" => granted = {}

\* Connections that exist stay within their allowance, and one that has used
\* it up is marked to be dropped.
Allowance ==
  /\ \A c \in Existing :
       /\ remaining_reuse[c] \in 0..KeepAlive
       /\ ~should_drop[c] => remaining_reuse[c] >= 1
  /\ \A c \in granted \cup inflight : ~should_drop[c]

\* What get_connections popped fits into a fixed-size pool while it is being
\* checked, although connections may be returned meanwhile.
PoppedFits ==
  (pc = "checking" /\ ~elastic) =>
     checking = {} \/ busy_connections + Cardinality(checking) <= max_connection

\* What a resizer that has not run was asked to remove.
Owed == IF shrinking = <<>> THEN 0 ELSE shrinking[1]

\* What the resizer may not touch, and what may still come or go.
Held == Len(connections) + Cardinality(checking) + busy_connections
Coming == Len(new_connections) + opening + failed_connection

\* Replaced, strengthened: what the resizer may not touch already fills the
\* pool, or enough is left even if the resizer removes all it was asked to.
ReplacedAnyway ==
  PromptShrink =>
    /\ Len(shrinking) <= 1
    /\ shrinking # <<>> => pc = "idle"
    /\ max_connection <= Held \/ max_connection <= Held + Coming - Owed

PoolInv ==
  /\ TypeOK
  /\ Apart
  /\ ClientHolds
  /\ BusyExact
  /\ Allowance
  /\ PoppedFits
  /\ ReplacedAnyway

\* OnePlace says of the claimed queue what Apart says of its three parts.
LEMMA ApartIsOnePlace == TypeOK => (Apart <=> OnePlace)
<1> SUFFICES ASSUME TypeOK PROVE Apart <=> OnePlace
  OBVIOUS
<1> DEFINE front == connections \o recyclable_connections
<1>1. /\ connections \in Seq(Conn)
      /\ recyclable_connections \in Seq(Conn)
      /\ new_connections \in Seq(Conn)
      /\ front \in Seq(Conn)
      /\ Claimed = front \o new_connections
  BY ConcatProperties DEF TypeOK, Claimed
<1>2. /\ ToSet(front) = ToSet(connections) \cup ToSet(recyclable_connections)
      /\ Distinct(front) <=>
           /\ Distinct(connections)
           /\ Distinct(recyclable_connections)
           /\ ToSet(connections) \cap ToSet(recyclable_connections) = {}
  BY <1>1, ConcatElements
<1> HIDE DEF front
<1>3. /\ ToSet(Claimed) = ToSet(front) \cup ToSet(new_connections)
      /\ Distinct(Claimed) <=> /\ Distinct(front)
                               /\ Distinct(new_connections)
                               /\ ToSet(front) \cap ToSet(new_connections) = {}
  BY <1>1, ConcatElements
<1>4. IsInjective(Claimed) <=> Distinct(Claimed)
  <2>1. DOMAIN Claimed = 1..Len(Claimed)
    BY EnforcedQueue, LenProperties
  <2> QED BY <2>1 DEF IsInjective, Distinct
<1> QED BY <1>2, <1>3, <1>4 DEF Apart, OnePlace

\* What get_connections leaves in the queue and what it pops: together the
\* enforced queue, a part of what was claimed.
LEMMA PopFacts ==
  ASSUME TypeOK, Apart, NEW n \in Nat, GetConnections(n)
  PROVE  LET take == Smaller(n, Len(Enforced))
         IN  /\ Distinct(connections')
             /\ ToSet(Claimed) = ToSet(connections)
                                   \cup ToSet(recyclable_connections)
                                   \cup ToSet(new_connections)
             /\ ToSet(Enforced) \subseteq ToSet(Claimed)
             /\ checking' \cup ToSet(connections') = ToSet(Enforced)
             /\ checking' \cap ToSet(connections') = {}
             /\ take \in 0..Len(Enforced)
             /\ Len(Enforced) \in Nat
             /\ Cardinality(checking') = take
             /\ Len(connections') = Len(Enforced) - take
             /\ ToSet(recyclable_connections') = {}
             /\ ToSet(new_connections') = {}
             /\ Len(recyclable_connections') = 0
             /\ Len(new_connections') = 0
             /\ Distinct(recyclable_connections')
             /\ Distinct(new_connections')
<1> DEFINE take == Smaller(n, Len(Enforced))
           front == connections \o recyclable_connections
<1>1. /\ connections \in Seq(Conn)
      /\ recyclable_connections \in Seq(Conn)
      /\ new_connections \in Seq(Conn)
      /\ front \in Seq(Conn)
      /\ Claimed = front \o new_connections
  BY ConcatProperties DEF TypeOK, Claimed
<1>2. /\ ToSet(front) = ToSet(connections) \cup ToSet(recyclable_connections)
      /\ Distinct(front)
  BY <1>1, ConcatElements DEF Apart
<1>3. /\ ToSet(Claimed) = ToSet(front) \cup ToSet(new_connections)
      /\ Distinct(Claimed)
  <2> HIDE DEF front
  <2>1. ToSet(front) \cap ToSet(new_connections) = {}
    BY <1>2 DEF Apart
  <2> QED BY <1>1, <1>2, <2>1, ConcatElements DEF Apart
<1>4. /\ Enforced \in Seq(Conn)
      /\ ToSet(Enforced) \subseteq ToSet(Claimed)
      /\ Distinct(Enforced)
      /\ Len(Enforced) \in Nat
  BY <1>3, EnforcedQueue, LenProperties
<1>5. take \in 0..Len(Enforced)
  BY <1>4 DEF Smaller
<1>6. /\ checking' = {Enforced[i] : i \in 1..take}
      /\ connections' = SubSeq(Enforced, take + 1, Len(Enforced))
      /\ recyclable_connections' = <<>>
      /\ new_connections' = <<>>
  BY DEF GetConnections, Take, Unpopped
<1>7. /\ Cardinality(checking') = take
      /\ checking' \cap ToSet(connections') = {}
      /\ checking' \cup ToSet(connections') = ToSet(Enforced)
  <2> HIDE DEF take
  <2>1. checking' = Popped(Enforced, take) /\ connections' = Rest(Enforced, take)
    BY <1>6 DEF Popped, Rest
  <2> QED BY <2>1, <1>4, <1>5, PopElements
<1>8. /\ Distinct(connections')
      /\ Len(connections') = Len(Enforced) - take
  <2>1. take + 1 \in 1..Len(Enforced) + 1
        /\ Len(Enforced) \in (take + 1) - 1..Len(Enforced)
        /\ Len(Enforced) - (take + 1) + 1 = Len(Enforced) - take
    BY <1>4, <1>5
  <2> QED BY <2>1, <1>4, <1>6, SubSeqElements
<1>9. ToSet(<<>>) = {} /\ Distinct(<<>>) /\ Len(<<>>) = 0
  BY EmptyQueue
<1> HIDE DEF take, front
<1> QED BY <1>2, <1>3, <1>4, <1>5, <1>6, <1>7, <1>8, <1>9 DEF take

\* No step puts a connection into two places.
LEMMA ApartStep == TypeOK /\ Apart /\ [Next]_vars => Apart'
<1> SUFFICES ASSUME TypeOK, Apart, [Next]_vars PROVE Apart'
  OBVIOUS
<1> USE ConnAssumption, NumberAssumption
<1>1. ASSUME NEW c \in 0..MaxCount, SetConnectionCount(c) PROVE Apart'
  <2>1. /\ connections' = LastOf(connections, c)
        /\ UNCHANGED <<recyclable_connections, new_connections, inflight, checking,
                       granted>>
    BY <1>1 DEF SetConnectionCount, clientVars
  <2>2. ToSet(connections') \subseteq ToSet(connections) /\ Distinct(connections')
    BY <2>1, KeptElements DEF TypeOK, Apart
  <2> QED BY <2>1, <2>2 DEF Apart
<1>2. ASSUME NEW n \in 1..MaxRequest, GetConnections(n) PROVE Apart'
  <2>1. n \in Nat
    OBVIOUS
  <2>2. UNCHANGED <<granted, inflight>>
    BY <1>2 DEF GetConnections
  <2> QED BY <1>2, <2>1, <2>2, PopFacts DEF Apart
<1>3. ASSUME NEW ready \in SUBSET checking, HandOut(ready) PROVE Apart'
  <2>1. /\ granted' = ready /\ checking' = {}
        /\ UNCHANGED <<connections, recyclable_connections, new_connections,
                       inflight>>
    BY <1>3 DEF HandOut
  <2> QED BY <2>1 DEF Apart
<1>4. ASSUME SendRequests PROVE Apart'
  <2>1. /\ granted' = {} /\ inflight' = inflight \cup granted
        /\ UNCHANGED <<connections, recyclable_connections, new_connections,
                       checking>>
    BY <1>4 DEF SendRequests, poolVars
  <2> QED BY <2>1 DEF Apart
<1>5. ASSUME AbandonBatch PROVE Apart'
  <2>1. /\ granted' = {}
        /\ UNCHANGED <<connections, recyclable_connections, new_connections,
                       checking, inflight>>
    BY <1>5 DEF AbandonBatch, poolVars, taskVars
  <2> QED BY <2>1 DEF Apart
<1>6. ASSUME NEW c \in inflight, NEW expired \in BOOLEAN, ReturnConnection(c, expired)
      PROVE  Apart'
  <2>1. /\ inflight' = inflight \ {c}
        /\ recyclable_connections' = Append(recyclable_connections, c)
        /\ UNCHANGED <<connections, new_connections, checking, granted>>
    BY <1>6 DEF ReturnConnection, clientVars
  <2>2. c \in Conn /\ c \notin ToSet(recyclable_connections)
    BY DEF TypeOK, Apart
  <2>3. /\ ToSet(recyclable_connections') = ToSet(recyclable_connections) \cup {c}
        /\ Distinct(recyclable_connections')
    BY <2>1, <2>2, AppendElements DEF TypeOK, Apart
  <2> QED BY <2>1, <2>3 DEF Apart
<1>7. ASSUME NEW c \in Conn, OpenSucceeds(c) PROVE Apart'
  <2>1. /\ c \notin Existing
        /\ new_connections' = Append(new_connections, c)
        /\ UNCHANGED <<connections, recyclable_connections, inflight, checking,
                       granted>>
    BY <1>7 DEF OpenSucceeds, clientVars
  <2>2. /\ ToSet(new_connections') = ToSet(new_connections) \cup {c}
        /\ Distinct(new_connections')
    BY <2>1, AppendElements DEF TypeOK, Apart, Existing
  <2> QED BY <2>1, <2>2 DEF Apart, Existing
<1>8. ASSUME OpenFails PROVE Apart'
  BY <1>8 DEF OpenFails, Apart, clientVars
<1>9. ASSUME NEW i \in 1..Len(shrinking), ShrinkNew(i) PROVE Apart'
  <2>1. UNCHANGED <<connections, recyclable_connections, inflight, checking, granted>>
    BY <1>9 DEF ShrinkNew, clientVars
  <2>2. ToSet(new_connections') \subseteq ToSet(new_connections)
        /\ Distinct(new_connections')
    <3> DEFINE room == AtLeastZero(Len(new_connections) - shrinking[i])
    <3>1. room \in Nat
      BY LenProperties, ElementOfSeq DEF TypeOK, AtLeastZero
    <3>2. new_connections' = FirstOf(new_connections, room)
      BY <1>9 DEF ShrinkNew
    <3>3. new_connections \in Seq(Conn) /\ Distinct(new_connections)
      BY DEF TypeOK, Apart
    <3> HIDE DEF room
    <3> QED BY <3>1, <3>2, <3>3, KeptElements
  <2> QED BY <2>1, <2>2 DEF Apart
<1>10. CASE UNCHANGED vars
  BY <1>10 DEF vars, Apart
<1> QED
  BY <1>1, <1>2, <1>3, <1>4, <1>5, <1>6, <1>7, <1>8, <1>9, <1>10
  DEF Next, Client, Tasks, Resize

\* Sets of connections are finite.
LEMMA ConnSets ==
  ASSUME NEW T \in SUBSET Conn
  PROVE  IsFiniteSet(T) /\ Cardinality(T) \in Nat
BY ConnAssumption, FS_Subset, FS_CardinalityType

\* Between its steps the client holds nothing it does not know of.
LEMMA ClientStep == ClientHolds /\ [Next]_vars => ClientHolds'
<1> SUFFICES ASSUME ClientHolds, [Next]_vars PROVE ClientHolds'
  OBVIOUS
<1> USE DEF ClientHolds
<1>1. ASSUME NEW c \in 0..MaxCount, SetConnectionCount(c) PROVE ClientHolds'
  BY <1>1 DEF SetConnectionCount, clientVars
<1>2. ASSUME NEW n \in 1..MaxRequest, GetConnections(n) PROVE ClientHolds'
  BY <1>2 DEF GetConnections
<1>3. ASSUME NEW ready \in SUBSET checking, HandOut(ready) PROVE ClientHolds'
  BY <1>3 DEF HandOut
<1>4. ASSUME SendRequests PROVE ClientHolds'
  BY <1>4 DEF SendRequests
<1>5. ASSUME AbandonBatch PROVE ClientHolds'
  BY <1>5 DEF AbandonBatch
<1>6. ASSUME NEW c \in inflight, NEW expired \in BOOLEAN, ReturnConnection(c, expired)
      PROVE  ClientHolds'
  BY <1>6 DEF ReturnConnection, clientVars
<1>7. ASSUME NEW c \in Conn, OpenSucceeds(c) PROVE ClientHolds'
  BY <1>7 DEF OpenSucceeds, clientVars
<1>8. ASSUME OpenFails PROVE ClientHolds'
  BY <1>8 DEF OpenFails, clientVars
<1>9. ASSUME NEW i \in 1..Len(shrinking), ShrinkNew(i) PROVE ClientHolds'
  BY <1>9 DEF ShrinkNew, clientVars
<1>10. CASE UNCHANGED vars
  BY <1>10 DEF vars
<1> QED
  BY <1>1, <1>2, <1>3, <1>4, <1>5, <1>6, <1>7, <1>8, <1>9, <1>10
  DEF Next, Client, Tasks, Resize

\* The counter of busy connections stays exact.
LEMMA BusyStep ==
  TypeOK /\ Apart /\ ClientHolds /\ BusyExact /\ [Next]_vars => BusyExact'
<1> SUFFICES ASSUME TypeOK, Apart, ClientHolds, BusyExact, [Next]_vars
             PROVE  BusyExact'
  OBVIOUS
<1>0. /\ Cardinality(granted) \in Nat /\ IsFiniteSet(granted)
      /\ Cardinality(inflight) \in Nat /\ IsFiniteSet(inflight)
      /\ Len(recyclable_connections) \in Nat
      /\ lost \in Nat
      /\ busy_connections \in Int
  BY ConnSets, LenProperties DEF TypeOK
<1>1. ASSUME NEW c \in 0..MaxCount, SetConnectionCount(c) PROVE BusyExact'
  BY <1>1 DEF SetConnectionCount, BusyExact, clientVars
<1>2. ASSUME NEW n \in 1..MaxRequest, GetConnections(n) PROVE BusyExact'
  <2>1. /\ busy_connections' = busy_connections - Len(recyclable_connections)
        /\ recyclable_connections' = <<>>
        /\ UNCHANGED <<granted, inflight, lost>>
    BY <1>2 DEF GetConnections, StillBusy
  <2>2. Len(recyclable_connections') = 0
    BY <2>1
  <2> QED BY <1>0, <2>1, <2>2 DEF BusyExact
<1>3. ASSUME NEW ready \in SUBSET checking, HandOut(ready) PROVE BusyExact'
  <2>1. /\ busy_connections' = busy_connections + Cardinality(ready)
        /\ granted' = ready
        /\ granted = {}
        /\ UNCHANGED <<recyclable_connections, inflight, lost>>
    BY <1>3 DEF HandOut, ClientHolds
  <2>2. Cardinality(granted) = 0
    BY <2>1, FS_EmptySet
  <2>3. Cardinality(ready) \in Nat
    BY ConnSets DEF TypeOK
  <2>4. busy_connections =
          Cardinality(inflight) + Len(recyclable_connections) + lost
    BY <1>0, <2>2 DEF BusyExact
  <2>5. busy_connections' =
          Cardinality(ready) + Cardinality(inflight)
            + Len(recyclable_connections) + lost
    BY <1>0, <2>1, <2>3, <2>4
  <2> QED BY <1>0, <2>1, <2>3, <2>5 DEF BusyExact
<1>4. ASSUME SendRequests PROVE BusyExact'
  <2>1. /\ granted' = {} /\ inflight' = inflight \cup granted
        /\ UNCHANGED <<busy_connections, recyclable_connections, lost>>
    BY <1>4 DEF SendRequests, poolVars
  <2>2. Cardinality({}) = 0
    BY FS_EmptySet
  <2>3. Cardinality(inflight \cup granted)
          = Cardinality(inflight) + Cardinality(granted)
    <3>1. Cardinality(inflight \cap granted) = 0
      <4>1. inflight \cap granted = {}
        BY DEF Apart
      <4> QED BY <4>1, <2>2
    <3>2. Cardinality(inflight \cup granted)
            = Cardinality(inflight) + Cardinality(granted)
                - Cardinality(inflight \cap granted)
      BY <1>0, FS_Union
    <3> QED BY <3>1, <3>2, <1>0
  <2> QED BY <1>0, <2>1, <2>2, <2>3 DEF BusyExact
<1>5. ASSUME AbandonBatch PROVE BusyExact'
  <2>1. /\ granted' = {} /\ lost' = lost + Cardinality(granted)
        /\ UNCHANGED <<busy_connections, recyclable_connections, inflight>>
    BY <1>5 DEF AbandonBatch, poolVars, taskVars
  <2>2. Cardinality({}) = 0
    BY FS_EmptySet
  <2> QED BY <1>0, <2>1, <2>2 DEF BusyExact
<1>6. ASSUME NEW c \in inflight, NEW expired \in BOOLEAN, ReturnConnection(c, expired)
      PROVE  BusyExact'
  <2>1. /\ inflight' = inflight \ {c}
        /\ recyclable_connections' = Append(recyclable_connections, c)
        /\ UNCHANGED <<busy_connections, granted, lost>>
    BY <1>6 DEF ReturnConnection, clientVars
  <2>2. Len(recyclable_connections') = Len(recyclable_connections) + 1
    BY <2>1, AppendElements DEF TypeOK
  <2>3. Cardinality(inflight \ {c}) = Cardinality(inflight) - 1
    BY <1>0, FS_RemoveElement
  <2> QED BY <1>0, <2>1, <2>2, <2>3 DEF BusyExact
<1>7. ASSUME NEW c \in Conn, OpenSucceeds(c) PROVE BusyExact'
  BY <1>7 DEF OpenSucceeds, BusyExact, clientVars
<1>8. ASSUME OpenFails PROVE BusyExact'
  BY <1>8 DEF OpenFails, BusyExact, clientVars
<1>9. ASSUME NEW i \in 1..Len(shrinking), ShrinkNew(i) PROVE BusyExact'
  BY <1>9 DEF ShrinkNew, BusyExact, clientVars
<1>10. CASE UNCHANGED vars
  BY <1>10 DEF vars, BusyExact
<1> QED
  BY <1>1, <1>2, <1>3, <1>4, <1>5, <1>6, <1>7, <1>8, <1>9, <1>10
  DEF Next, Client, Tasks, Resize

\* No step lets a connection in use outlive its allowance.
LEMMA AllowanceStep == TypeOK /\ Apart /\ Allowance /\ [Next]_vars => Allowance'
<1> SUFFICES ASSUME TypeOK, Apart, Allowance, [Next]_vars PROVE Allowance'
  OBVIOUS
<1> USE ConnAssumption, NumberAssumption
\* The fields of what a step does not drop are what they were.
<1>0. ASSUME NEW D, DropAll(D), Existing' \subseteq Existing \ D,
             granted' \cup inflight' \subseteq granted \cup inflight
      PROVE  Allowance'
  <2>1. Existing \subseteq Conn
    BY ToSetIndex DEF TypeOK, Existing
  <2>2. \A c \in Existing' : remaining_reuse'[c] = remaining_reuse[c]
                              /\ (should_drop'[c] <=> should_drop[c])
    BY <1>0, <2>1 DEF DropAll
  <2>3. granted' \cup inflight' \subseteq Existing'
    BY DEF Existing
  <2> QED BY <1>0, <2>2, <2>3 DEF Allowance
<1>1. ASSUME NEW c \in 0..MaxCount, SetConnectionCount(c) PROVE Allowance'
  <2> DEFINE D == ToSet(connections) \ ToSet(LastOf(connections, c))
  <2>1. /\ connections' = LastOf(connections, c)
        /\ DropAll(D)
        /\ UNCHANGED <<recyclable_connections, new_connections, inflight, checking,
                       granted>>
    BY <1>1 DEF SetConnectionCount, clientVars
  <2>2. ToSet(LastOf(connections, c)) \subseteq ToSet(connections)
    BY KeptElements DEF TypeOK
  <2>3. Existing' \subseteq Existing \ D
    BY <2>1, <2>2 DEF Apart, Existing
  <2> QED BY <2>1, <2>3, <1>0
<1>2. ASSUME NEW n \in 1..MaxRequest, GetConnections(n) PROVE Allowance'
  <2>1. n \in Nat
    OBVIOUS
  <2>2. /\ UNCHANGED <<granted, inflight>>
        /\ DropAll(ToSet(Claimed) \ ToSet(Enforced))
    BY <1>2 DEF GetConnections
  <2>3. Existing' \subseteq Existing \ (ToSet(Claimed) \ ToSet(Enforced))
    BY <1>2, <2>1, <2>2, PopFacts DEF Apart, Existing
  <2> QED BY <2>2, <2>3, <1>0
<1>3. ASSUME NEW ready \in SUBSET checking, HandOut(ready) PROVE Allowance'
  <2>1. /\ granted' = ready /\ checking' = {}
        /\ ready \subseteq {c \in checking : ~should_drop[c]}
        /\ DropAll(checking \ ready)
        /\ UNCHANGED <<connections, recyclable_connections, new_connections,
                       inflight>>
    BY <1>3 DEF HandOut
  <2>2. Existing' \subseteq Existing \ (checking \ ready)
    BY <2>1 DEF Apart, Existing
  <2>3. Existing \subseteq Conn
    BY ToSetIndex DEF TypeOK, Existing
  <2>4. \A c \in Existing' : remaining_reuse'[c] = remaining_reuse[c]
                              /\ (should_drop'[c] <=> should_drop[c])
    BY <2>1, <2>2, <2>3 DEF DropAll
  <2>5. \A c \in granted' \cup inflight' : c \in Existing' /\ ~should_drop[c]
    BY <2>1 DEF Existing, Allowance
  <2> QED BY <2>2, <2>4, <2>5 DEF Allowance
<1>4. ASSUME SendRequests PROVE Allowance'
  <2>1. /\ granted' = {} /\ inflight' = inflight \cup granted
        /\ UNCHANGED <<connections, recyclable_connections, new_connections,
                       checking, remaining_reuse, should_drop>>
    BY <1>4 DEF SendRequests, poolVars, connVars
  <2> QED BY <2>1 DEF Allowance, Existing
<1>5. ASSUME AbandonBatch PROVE Allowance'
  <2>1. /\ granted' = {} /\ DropAll(granted)
        /\ UNCHANGED <<connections, recyclable_connections, new_connections,
                       checking, inflight>>
    BY <1>5 DEF AbandonBatch, poolVars, taskVars
  <2>2. Existing' \subseteq Existing \ granted
    BY <2>1 DEF Apart, Existing
  <2> QED BY <2>1, <2>2, <1>0
<1>6. ASSUME NEW c \in inflight, NEW expired \in BOOLEAN, ReturnConnection(c, expired)
      PROVE  Allowance'
  <2>1. /\ inflight' = inflight \ {c}
        /\ should_drop' = [should_drop EXCEPT
                             ![c] = @ \/ expired \/ remaining_reuse[c] <= 1]
        /\ remaining_reuse' = [remaining_reuse EXCEPT ![c] = @ - 1]
        /\ recyclable_connections' = Append(recyclable_connections, c)
        /\ UNCHANGED <<connections, new_connections, checking, granted>>
    BY <1>6 DEF ReturnConnection, Spent, clientVars
  <2>2. c \in Conn /\ c \in Existing /\ ~should_drop[c]
    BY DEF TypeOK, Existing, Allowance
  <2>3. Existing' = Existing
    <3>1. ToSet(recyclable_connections') = ToSet(recyclable_connections) \cup {c}
      BY <2>1, <2>2, AppendElements DEF TypeOK
    <3> QED BY <2>1, <3>1 DEF Existing
  <2>4. Existing \subseteq Conn
    BY ToSetIndex DEF TypeOK, Existing
  <2>5. \A d \in Conn \ {c} : remaining_reuse'[d] = remaining_reuse[d]
                               /\ should_drop'[d] = should_drop[d]
    BY <2>1 DEF TypeOK
  <2>6. remaining_reuse[c] \in 1..KeepAlive
    BY <2>2 DEF Allowance
  <2>7. /\ remaining_reuse'[c] = remaining_reuse[c] - 1
        /\ remaining_reuse[c] <= 1 => should_drop'[c]
    BY <2>1, <2>2 DEF TypeOK
  <2>8. /\ remaining_reuse'[c] \in 0..KeepAlive
        /\ ~should_drop'[c] => remaining_reuse'[c] >= 1
    BY <2>6, <2>7
  <2>9. c \notin granted' \cup inflight' /\ granted' \cup inflight' \subseteq granted \cup inflight
    BY <2>1 DEF Apart
  <2>10. \A d \in granted' \cup inflight' : d \in Conn \ {c} /\ ~should_drop[d]
    BY <2>9 DEF Allowance, TypeOK
  <2>11. \A d \in Existing' : d = c \/ (d \in Conn \ {c} /\ d \in Existing)
    BY <2>3, <2>4
  <2>12. \A d \in Existing' : /\ remaining_reuse'[d] \in 0..KeepAlive
                              /\ ~should_drop'[d] => remaining_reuse'[d] >= 1
    BY <2>5, <2>8, <2>11 DEF Allowance
  <2>13. \A d \in granted' \cup inflight' : ~should_drop'[d]
    BY <2>5, <2>10
  <2> QED BY <2>12, <2>13 DEF Allowance
<1>7. ASSUME NEW c \in Conn, OpenSucceeds(c) PROVE Allowance'
  <2>1. /\ c \notin Existing
        /\ new_connections' = Append(new_connections, c)
        /\ remaining_reuse' = [remaining_reuse EXCEPT ![c] = KeepAlive]
        /\ should_drop' = [should_drop EXCEPT ![c] = FALSE]
        /\ UNCHANGED <<connections, recyclable_connections, inflight, checking,
                       granted>>
    BY <1>7 DEF OpenSucceeds, clientVars
  <2>2. Existing' = Existing \cup {c}
    <3>1. ToSet(new_connections') = ToSet(new_connections) \cup {c}
      BY <2>1, AppendElements DEF TypeOK
    <3> QED BY <2>1, <3>1 DEF Existing
  <2>3. \A d \in Conn \ {c} : remaining_reuse'[d] = remaining_reuse[d]
                               /\ should_drop'[d] = should_drop[d]
    BY <2>1 DEF TypeOK
  <2>4. remaining_reuse'[c] \in 1..KeepAlive
    BY <2>1 DEF TypeOK
  <2>5. Existing \subseteq Conn /\ c \notin granted \cup inflight
    BY <2>1, ToSetIndex DEF TypeOK, Existing
  <2>6. granted' = granted /\ inflight' = inflight /\ granted \cup inflight \subseteq Existing
    BY <2>1 DEF Existing
  <2>7. \A d \in Existing : d # c
    BY <2>1
  <2> QED BY <2>2, <2>3, <2>4, <2>5, <2>6, <2>7 DEF Allowance
<1>8. ASSUME OpenFails PROVE Allowance'
  BY <1>8 DEF OpenFails, Allowance, Existing, clientVars, connVars
<1>9. ASSUME NEW i \in 1..Len(shrinking), ShrinkNew(i) PROVE Allowance'
  <2> DEFINE room == AtLeastZero(Len(new_connections) - shrinking[i])
             D == ToSet(new_connections) \ ToSet(FirstOf(new_connections, room))
  <2>1. /\ new_connections' = FirstOf(new_connections, room)
        /\ DropAll(D)
        /\ UNCHANGED <<connections, recyclable_connections, inflight, checking, granted>>
    BY <1>9 DEF ShrinkNew, clientVars
  <2>2. ToSet(FirstOf(new_connections, room)) \subseteq ToSet(new_connections)
    <3>1. room \in Nat /\ new_connections \in Seq(Conn)
      BY LenProperties, ElementOfSeq DEF TypeOK, AtLeastZero
    <3> HIDE DEF room
    <3> QED BY <3>1, KeptElements
  <2> HIDE DEF room
  <2>3. Existing' \subseteq Existing \ D
    BY <2>1, <2>2 DEF Apart, Existing
  <2> QED BY <2>1, <2>3, <1>0
<1>10. CASE UNCHANGED vars
  BY <1>10 DEF vars, Allowance, Existing
<1> QED
  BY <1>1, <1>2, <1>3, <1>4, <1>5, <1>6, <1>7, <1>8, <1>9, <1>10
  DEF Next, Client, Tasks, Resize

\* What get_connections popped goes on fitting until it is handed out.
LEMMA PoppedStep ==
  TypeOK /\ Apart /\ PoppedFits /\ [Next]_vars => PoppedFits'
<1> SUFFICES ASSUME TypeOK, Apart, PoppedFits, [Next]_vars PROVE PoppedFits'
  OBVIOUS
<1>1. ASSUME NEW c \in 0..MaxCount, SetConnectionCount(c) PROVE PoppedFits'
  BY <1>1 DEF SetConnectionCount, clientVars, PoppedFits
<1>2. ASSUME NEW n \in 1..MaxRequest, GetConnections(n) PROVE PoppedFits'
  <2> DEFINE take == Smaller(n, Len(Enforced))
  <2>1. n \in Nat
    BY NumberAssumption
  <2>2. /\ busy_connections' = StillBusy
        /\ UNCHANGED <<max_connection, elastic>>
    BY <1>2 DEF GetConnections
  <2>3. /\ Cardinality(checking') = take
        /\ take \in 0..Len(Enforced)
        /\ Len(Enforced) \in Nat
    BY <1>2, <2>1, PopFacts
  <2> HIDE DEF take
  <2>4. checking' = {} \/ Cardinality(checking') > 0
    <3>1. checking' \in SUBSET Conn
      BY TypeStep DEF TypeOK
    <3> QED BY <3>1, ConnSets, FS_EmptySet
  <2>5. StillBusy \in Int /\ max_connection \in Nat /\ Len(Claimed) \in Nat
    BY EnforcedQueue, LenProperties DEF TypeOK, StillBusy
  <2>6. ASSUME ~elastic, take > 0 PROVE StillBusy + take <= max_connection
    <3>1. Len(Enforced) =
            Smaller(Len(Claimed), AtLeastZero(max_connection - StillBusy))
      BY <2>6, EnforcedQueue
    <3> QED BY <3>1, <2>3, <2>5, <2>6 DEF Smaller, AtLeastZero
  <2> QED BY <2>2, <2>3, <2>4, <2>6 DEF PoppedFits
<1>3. ASSUME NEW ready \in SUBSET checking, HandOut(ready) PROVE PoppedFits'
  BY <1>3 DEF HandOut, PoppedFits
<1>4. ASSUME SendRequests PROVE PoppedFits'
  BY <1>4 DEF SendRequests, PoppedFits
<1>5. ASSUME AbandonBatch PROVE PoppedFits'
  BY <1>5 DEF AbandonBatch, PoppedFits
<1>6. ASSUME NEW c \in inflight, NEW expired \in BOOLEAN, ReturnConnection(c, expired)
      PROVE  PoppedFits'
  BY <1>6 DEF ReturnConnection, clientVars, PoppedFits
<1>7. ASSUME NEW c \in Conn, OpenSucceeds(c) PROVE PoppedFits'
  BY <1>7 DEF OpenSucceeds, clientVars, PoppedFits
<1>8. ASSUME OpenFails PROVE PoppedFits'
  BY <1>8 DEF OpenFails, clientVars, PoppedFits
<1>9. ASSUME NEW i \in 1..Len(shrinking), ShrinkNew(i) PROVE PoppedFits'
  BY <1>9 DEF ShrinkNew, clientVars, PoppedFits
<1>10. CASE UNCHANGED vars
  BY <1>10 DEF vars, PoppedFits
<1> QED
  BY <1>1, <1>2, <1>3, <1>4, <1>5, <1>6, <1>7, <1>8, <1>9, <1>10
  DEF Next, Client, Tasks, Resize

\* Having removed what it owed, a resizer owes nothing.
LEMMA StillEnough ==
  ASSUME NEW max \in Nat, NEW held \in Nat, NEW coming \in Nat, NEW owed \in Nat,
         NEW left \in Nat, left >= coming - owed,
         max <= held \/ max <= held + coming - owed
  PROVE  max <= held \/ max <= held + left - 0
OBVIOUS

\* Every connection that goes is made up for.
LEMMA ReplacedStep ==
  TypeOK /\ Apart /\ ClientHolds /\ BusyExact /\ ReplacedAnyway /\ [Next]_vars
    => ReplacedAnyway'
<1> SUFFICES ASSUME TypeOK, Apart, ClientHolds, BusyExact, ReplacedAnyway,
                    [Next]_vars, PromptShrink
             PROVE  ReplacedAnyway'
  BY DEF ReplacedAnyway
<1> DEFINE lc == Len(connections)
           lr == Len(recyclable_connections)
           ln == Len(new_connections)
           ls == Len(shrinking)
           k == Cardinality(checking)
<1>a. /\ Held = lc + k + busy_connections
      /\ Held' = lc' + k' + busy_connections'
      /\ Coming = ln + opening + failed_connection
      /\ Coming' = ln' + opening' + failed_connection'
  BY DEF Held, Coming
<1>0. /\ lc \in Nat /\ lr \in Nat /\ ln \in Nat /\ ls \in Nat /\ k \in Nat
      /\ max_connection \in Nat /\ opening \in Nat /\ failed_connection \in Nat
      /\ busy_connections \in Nat
      /\ Owed \in Nat
      /\ Held \in Nat
      /\ Coming \in Nat
  <2>1. Owed \in Nat
    <3>1. CASE shrinking = <<>>
      BY <3>1 DEF Owed
    <3>2. CASE shrinking # <<>>
      <4>1. Len(shrinking) \in Nat /\ Len(shrinking) # 0
        BY <3>2, EmptySeq, LenProperties DEF TypeOK
      <4>2. 1 \in 1..Len(shrinking)
        BY <4>1
      <4> QED BY <3>2, <4>2, ElementOfSeq DEF Owed, TypeOK
    <3> QED BY <3>1, <3>2
  <2>2. lc \in Nat /\ lr \in Nat /\ ln \in Nat /\ ls \in Nat
    BY LenProperties DEF TypeOK
  <2>3. k \in Nat /\ Cardinality(granted) \in Nat /\ Cardinality(inflight) \in Nat
    BY ConnSets DEF TypeOK
  <2>4. busy_connections \in Nat
    BY <2>2, <2>3 DEF TypeOK, BusyExact
  <2>5. max_connection \in Nat /\ opening \in Nat /\ failed_connection \in Nat
    BY DEF TypeOK
  <2>6. Held \in Nat
    BY <2>2, <2>3, <2>4, <1>a
  <2>7. Coming \in Nat
    BY <2>2, <2>5, <1>a
  <2> QED BY <2>1, <2>2, <2>3, <2>4, <2>5, <2>6, <2>7
<1>b. /\ ls <= 1
      /\ shrinking # <<>> => pc = "idle"
      /\ max_connection <= Held \/ max_connection <= Held + Coming - Owed
  BY DEF ReplacedAnyway
<1>c. SUFFICES /\ ls' <= 1
               /\ shrinking' # <<>> => pc' = "idle"
               /\ \/ max_connection' <= Held'
                  \/ max_connection' <= Held' + Coming' - Owed'
  BY DEF ReplacedAnyway
<1> DEFINE Good == /\ ls' <= 1
                   /\ shrinking' # <<>> => pc' = "idle"
                   /\ \/ max_connection' <= Held'
                      \/ max_connection' <= Held' + Coming' - Owed'
<1> HIDE DEF lc, lr, ln, ls, k
<1>1. ASSUME NEW c \in 0..MaxCount, SetConnectionCount(c) PROVE Good
  <2>1. /\ shrinking = <<>>
        /\ connections' = LastOf(connections, c)
        /\ max_connection' = c
        /\ opening' = opening + ToOpen(c)
        /\ shrinking' = IF ToRemove(c) > 0 THEN Append(shrinking, ToRemove(c))
                                           ELSE shrinking
        /\ pc' = "idle"
        /\ UNCHANGED <<new_connections, busy_connections, failed_connection,
                       checking>>
    BY <1>1 DEF SetConnectionCount, clientVars
  <2>2. lc' = Smaller(lc, c) /\ c \in Nat
    BY <2>1, KeptElements, NumberAssumption DEF TypeOK, lc
  <2>3. lc' \in Nat /\ lc' <= lc /\ (lc' = lc \/ lc' = c)
    BY <2>2, <1>0 DEF Smaller
  <2>4. ToRemove(c) \in Nat /\ (c <= max_connection => ToRemove(c) = max_connection - c)
        /\ (c > max_connection => ToRemove(c) = 0)
    BY <2>2, <1>0 DEF ToRemove, AtLeastZero
  <2>5. ls' <= 1 /\ Owed' = ToRemove(c)
    <3>1. CASE ToRemove(c) > 0
      <4>1. shrinking' = <<ToRemove(c)>>
        BY <2>1, <2>4, <3>1
      <4> QED BY <4>1 DEF Owed, ls
    <3>2. CASE ~(ToRemove(c) > 0)
      <4>1. shrinking' = <<>> /\ ToRemove(c) = 0
        BY <2>1, <2>4, <3>2
      <4> QED BY <4>1 DEF Owed, ls
    <3> QED BY <3>1, <3>2
  <2>6. max_connection <= Held + Coming
    <3>1. Owed = 0
      BY <2>1 DEF Owed
    <3> QED BY <3>1, <1>0, <1>b
  <2>7. k' = k /\ ln' = ln
    BY <2>1 DEF k, ln
  <2>8. CASE c > max_connection
    <3>1. ToOpen(c) = AtLeastZero(c - (ln + busy_connections + lc'))
      BY <2>1, <2>8 DEF ToOpen, lc, ln
    <3>2. ToOpen(c) \in Nat /\ ToOpen(c) >= c - (ln + busy_connections + lc')
      BY <3>1, <2>2, <2>3, <1>0 DEF AtLeastZero
    <3>3. Held' = lc' + k + busy_connections
          /\ Coming' = ln + opening + ToOpen(c) + failed_connection
      BY <2>1, <2>7, <3>2, <1>0, <1>a
    <3>4. c <= Held' + Coming' - Owed'
      BY <3>2, <3>3, <2>2, <2>3, <2>4, <2>5, <2>8, <1>0
    <3> QED BY <3>4, <2>1, <2>5
  <2>9. CASE c <= max_connection
    <3>1. ToOpen(c) = 0
      BY <2>2, <2>9, <1>0 DEF ToOpen
    <3>2. Held' = lc' + k + busy_connections /\ Coming' = Coming
      BY <2>1, <2>7, <3>1, <1>0, <1>a
    <3>3. c <= Held' \/ c <= Held' + Coming' - Owed'
      BY <3>2, <2>2, <2>3, <2>4, <2>5, <2>6, <2>9, <1>0, <1>a
    <3> QED BY <3>3, <2>1, <2>5
  <2> QED BY <2>8, <2>9, <2>2, <1>0
<1>2. ASSUME NEW n \in 1..MaxRequest, GetConnections(n) PROVE Good
  <2> DEFINE take == Smaller(n, Len(Enforced))
             left == Len(Enforced)
             all == Len(Claimed)
  <2>1. /\ shrinking = <<>>
        /\ busy_connections' = StillBusy
        /\ opening' = opening + ElasticDeficit(n)
        /\ pc = "idle"
        /\ UNCHANGED <<max_connection, shrinking, failed_connection>>
    BY <1>2 DEF GetConnections
  <2>2. n \in Nat
    BY NumberAssumption
  <2>3. /\ k' = take /\ lc' = left - take /\ ln' = 0
        /\ left \in Nat /\ take \in Nat
    BY <1>2, <2>2, PopFacts DEF k, lc, ln
  <2>4. all = lc + lr + ln /\ all \in Nat
    BY EnforcedQueue, LenProperties DEF lc, lr, ln
  <2>5. Owed = 0 /\ Owed' = 0 /\ shrinking' = <<>>
    BY <2>1 DEF Owed
  <2>6. k = 0 /\ ls' <= 1
    BY <2>1, FS_EmptySet DEF ClientHolds, k, ls
  <2>7. StillBusy = busy_connections - lr /\ ElasticDeficit(n) \in Nat
    BY <2>2, <2>4 DEF StillBusy, ElasticDeficit, AtLeastZero, lr
  <2>8. \/ left = all
        \/ left >= max_connection - StillBusy
    <3>1. CASE elastic
      BY <3>1, EnforcedQueue
    <3>2. CASE ~elastic
      <4>1. left = Smaller(all, AtLeastZero(max_connection - StillBusy))
        BY <3>2, EnforcedQueue
      <4> HIDE DEF left, all
      <4> QED BY <4>1, <2>3, <2>4, <2>7, <1>0 DEF Smaller, AtLeastZero
    <3> QED BY <3>1, <3>2
  <2> HIDE DEF take, left, all
  <2>9. Held' = left + busy_connections - lr
        /\ Coming' = opening + ElasticDeficit(n) + failed_connection
    BY <2>1, <2>3, <2>7, <1>0, <1>a
  <2>10. max_connection <= Held' + Coming' - Owed'
    <3>1. max_connection <= Held + Coming
      BY <2>5, <1>0, <1>b
    <3> QED BY <3>1, <2>3, <2>4, <2>5, <2>6, <2>7, <2>8, <2>9, <1>0, <1>a
  <2> QED BY <2>1, <2>5, <2>6, <2>10
<1>3. ASSUME NEW ready \in SUBSET checking, HandOut(ready) PROVE Good
  <2> DEFINE given == Cardinality(ready)
             gone == Cardinality(checking \ ready)
  <2>1. /\ opening' = opening + (gone + failed_connection)
        /\ failed_connection' = 0
        /\ busy_connections' = busy_connections + given
        /\ checking' = {}
        /\ pc = "checking"
        /\ UNCHANGED <<max_connection, connections, new_connections, shrinking>>
    BY <1>3 DEF HandOut, Refill
  <2>2. shrinking' = <<>> /\ ls' <= 1 /\ Owed = 0 /\ Owed' = 0
    <3>1. shrinking = <<>>
      BY <2>1, <1>b
    <3> QED BY <2>1, <3>1 DEF Owed, ls
  <2>3. k' = 0 /\ lc' = lc /\ ln' = ln
    BY <2>1, FS_EmptySet DEF k, lc, ln
  <2>4. gone = k - given /\ given \in Nat /\ gone \in Nat
    <3>1. ready \in SUBSET Conn /\ checking \in SUBSET Conn
          /\ checking \ ready \in SUBSET Conn /\ checking \cap ready = ready
      BY DEF TypeOK
    <3>2. IsFiniteSet(checking) /\ given \in Nat /\ gone \in Nat
      BY <3>1, ConnSets
    <3>3. gone = k - Cardinality(checking \cap ready)
      BY <3>2, FS_Difference DEF k
    <3> QED BY <3>1, <3>2, <3>3
  <2> HIDE DEF given, gone
  <2>5. Held' = lc + busy_connections + given
        /\ Coming' = ln + opening + gone + failed_connection
    BY <2>1, <2>3, <2>4, <1>0, <1>a
  <2>6. max_connection <= Held' + Coming' - Owed'
    BY <2>2, <2>4, <2>5, <1>0, <1>a, <1>b
  <2> QED BY <2>1, <2>2, <2>6
<1>4. ASSUME SendRequests PROVE Good
  <2>1. UNCHANGED <<max_connection, connections, new_connections, busy_connections,
                    failed_connection, opening, shrinking, checking>>
    BY <1>4 DEF SendRequests, poolVars
  <2>2. shrinking = <<>>
    BY <1>4, <1>b DEF SendRequests
  <2> QED BY <2>1, <2>2, <1>b DEF Owed, Held, Coming, ls
<1>5. ASSUME AbandonBatch PROVE Good
  <2>1. UNCHANGED <<max_connection, connections, new_connections, busy_connections,
                    failed_connection, opening, shrinking, checking>>
    BY <1>5 DEF AbandonBatch, poolVars, taskVars
  <2>2. shrinking = <<>>
    BY <1>5, <1>b DEF AbandonBatch
  <2> QED BY <2>1, <2>2, <1>b DEF Owed, Held, Coming, ls
<1>6. ASSUME NEW c \in inflight, NEW expired \in BOOLEAN, ReturnConnection(c, expired)
      PROVE  Good
  <2>1. UNCHANGED <<max_connection, connections, new_connections, busy_connections,
                    failed_connection, opening, shrinking, checking, pc>>
    BY <1>6 DEF ReturnConnection, clientVars
  <2> QED BY <2>1, <1>b DEF Owed, Held, Coming, ls
<1>7. ASSUME NEW c \in Conn, OpenSucceeds(c) PROVE Good
  <2>1. /\ opening' = opening - 1
        /\ new_connections' = Append(new_connections, c)
        /\ UNCHANGED <<max_connection, connections, busy_connections, pc,
                       failed_connection, shrinking, checking>>
    BY <1>7 DEF OpenSucceeds, clientVars
  <2>2. ln' = ln + 1
    BY <2>1, AppendElements DEF TypeOK, ln
  <2>3. Owed' = Owed /\ Held' = Held /\ ls' = ls
    BY <2>1 DEF Owed, Held, ls
  <2>4. Coming' = Coming
    BY <2>1, <2>2, <1>0, <1>a
  <2> QED BY <2>1, <2>3, <2>4, <1>b
<1>8. ASSUME OpenFails PROVE Good
  <2>1. /\ opening' = opening - 1
        /\ failed_connection' = failed_connection + 1
        /\ UNCHANGED <<max_connection, connections, new_connections,
                       busy_connections, pc, shrinking, checking>>
    BY <1>8 DEF OpenFails, clientVars
  <2>2. Owed' = Owed /\ Held' = Held /\ ls' = ls /\ ln' = ln
    BY <2>1 DEF Owed, Held, ls, ln
  <2>3. Coming' = Coming
    BY <2>1, <2>2, <1>0, <1>a
  <2> QED BY <2>1, <2>2, <2>3, <1>b
<1>9. ASSUME NEW i, i \in 1..Len(shrinking), ShrinkNew(i) PROVE Good
  <2> DEFINE room == AtLeastZero(Len(new_connections) - shrinking[i])
  <2>1. /\ new_connections' = FirstOf(new_connections, room)
        /\ shrinking' = SubSeq(shrinking, 1, i - 1)
                          \o SubSeq(shrinking, i + 1, Len(shrinking))
        /\ UNCHANGED <<max_connection, connections, busy_connections, opening,
                       failed_connection, checking, pc>>
    BY <1>9 DEF ShrinkNew, clientVars, RemoveAt
  <2>2. i = 1 /\ Len(shrinking) = 1 /\ Owed = shrinking[i]
    <3>1. i \in 1..ls
      BY <1>9 DEF ls
    <3>2. i = 1 /\ ls = 1
      BY <3>1, <1>0, <1>b
    <3>3. shrinking # <<>>
      BY <3>2 DEF ls
    <3> QED BY <3>2, <3>3 DEF Owed, ls
  <2>3. shrinking' = <<>>
    <3>1. SubSeq(shrinking, 1, 0) = <<>> /\ SubSeq(shrinking, 2, 1) = <<>>
      BY SubSeqEmpty
    <3>2. shrinking' = SubSeq(shrinking, 1, 0) \o SubSeq(shrinking, 2, 1)
      BY <2>1, <2>2
    <3> QED BY <3>1, <3>2
  <2>4. room = AtLeastZero(ln - Owed)
    BY <2>2 DEF ln
  <2>5. ln' = Smaller(ln, room)
    <3>1. room \in Nat /\ new_connections \in Seq(Conn)
      BY <2>4, <1>0 DEF TypeOK, AtLeastZero
    <3> HIDE DEF room
    <3> QED BY <3>1, <2>1, KeptElements DEF ln
  <2> HIDE DEF room
  <2>6. ln' \in Nat /\ ln' >= ln - Owed
    BY <2>4, <2>5, <1>0 DEF Smaller, AtLeastZero
  <2>7. Owed' = 0 /\ ls' <= 1 /\ Held' = Held
    <3>1. Owed' = 0 /\ ls' <= 1
      BY <2>3 DEF Owed, ls
    <3>2. UNCHANGED <<connections, checking, busy_connections>>
      BY <2>1
    <3>3. Held' = Held
      BY <3>2 DEF Held
    <3> QED BY <3>1, <3>3
  <2>8. PICK m \in Nat : m = ln' /\ m >= ln - Owed
    BY <2>6
  <2>9. Coming' = m + opening + failed_connection
    BY <2>1, <2>8, <1>a
  <2>10. Coming' \in Nat /\ Coming' >= Coming - Owed
    <3>1. Coming = ln + opening + failed_connection
      BY <1>a
    <3>2. ln \in Nat /\ opening \in Nat /\ failed_connection \in Nat /\ Owed \in Nat
      BY <1>0
    <3>3. m >= ln - Owed
      BY <2>8
    <3> QED BY <3>1, <3>2, <3>3, <2>9
  <2>11. max_connection <= Held' \/ max_connection <= Held' + Coming' - Owed'
    <3>1. max_connection \in Nat /\ Held \in Nat /\ Coming \in Nat /\ Owed \in Nat
      BY <1>0
    <3>2. max_connection <= Held \/ max_connection <= Held + Coming - Owed
      BY <1>b
    <3>3. max_connection <= Held \/ max_connection <= Held + Coming' - 0
      BY <3>1, <3>2, <2>10, StillEnough
    <3> QED BY <3>3, <2>7
  <2> QED BY <2>1, <2>3, <2>7, <2>11
<1>10. ASSUME UNCHANGED vars PROVE Good
  BY <1>10, <1>b DEF vars, Owed, Held, Coming, ls
<1> HIDE DEF Good
<1>11. Good
  BY <1>1, <1>2, <1>3, <1>4, <1>5, <1>6, <1>7, <1>8, <1>9, <1>10
  DEF Next, Client, Tasks, Resize
<1> QED BY <1>11 DEF Good

-----------------------------------------------------------------------------
(***************************************************************************)
(* The theorems.                                                           *)
(***************************************************************************)

\* PoolInv is an invariant.
LEMMA PoolInvariant == Spec => []PoolInv
<1>1. Init => PoolInv
  <2> SUFFICES ASSUME Init PROVE PoolInv
    OBVIOUS
  <2>1. TypeOK
    BY FlagAssumption DEF Init, TypeOK
  <2>2. /\ connections = <<>> /\ recyclable_connections = <<>>
        /\ new_connections = <<>> /\ shrinking = <<>>
        /\ checking = {} /\ granted = {} /\ inflight = {}
        /\ max_connection = 0 /\ busy_connections = 0 /\ opening = 0
        /\ failed_connection = 0 /\ lost = 0 /\ pc = "idle"
    BY DEF Init
  <2>3. ToSet(<<>>) = {} /\ Distinct(<<>>) /\ Len(<<>>) = 0
    BY EmptyQueue
  <2>4. Cardinality({}) = 0
    BY FS_EmptySet
  <2>5. Apart
    BY <2>2, <2>3 DEF Apart
  <2>6. ClientHolds /\ PoppedFits
    BY <2>2 DEF ClientHolds, PoppedFits
  <2>7. BusyExact
    BY <2>2, <2>3, <2>4 DEF BusyExact
  <2>8. Allowance
    BY <2>2, <2>3 DEF Allowance, Existing
  <2>9. ReplacedAnyway
    <3>1. Held = 0
      BY <2>2, <2>3, <2>4 DEF Held
    <3> QED BY <3>1, <2>2, <2>3 DEF ReplacedAnyway
  <2> QED BY <2>1, <2>5, <2>6, <2>7, <2>8, <2>9 DEF PoolInv
<1>2. PoolInv /\ [Next]_vars => PoolInv'
  BY TypeStep, ApartStep, ClientStep, BusyStep, AllowanceStep, PoppedStep,
     ReplacedStep DEF PoolInv
<1> QED BY <1>1, <1>2, PTL DEF Spec

\* A connection is in one place, in every reachable state, whatever the tasks
\* do between two steps of the client.
THEOREM OnePlaceAlways == Spec => []OnePlace
<1>1. PoolInv => OnePlace
  BY ApartIsOnePlace DEF PoolInv
<1> QED BY <1>1, PoolInvariant, PTL

\* busy_connections is exact: "busy_connections -= returned_to_pool" never
\* takes it below zero.
THEOREM BusyExactAlways == Spec => []BusyExact
<1>1. PoolInv => BusyExact
  BY DEF PoolInv
<1> QED BY <1>1, PoolInvariant, PTL

\* No connection is used past its keep-alive allowance.
THEOREM WithinKeepAliveAlways == Spec => []WithinKeepAlive
<1>1. ASSUME PoolInv PROVE WithinKeepAlive
  <2>1. \A c \in granted \cup inflight : c \in Existing /\ ~should_drop[c]
    BY <1>1 DEF PoolInv, Allowance, Existing
  <2>2. \A c \in Existing :
          /\ remaining_reuse[c] \in 0..KeepAlive
          /\ ~should_drop[c] => remaining_reuse[c] >= 1
    BY <1>1 DEF PoolInv, Allowance
  <2> QED BY <2>1, <2>2, NumberAssumption DEF WithinKeepAlive
<1> QED BY <1>1, PoolInvariant, PTL

\* When a resizer runs before the client's next step, every connection that
\* breaks, expires, fails to open or is removed by a resize is replaced.
THEOREM ReplacedAlways ==
  ASSUME PromptShrink
  PROVE  Spec => []Replaced
<1>1. ASSUME PoolInv PROVE Replaced
  <2> DEFINE lc == Len(connections)
             ln == Len(new_connections)
             k == Cardinality(checking)
  <2>1. /\ max_connection <= Held \/ max_connection <= Held + Coming - Owed
        /\ TypeOK /\ BusyExact
    BY <1>1 DEF PoolInv, ReplacedAnyway
  <2>2. /\ lc \in Nat /\ ln \in Nat /\ k \in Nat
        /\ Len(recyclable_connections) \in Nat
        /\ Cardinality(granted) \in Nat /\ Cardinality(inflight) \in Nat
    BY <2>1, ConnSets, LenProperties DEF TypeOK
  <2>3. /\ busy_connections \in Nat
        /\ opening \in Nat /\ failed_connection \in Nat /\ max_connection \in Nat
    BY <2>1, <2>2 DEF TypeOK, BusyExact
  <2>4. PendingRemoval <= ln /\ PendingRemoval <= Owed
        /\ PendingRemoval \in Nat /\ Owed \in Nat
    <3>1. CASE shrinking = <<>>
      BY <3>1, <2>2 DEF PendingRemoval, Owed
    <3>2. CASE shrinking # <<>>
      <4>1. Len(shrinking) \in Nat /\ Len(shrinking) # 0
        BY <2>1, <3>2, EmptySeq, LenProperties DEF TypeOK
      <4>2. 1 \in 1..Len(shrinking)
        BY <4>1
      <4>3. shrinking[1] \in Nat
        BY <2>1, <4>2, ElementOfSeq DEF TypeOK
      <4>4. PendingRemoval = Smaller(shrinking[1], ln) /\ Owed = shrinking[1]
        BY <3>2 DEF PendingRemoval, Owed
      <4> HIDE DEF ln
      <4> QED BY <4>3, <4>4, <2>2 DEF Smaller
    <3> QED BY <3>1, <3>2
  <2>5. Held = lc + k + busy_connections
        /\ Coming = ln + opening + failed_connection
    BY DEF Held, Coming
  <2>6. SUFFICES max_connection <= lc + ln - PendingRemoval + k + busy_connections
                                     + opening + failed_connection
    BY DEF Replaced
  <2> HIDE DEF lc, ln, k
  <2> QED BY <2>1, <2>2, <2>3, <2>4, <2>5
<1> QED BY <1>1, PoolInvariant, PTL

\* get_connections implements the contract of BoundedPool: whatever was opened
\* too many, returned late or in use when the pool was shrunk, a fixed-size pool
\* is never overdrawn by a grant.
THEOREM ContractKept == Spec => ImplementsBoundedPool
<1>1. Init => Contract!Init
  BY FS_EmptySet, FlagAssumption DEF Init, Contract!Init, InUse
<1>2. PoolInv /\ [Next]_vars => [Contract!Next]_(Contract!vars)
  <2> SUFFICES ASSUME PoolInv, [Next]_vars PROVE [Contract!Next]_(Contract!vars)
    OBVIOUS
  <2> DEFINE g == Cardinality(granted)
             f == Cardinality(inflight)
             r == Len(recyclable_connections)
  <2>0. /\ g \in Nat /\ f \in Nat /\ r \in Nat /\ lost \in Nat /\ InUse \in Nat
        /\ IsFiniteSet(granted) /\ IsFiniteSet(inflight)
        /\ InUse = g + f + lost
        /\ busy_connections = InUse + r
        /\ TypeOK
    <3>1. TypeOK /\ BusyExact
      BY DEF PoolInv
    <3>2. g \in Nat /\ f \in Nat /\ IsFiniteSet(granted) /\ IsFiniteSet(inflight)
      BY <3>1, ConnSets DEF TypeOK
    <3>3. r \in Nat /\ lost \in Nat
      BY <3>1, LenProperties DEF TypeOK
    <3>4. InUse = g + f + lost
      BY DEF InUse
    <3>5. busy_connections = g + f + r + lost
      BY <3>1 DEF BusyExact
    <3> HIDE DEF g, f, r
    <3> QED BY <3>1, <3>2, <3>3, <3>4, <3>5
  <2>a. InUse' = g' + f' + lost'
    BY DEF InUse
  <2>b. Cardinality({}) = 0
    BY FS_EmptySet
  \* Steps that leave the sets of used connections alone.
  <2>c. ASSUME UNCHANGED <<max_connection, elastic, granted, inflight, lost>>
        PROVE  UNCHANGED Contract!vars
    BY <2>c DEF Contract!vars, InUse
  <2>1. ASSUME NEW c \in 0..MaxCount, SetConnectionCount(c)
        PROVE  Contract!Next
    <3>1. /\ max_connection' = c
          /\ elastic' = (elastic /\ c = max_connection)
          /\ UNCHANGED <<granted, inflight, lost>>
      BY <2>1 DEF SetConnectionCount, clientVars
    <3>2. InUse' = InUse
      BY <3>1 DEF InUse
    <3>3. max_connection' \in Nat
      BY <3>1, NumberAssumption
    <3> QED BY <3>1, <3>2, <3>3 DEF Contract!Next, Contract!SetLimit
  <2>2. ASSUME NEW n \in 1..MaxRequest, GetConnections(n)
        PROVE  UNCHANGED Contract!vars
    BY <2>2, <2>c DEF GetConnections
  <2>3. ASSUME NEW ready \in SUBSET checking, HandOut(ready)
        PROVE  [Contract!Next]_(Contract!vars)
    <3> DEFINE given == Cardinality(ready)
    <3>1. /\ granted' = ready
          /\ pc = "checking"
          /\ UNCHANGED <<max_connection, elastic, inflight, lost>>
      BY <2>3 DEF HandOut
    <3>2. granted = {} /\ g = 0
      BY <3>1, <2>b DEF PoolInv, ClientHolds
    <3>3. CASE ready = {}
      BY <3>1, <3>2, <3>3, <2>c
    <3>4. CASE ready # {}
      <4>1. ready \in SUBSET Conn /\ checking \in SUBSET Conn /\ checking # {}
        BY <3>4, <2>0 DEF TypeOK
      <4>2. given \in Nat /\ given > 0 /\ given <= Cardinality(checking)
            /\ Cardinality(checking) \in Nat
        <5>1. IsFiniteSet(ready) /\ IsFiniteSet(checking) /\ given \in Nat
              /\ Cardinality(checking) \in Nat
          BY <4>1, ConnSets
        <5>2. given # 0
          BY <5>1, <3>4, FS_EmptySet
        <5>3. given <= Cardinality(checking)
          BY <5>1, FS_Subset
        <5> QED BY <5>1, <5>2, <5>3
      <4>3. InUse' = InUse + given
        <5>1. g' = given /\ f' = f /\ lost' = lost
          BY <3>1
        <5> HIDE DEF g, f, given
        <5> QED BY <5>1, <3>2, <4>2, <2>0, <2>a
      <4>4. elastic \/ busy_connections + Cardinality(checking) <= max_connection
        BY <3>1, <4>1 DEF PoolInv, PoppedFits
      <4>5. max_connection \in Nat
        BY <2>0 DEF TypeOK
      <4>6. /\ InUse' \in Nat /\ InUse' > InUse
            /\ elastic \/ InUse' <= max_connection
        <5> HIDE DEF g, f, r, given
        <5> QED BY <4>2, <4>3, <4>4, <4>5, <2>0
      <4> QED BY <4>6, <3>1 DEF Contract!Next, Contract!Grant
    <3> QED BY <3>3, <3>4
  <2>4. ASSUME SendRequests PROVE UNCHANGED Contract!vars
    <3>1. /\ granted' = {} /\ inflight' = inflight \cup granted
          /\ UNCHANGED <<max_connection, elastic, lost>>
      BY <2>4 DEF SendRequests, poolVars
    <3>2. Cardinality(inflight \cap granted) = 0
      <4>1. inflight \cap granted = {}
        BY DEF PoolInv, Apart
      <4> QED BY <4>1, <2>b
    <3>3. Cardinality(inflight \cup granted)
            = f + g - Cardinality(inflight \cap granted)
      BY <2>0, FS_Union
    <3>4. f' = f + g /\ g' = 0
      BY <3>1, <3>2, <3>3, <2>0, <2>b
    <3>5. InUse' = InUse
      <4>1. lost' = lost
        BY <3>1
      <4> HIDE DEF g, f
      <4> QED BY <4>1, <3>4, <2>0, <2>a
    <3> QED BY <3>1, <3>5 DEF Contract!vars
  <2>5. ASSUME AbandonBatch PROVE UNCHANGED Contract!vars
    <3>1. /\ granted' = {} /\ lost' = lost + g
          /\ UNCHANGED <<max_connection, elastic, inflight>>
      BY <2>5 DEF AbandonBatch, poolVars, taskVars
    <3>2. f' = f /\ g' = 0
      BY <3>1, <2>b
    <3>3. InUse' = InUse
      <4> HIDE DEF g, f
      <4> QED BY <3>1, <3>2, <2>0, <2>a
    <3> QED BY <3>1, <3>3 DEF Contract!vars
  <2>6. ASSUME NEW c \in inflight, NEW expired \in BOOLEAN,
               ReturnConnection(c, expired)
        PROVE  Contract!Next
    <3>1. /\ inflight' = inflight \ {c}
          /\ UNCHANGED <<max_connection, elastic, granted, lost>>
      BY <2>6 DEF ReturnConnection, clientVars
    <3>2. f' = f - 1 /\ f > 0 /\ g' = g
      <4>1. f' = f - 1
        BY <3>1, <2>0, FS_RemoveElement
      <4>2. f # 0
        BY <2>0, FS_EmptySet
      <4> QED BY <4>1, <4>2, <3>1, <2>0
    <3>3. InUse' = InUse - 1 /\ InUse' \in Nat
      <4>1. lost' = lost
        BY <3>1
      <4> HIDE DEF g, f
      <4> QED BY <4>1, <3>2, <2>0, <2>a
    <3> QED BY <3>1, <3>3 DEF Contract!Next, Contract!GiveBack
  <2>7. ASSUME NEW c \in Conn, OpenSucceeds(c) PROVE UNCHANGED Contract!vars
    BY <2>7, <2>c DEF OpenSucceeds, clientVars
  <2>8. ASSUME OpenFails PROVE UNCHANGED Contract!vars
    BY <2>8, <2>c DEF OpenFails, clientVars
  <2>9. ASSUME NEW i \in 1..Len(shrinking), ShrinkNew(i)
        PROVE  UNCHANGED Contract!vars
    BY <2>9, <2>c DEF ShrinkNew, clientVars
  <2>10. ASSUME UNCHANGED vars PROVE UNCHANGED Contract!vars
    BY <2>10, <2>c DEF vars
  <2> QED
    BY <2>1, <2>2, <2>3, <2>4, <2>5, <2>6, <2>7, <2>8, <2>9, <2>10
    DEF Next, Client, Tasks, Resize
<1> QED
  BY <1>1, <1>2, PoolInvariant, PTL DEF Spec, ImplementsBoundedPool, Contract!Spec
=============================================================================
