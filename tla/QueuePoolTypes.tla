--------------------------- MODULE QueuePoolTypes ---------------------------
(***************************************************************************)
(* What the queue operations of QueuePool return, and type correctness of  *)
(* the pool, for every set of connections and every bound.                 *)
(***************************************************************************)
EXTENDS QueuePool, QueueLemmas

\* drain(0..len - n) and truncate(n) leave a part of the queue of length
\* min(len, n).
LEMMA KeptElements ==
  ASSUME NEW S, NEW s \in Seq(S), NEW n \in Nat
  PROVE  \A u \in {LastOf(s, n), FirstOf(s, n)} :
           /\ u \in Seq(S)
           /\ Len(u) = Smaller(Len(s), n)
           /\ ToSet(u) \subseteq ToSet(s)
           /\ Distinct(s) => Distinct(u)
<1>0. Len(s) \in Nat
  BY LenProperties
<1>1. CASE Len(s) > n
  <2>1. /\ Len(s) - n + 1 \in 1..Len(s) + 1
        /\ Len(s) \in (Len(s) - n + 1) - 1..Len(s)
        /\ 1 \in 1..Len(s) + 1
        /\ n \in 1 - 1..Len(s)
        /\ Len(s) - (Len(s) - n + 1) + 1 = n
        /\ n - 1 + 1 = n
        /\ Smaller(Len(s), n) = n
    BY <1>0, <1>1 DEF Smaller
  <2>2. /\ SubSeq(s, Len(s) - n + 1, Len(s)) \in Seq(S)
        /\ Len(SubSeq(s, Len(s) - n + 1, Len(s))) = n
        /\ ToSet(SubSeq(s, Len(s) - n + 1, Len(s))) \subseteq ToSet(s)
        /\ Distinct(s) => Distinct(SubSeq(s, Len(s) - n + 1, Len(s)))
    BY <2>1, SubSeqElements
  <2>3. /\ SubSeq(s, 1, n) \in Seq(S)
        /\ Len(SubSeq(s, 1, n)) = n
        /\ ToSet(SubSeq(s, 1, n)) \subseteq ToSet(s)
        /\ Distinct(s) => Distinct(SubSeq(s, 1, n))
    BY <2>1, SubSeqElements
  <2> QED BY <2>1, <2>2, <2>3, <1>1 DEF LastOf, FirstOf
<1>2. CASE ~(Len(s) > n)
  BY <1>0, <1>2 DEF LastOf, FirstOf, Smaller
<1> QED BY <1>1, <1>2

-----------------------------------------------------------------------------
\* The queue after claiming and after enforcing the size is a queue of
\* connections; enforcing removes what exceeds the size and nothing more.
LEMMA EnforcedQueue ==
  ASSUME TypeOK
  PROVE  /\ Claimed \in Seq(Conn)
         /\ Len(Claimed) = Len(connections) + Len(recyclable_connections)
                              + Len(new_connections)
         /\ Enforced \in Seq(Conn)
         /\ ToSet(Enforced) \subseteq ToSet(Claimed)
         /\ Distinct(Claimed) => Distinct(Enforced)
         /\ elastic => Enforced = Claimed
         /\ ~elastic =>
              Len(Enforced) =
                Smaller(Len(Claimed), AtLeastZero(max_connection - StillBusy))
<1>0. /\ connections \in Seq(Conn)
      /\ recyclable_connections \in Seq(Conn)
      /\ new_connections \in Seq(Conn)
      /\ max_connection \in Nat
      /\ StillBusy \in Int
  BY LenProperties DEF TypeOK, StillBusy
<1>1. /\ Claimed \in Seq(Conn)
      /\ Len(Claimed) = Len(connections) + Len(recyclable_connections)
                           + Len(new_connections)
  BY <1>0, ConcatProperties DEF Claimed
<1> DEFINE excess == Len(Claimed) + StillBusy - max_connection
           room == AtLeastZero(Len(Claimed) - excess)
<1>2. Len(Claimed) \in Nat /\ excess \in Int /\ room \in Nat
  BY <1>0, <1>1, LenProperties DEF AtLeastZero
<1>3. room = AtLeastZero(max_connection - StillBusy)
  <2>1. Len(Claimed) - excess = max_connection - StillBusy
    BY <1>0, <1>2
  <2> QED BY <2>1
<1>4. CASE elastic
  BY <1>1, <1>4 DEF Enforced
<1>5. CASE ~elastic /\ excess > 0
  <2>1. Enforced = FirstOf(Claimed, room)
    BY <1>5 DEF Enforced
  <2>2. /\ FirstOf(Claimed, room) \in Seq(Conn)
        /\ Len(FirstOf(Claimed, room)) = Smaller(Len(Claimed), room)
        /\ ToSet(FirstOf(Claimed, room)) \subseteq ToSet(Claimed)
        /\ Distinct(Claimed) => Distinct(FirstOf(Claimed, room))
    BY <1>1, <1>2, KeptElements
  <2> QED BY <2>1, <2>2, <1>1, <1>3, <1>5
<1>6. CASE ~elastic /\ ~(excess > 0)
  <2>1. Enforced = Claimed
    BY <1>6 DEF Enforced
  <2>2. Len(Claimed) = Smaller(Len(Claimed), AtLeastZero(max_connection - StillBusy))
    BY <1>0, <1>2, <1>6 DEF Smaller, AtLeastZero
  <2> QED BY <2>1, <2>2, <1>1, <1>6
<1> QED BY <1>4, <1>5, <1>6

\* Dropping connections keeps the fields of the others well typed.
LEMMA DropAllType ==
  ASSUME TypeOK, NEW D, DropAll(D)
  PROVE  remaining_reuse' \in [Conn -> Int] /\ should_drop' \in [Conn -> BOOLEAN]
<1>1. remaining_reuse' \in [Conn -> Int]
  BY DEF TypeOK, DropAll
<1>2. should_drop' = [c \in Conn |-> c \notin D /\ should_drop[c]]
  BY DEF DropAll
<1> QED BY <1>1, <1>2

\* Every step keeps the types.
LEMMA TypeStep == TypeOK /\ [Next]_vars => TypeOK'
<1> SUFFICES ASSUME TypeOK, [Next]_vars PROVE TypeOK'
  OBVIOUS
<1> USE ConnAssumption, NumberAssumption, FlagAssumption
<1>1. ASSUME NEW c \in 0..MaxCount, SetConnectionCount(c) PROVE TypeOK'
  <2>1. LastOf(connections, c) \in Seq(Conn)
    BY KeptElements DEF TypeOK
  <2>2. remaining_reuse' \in [Conn -> Int] /\ should_drop' \in [Conn -> BOOLEAN]
    BY <1>1, DropAllType DEF SetConnectionCount
  <2>3. ToOpen(c) \in Nat /\ ToRemove(c) \in Nat
    <3>1. /\ Len(LastOf(connections, c)) \in Nat
          /\ Len(new_connections) \in Nat
      BY <2>1, LenProperties DEF TypeOK
    <3> QED BY <3>1 DEF TypeOK, ToOpen, ToRemove, AtLeastZero
  <2>4. elastic' \in BOOLEAN
    BY <1>1 DEF SetConnectionCount, TypeOK
  <2>5. /\ max_connection' \in Nat
        /\ connections' \in Seq(Conn)
        /\ opening' \in Nat
    <3>1. /\ max_connection' = c
          /\ connections' = LastOf(connections, c)
          /\ opening' = opening + ToOpen(c)
      BY <1>1 DEF SetConnectionCount
    <3>2. opening \in Nat
      BY DEF TypeOK
    <3>3. c \in Nat
      OBVIOUS
    <3> QED BY <2>1, <2>3, <3>1, <3>2, <3>3
  <2>6. shrinking' \in Seq(Nat)
    BY <1>1, <2>3, AppendProperties DEF SetConnectionCount, TypeOK
  <2> QED
    BY <1>1, <2>2, <2>4, <2>5, <2>6 DEF SetConnectionCount, TypeOK, clientVars
<1>2. ASSUME NEW n \in 1..MaxRequest, GetConnections(n) PROVE TypeOK'
  <2> DEFINE take == Smaller(n, Len(Enforced))
  <2>1. /\ Claimed \in Seq(Conn) /\ Len(Claimed) \in Nat
        /\ Enforced \in Seq(Conn) /\ Len(Enforced) \in Nat
    BY EnforcedQueue, LenProperties
  <2>2. take \in 0..Len(Enforced)
    BY <2>1 DEF Smaller
  <2>3. SubSeq(Enforced, take + 1, Len(Enforced)) \in Seq(Conn)
    <3>1. take + 1 \in 1..Len(Enforced) + 1
          /\ Len(Enforced) \in (take + 1) - 1..Len(Enforced)
      BY <2>1, <2>2
    <3> QED BY <3>1, <2>1, SubSeqElements
  <2>4. {Enforced[i] : i \in 1..take} \subseteq Conn
    <3>1. 1..take \subseteq 1..Len(Enforced)
      BY <2>1, <2>2
    <3> QED BY <3>1, <2>1, ElementOfSeq
  <2>5. remaining_reuse' \in [Conn -> Int] /\ should_drop' \in [Conn -> BOOLEAN]
    BY <1>2, DropAllType DEF GetConnections
  <2>6. ElasticDeficit(n) \in Nat /\ StillBusy \in Int
    BY <2>1, LenProperties DEF TypeOK, ElasticDeficit, StillBusy, AtLeastZero
  <2>7. <<>> \in Seq(Conn)
    OBVIOUS
  <2>8. /\ connections' = SubSeq(Enforced, take + 1, Len(Enforced))
        /\ checking' = {Enforced[i] : i \in 1..take}
        /\ opening' = opening + ElasticDeficit(n)
        /\ busy_connections' = StillBusy
        /\ recyclable_connections' = <<>>
        /\ new_connections' = <<>>
    BY <1>2 DEF GetConnections, Take, Unpopped
  <2>9. connections' \in Seq(Conn) /\ checking' \in SUBSET Conn
    BY <2>3, <2>4, <2>8
  <2>10. opening \in Nat
    BY DEF TypeOK
  <2>11. opening' \in Nat /\ busy_connections' \in Int
    BY <2>6, <2>8, <2>10
  <2> HIDE DEF take
  <2> QED BY <1>2, <2>5, <2>7, <2>8, <2>9, <2>11 DEF GetConnections, TypeOK
<1>3. ASSUME NEW ready \in SUBSET checking, HandOut(ready) PROVE TypeOK'
  <2>1. remaining_reuse' \in [Conn -> Int] /\ should_drop' \in [Conn -> BOOLEAN]
    BY <1>3, DropAllType DEF HandOut
  <2>2. /\ Cardinality(ready) \in Nat
        /\ Cardinality(checking \ ready) \in Nat
        /\ Cardinality({c \in checking : ~should_drop[c]} \ ready) \in Nat
    <3>1. \A T \in SUBSET Conn : Cardinality(T) \in Nat
      BY FS_Subset, FS_CardinalityType
    <3> QED BY <3>1 DEF TypeOK
  <2>3. /\ opening' = opening + (Cardinality(checking \ ready) + failed_connection)
        /\ busy_connections' = busy_connections + Cardinality(ready)
        /\ faults' = faults + Cardinality({c \in checking : ~should_drop[c]} \ ready)
    BY <1>3 DEF HandOut, Refill
  <2>4. opening \in Nat /\ failed_connection \in Nat /\ faults \in Nat
        /\ busy_connections \in Int
    BY DEF TypeOK
  <2>5. opening' \in Nat /\ busy_connections' \in Int /\ faults' \in Nat
    BY <2>2, <2>3, <2>4
  <2> QED BY <1>3, <2>1, <2>5 DEF HandOut, TypeOK
<1>4. ASSUME SendRequests PROVE TypeOK'
  BY <1>4 DEF SendRequests, TypeOK, poolVars, connVars
<1>5. ASSUME AbandonBatch PROVE TypeOK'
  <2>1. remaining_reuse' \in [Conn -> Int] /\ should_drop' \in [Conn -> BOOLEAN]
    BY <1>5, DropAllType DEF AbandonBatch
  <2>2. Cardinality(granted) \in Nat
    BY FS_Subset, FS_CardinalityType DEF TypeOK
  <2> QED BY <1>5, <2>1, <2>2 DEF AbandonBatch, TypeOK, poolVars, taskVars
<1>6. ASSUME NEW c \in inflight, NEW expired \in BOOLEAN, ReturnConnection(c, expired)
      PROVE  TypeOK'
  <2>1. c \in Conn
    BY DEF TypeOK
  <2>2. should_drop' \in [Conn -> BOOLEAN]
    BY <1>6, <2>1 DEF ReturnConnection, TypeOK
  <2>3. remaining_reuse' \in [Conn -> Int]
    BY <1>6, <2>1 DEF ReturnConnection, TypeOK
  <2>4. recyclable_connections' \in Seq(Conn)
    BY <1>6, <2>1, AppendElements DEF ReturnConnection, TypeOK
  <2> QED BY <1>6, <2>2, <2>3, <2>4 DEF ReturnConnection, TypeOK, clientVars
<1>7. ASSUME NEW c \in Conn, OpenSucceeds(c) PROVE TypeOK'
  <2>1. new_connections' \in Seq(Conn)
    BY <1>7, AppendElements DEF OpenSucceeds, TypeOK
  <2>2. should_drop' \in [Conn -> BOOLEAN] /\ remaining_reuse' \in [Conn -> Int]
    BY <1>7 DEF OpenSucceeds, TypeOK
  <2> QED BY <1>7, <2>1, <2>2 DEF OpenSucceeds, TypeOK, clientVars
<1>8. ASSUME OpenFails PROVE TypeOK'
  BY <1>8 DEF OpenFails, TypeOK, connVars, clientVars
<1>9. ASSUME NEW i \in 1..Len(shrinking), ShrinkNew(i) PROVE TypeOK'
  <2>1. Len(shrinking) \in Nat /\ shrinking[i] \in Nat
    BY LenProperties, ElementOfSeq DEF TypeOK
  <2>2. AtLeastZero(Len(new_connections) - shrinking[i]) \in Nat
    BY <2>1, LenProperties DEF TypeOK, AtLeastZero
  <2>3. FirstOf(new_connections, AtLeastZero(Len(new_connections) - shrinking[i]))
          \in Seq(Conn)
    BY <2>2, KeptElements DEF TypeOK
  <2>4. remaining_reuse' \in [Conn -> Int] /\ should_drop' \in [Conn -> BOOLEAN]
    BY <1>9, DropAllType DEF ShrinkNew
  <2>5. shrinking' \in Seq(Nat)
    <3>1. /\ 1 \in 1..Len(shrinking) + 1 /\ i - 1 \in (1 - 1)..Len(shrinking)
          /\ i + 1 \in 1..Len(shrinking) + 1
          /\ Len(shrinking) \in (i + 1) - 1..Len(shrinking)
      BY <2>1
    <3>2. SubSeq(shrinking, 1, i - 1) \in Seq(Nat)
          /\ SubSeq(shrinking, i + 1, Len(shrinking)) \in Seq(Nat)
      BY <3>1, SubSeqElements DEF TypeOK
    <3>3. shrinking' = SubSeq(shrinking, 1, i - 1)
                         \o SubSeq(shrinking, i + 1, Len(shrinking))
      BY <1>9 DEF ShrinkNew, RemoveAt
    <3> QED BY <3>2, <3>3, ConcatProperties
  <2> QED BY <1>9, <2>3, <2>4, <2>5 DEF ShrinkNew, TypeOK, clientVars
<1>10. CASE UNCHANGED vars
  BY <1>10 DEF vars, TypeOK
<1> QED
  BY <1>1, <1>2, <1>3, <1>4, <1>5, <1>6, <1>7, <1>8, <1>9, <1>10
  DEF Next, Client, Tasks, Resize

\* The pool, its tasks and its client always have values of the right kind.
THEOREM TypeCorrect == Spec => []TypeOK
<1>1. Init => TypeOK
  BY FlagAssumption DEF Init, TypeOK
<1> QED BY <1>1, TypeStep, PTL DEF Spec
=============================================================================
