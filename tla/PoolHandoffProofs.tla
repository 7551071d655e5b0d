-------------------------- MODULE PoolHandoffProofs --------------------------
(***************************************************************************)
(* OnePool and NoPanic of PoolHandoff, for any number of handlers and of   *)
(* broken connections, if handlers are punctual.                           *)
(***************************************************************************)
EXTENDS PoolHandoff, FiniteSetTheorems, TLAPS

Place == {"gone", "preparing", "waiting", "registering", "serving",
          "notifying", "clearing"}

Typed ==
  /\ stored \in BOOLEAN
  /\ listener \in Handler \cup {None}
  /\ pc \in [Handler -> Place]
  /\ owns \in SUBSET Handler
  /\ rx \in [Handler -> Handler \cup {None}]
  /\ tx \in [Handler -> {"open", "sent", "dropped"}]
  /\ link \in [Handler -> {"up", "down", "finished", "closed"}]
  /\ over \in BOOLEAN

\* A handler that has not come to its message loop yet.
Entering(h) == pc[h] \in {"preparing", "waiting", "registering"}

\* The receiver that h left is in the map, or somebody waits on it.
Alive(h) == listener = h \/ \E k \in Handler : pc[k] = "waiting" /\ rx[k] = h

\* Handlers come one after the other; the last one is the one with a link.
OneEnters ==
  /\ \A h, k \in Handler : Entering(h) /\ Entering(k) => h = k
  /\ \A h, k \in Handler : link[h] # "down" /\ k # h =>
       link[k] = "down" /\ ~Entering(k)
  /\ \A h \in Handler : link[h] \in {"finished", "closed"} => over
  /\ \A h, k \in Handler : pc[h] = "clearing" /\ k # h => over /\ ~Entering(k)

\* One receiver: in the map, or with the handler that waits on it, and gone
\* while a handler has the pool and has not registered.
OneReceiver ==
  \A h \in Handler :
    /\ pc[h] = "waiting" <=> rx[h] # None
    /\ pc[h] \in {"waiting", "registering"} => listener = None
    /\ Entering(h) => ~Alive(h) /\ tx[h] = "open"

\* One pool, with a handler in its loop or about to enter it, or stored.
OneOwner ==
  /\ \A h \in Handler :
       h \in owns <=> pc[h] \in {"registering", "serving", "clearing"}
  /\ \A h, k \in Handler : h \in owns /\ k \in owns => h = k
  /\ stored => owns = {}

\* Whoever has the pool is announced by the receiver they left; and a receiver
\* that has been notified means that the pool is stored.
Announced ==
  /\ \A h \in Handler : pc[h] \in {"serving", "notifying"} =>
       Alive(h) /\ tx[h] = "open"
  /\ \A h \in Handler : pc[h] = "notifying" => stored
  /\ \A h \in Handler : Alive(h) /\ tx[h] = "sent" => stored
  /\ stored => \E h \in Handler :
       Alive(h) /\ (pc[h] = "notifying" \/ tx[h] = "sent")

IInv == Typed /\ OneEnters /\ OneReceiver /\ OneOwner /\ Announced
-----------------------------------------------------------------------------
(* The proofs.                                                             *)

\* It holds before the primary connects.
LEMMA Starts == Init => IInv
<1> SUFFICES ASSUME Init PROVE IInv
  OBVIOUS
<1>1. Typed
  BY DEF Init, Typed, Place
<1>2. OneEnters
  BY DEF Init, OneEnters, Entering
<1>3. OneReceiver
  BY DEF Init, OneReceiver, Entering
<1>4. OneOwner
  BY DEF Init, OneOwner
<1>5. Announced
  BY HandlerAssumption DEF Init, Announced, Alive
<1> QED BY <1>1, <1>2, <1>3, <1>4, <1>5 DEF IInv

\* The primary connects: the new handler owns nothing yet.
LEMMA ConnectKeeps ==
  ASSUME IInv, Punctual, NEW h \in Handler, Connect(h)
  PROVE  IInv'
<1>1. Typed'
  BY DEF Connect, Goto, IInv, Typed, Place
<1>2. OneEnters'
  BY DEF Connect, Goto, IInv, OneEnters, Entering
<1>3. OneReceiver'
  BY DEF Connect, Goto, IInv, Typed, OneReceiver, Entering, Alive
<1>4. OneOwner'
  BY DEF Connect, Goto, IInv, OneOwner
<1>5. Announced'
  BY DEF Connect, Goto, IInv, Announced, Alive
<1> QED BY <1>1, <1>2, <1>3, <1>4, <1>5 DEF IInv

\* A connection breaks: no pool and no receiver moves.
LEMMA BreakKeeps ==
  ASSUME IInv, Punctual, NEW h \in Handler, Break(h)
  PROVE  IInv'
<1>1. Typed'
  BY DEF Break, IInv, Typed
<1>2. OneEnters'
  BY DEF Break, IInv, OneEnters, Entering
<1>3. OneReceiver'
  BY DEF Break, IInv, OneReceiver, Entering, Alive
<1>4. OneOwner'
  BY DEF Break, IInv, OneOwner
<1>5. Announced'
  BY DEF Break, IInv, Announced, Alive
<1> QED BY <1>1, <1>2, <1>3, <1>4, <1>5 DEF IInv

\* The primary drops the sender of a handler that has returned.
LEMMA SenderDroppedKeeps ==
  ASSUME IInv, Punctual, NEW h \in Handler, SenderDropped(h)
  PROVE  IInv'
<1>1. Typed'
  BY DEF SenderDropped, IInv, Typed
<1>2. OneEnters'
  BY DEF SenderDropped, IInv, OneEnters, Entering
<1>3. OneReceiver'
  BY DEF SenderDropped, IInv, OneReceiver, Entering, Alive
<1>4. OneOwner'
  BY DEF SenderDropped, IInv, OneOwner
<1>5. Announced'
  BY DEF SenderDropped, IInv, Announced, Alive
<1> QED BY <1>1, <1>2, <1>3, <1>4, <1>5 DEF IInv

\* A handler that cannot prepare leaves before it has a pool.
LEMMA PrepareFailsKeeps ==
  ASSUME IInv, Punctual, NEW h \in Handler, PrepareFails(h)
  PROVE  IInv'
<1>1. Typed'
  BY DEF PrepareFails, Goto, Return, IInv, Typed, Place
<1>2. OneEnters'
  BY DEF PrepareFails, Goto, Return, IInv, OneEnters, Entering
<1>3. OneReceiver'
  BY DEF PrepareFails, Goto, Return, IInv, Typed, OneReceiver, Entering, Alive
<1>4. OneOwner'
  BY DEF PrepareFails, Goto, Return, IInv, OneOwner
<1>5. Announced'
  BY DEF PrepareFails, Goto, Return, IInv, Announced, Alive
<1> QED BY <1>1, <1>2, <1>3, <1>4, <1>5 DEF IInv

\* init_connection_pool: the receiver is taken out of the map, or there is
\* none and a pool is created.
LEMMA TakeListenerKeeps ==
  ASSUME IInv, Punctual, NEW h \in Handler, TakeListener(h)
  PROVE  IInv'
<1>1. Typed'
  BY DEF TakeListener, Goto, IInv, Typed, Place
<1>2. OneEnters'
  BY DEF TakeListener, Goto, IInv, Typed, OneEnters, Entering
<1>3. OneReceiver'
  BY HandlerAssumption DEF TakeListener, Goto, IInv, Typed, OneReceiver,
       Entering, Alive
<1>4. OneOwner'
  BY HandlerAssumption DEF TakeListener, Goto, IInv, Typed, OneEnters,
       OneOwner, Announced, Entering, Alive
<1>5. Announced'
  BY HandlerAssumption DEF TakeListener, Goto, IInv, Typed, Announced, Alive
<1> QED BY <1>1, <1>2, <1>3, <1>4, <1>5 DEF IInv

\* init_connection_pool: the wait ends with a notification, and the pool is
\* taken from CONNECTION_POOLS.
LEMMA NotifiedKeeps ==
  ASSUME IInv, Punctual, NEW h \in Handler, Notified(h)
  PROVE  IInv'
<1>0. stored
  <2>1. rx[h] \in Handler /\ Alive(rx[h]) /\ tx[rx[h]] = "sent"
    BY DEF Notified, IInv, Typed, OneReceiver, Alive
  <2> QED BY <2>1 DEF IInv, Announced
<1>00. /\ owns' = owns \cup {h} /\ pc' = [pc EXCEPT ![h] = "registering"]
       /\ rx' = [rx EXCEPT ![h] = None] /\ stored' = FALSE
       /\ UNCHANGED <<listener, tx, link, over>>
  BY <1>0 DEF Notified, Goto
<1>1. Typed'
  BY <1>00 DEF IInv, Typed, Place
<1>2. OneEnters'
  BY DEF Notified, Goto, IInv, Typed, OneEnters, Entering
<1>3. OneReceiver'
  BY DEF Notified, Goto, IInv, Typed, OneReceiver, Entering, Alive
<1>4. OneOwner'
  BY DEF Notified, Goto, IInv, Typed, OneOwner
<1>5. Announced'
  BY HandlerAssumption DEF Notified, Goto, IInv, Typed, OneEnters,
       OneReceiver, Announced, Entering, Alive
<1> QED BY <1>1, <1>2, <1>3, <1>4, <1>5 DEF IInv

\* init_connection_pool: the wait times out and the receiver is put back.
LEMMA GiveUpKeeps ==
  ASSUME IInv, Punctual, NEW h \in Handler, GiveUp(h)
  PROVE  IInv'
<1>1. Typed'
  BY DEF GiveUp, Goto, Return, IInv, Typed, Place
<1>2. OneEnters'
  BY DEF GiveUp, Goto, Return, IInv, OneEnters, Entering
<1>3. OneReceiver'
  BY DEF GiveUp, Goto, Return, IInv, Typed, OneEnters, OneReceiver, Entering
<1>4. OneOwner'
  BY DEF GiveUp, Goto, Return, IInv, OneOwner
<1>5. Announced'
  BY HandlerAssumption DEF GiveUp, Goto, Return, IInv, OneReceiver, Announced,
       Alive
<1> QED BY <1>1, <1>2, <1>3, <1>4, <1>5 DEF IInv

\* init_connection_pool: the receiver of the new owner enters the map.
LEMMA RegisterKeeps ==
  ASSUME IInv, Punctual, NEW h \in Handler, Register(h)
  PROVE  IInv'
<1>0. /\ h \in owns /\ ~stored /\ owns = {h}
      /\ \A k \in Handler : k # h => ~Entering(k)
  BY DEF Register, IInv, Typed, OneEnters, OneOwner, Entering
<1>1. Typed'
  BY DEF Register, Goto, IInv, Typed, Place
<1>2. OneEnters'
  BY DEF Register, Goto, IInv, OneEnters, Entering
<1>3. OneReceiver'
  BY DEF Register, Goto, IInv, Typed, OneEnters, OneReceiver, Entering
<1>4. OneOwner'
  BY DEF Register, Goto, IInv, OneOwner
<1>5. Announced'
  BY HandlerAssumption DEF Register, Goto, IInv, OneReceiver, Announced,
       Entering, Alive
<1> QED BY <1>1, <1>2, <1>3, <1>4, <1>5 DEF IInv

\* A receive error: the pool is stored.
LEMMA ReceiveErrorKeeps ==
  ASSUME IInv, Punctual, NEW h \in Handler, ReceiveError(h)
  PROVE  IInv'
<1>1. Typed'
  BY DEF ReceiveError, Goto, IInv, Typed, Place
<1>2. OneEnters'
  BY DEF ReceiveError, Goto, IInv, OneEnters, Entering
<1>3. OneReceiver'
  BY DEF ReceiveError, Goto, IInv, OneReceiver, Entering, Alive
<1>4. OneOwner'
  BY DEF ReceiveError, Goto, IInv, Typed, OneOwner
<1>5. Announced'
  BY DEF ReceiveError, Goto, IInv, Typed, Announced, Alive
<1> QED BY <1>1, <1>2, <1>3, <1>4, <1>5 DEF IInv

\* The owner that has stored its pool notifies its receiver.
LEMMA NotifyKeeps ==
  ASSUME IInv, Punctual, NEW h \in Handler, Notify(h)
  PROVE  IInv'
<1>1. Typed'
  BY DEF Notify, Goto, IInv, Typed, Place
<1>2. OneEnters'
  BY DEF Notify, Goto, IInv, OneEnters, Entering
<1>3. OneReceiver'
  BY DEF Notify, Goto, IInv, OneReceiver, Entering, Alive
<1>4. OneOwner'
  BY DEF Notify, Goto, IInv, OneOwner
<1>5. Announced'
  BY DEF Notify, Goto, IInv, Typed, Announced, Alive
<1> QED BY <1>1, <1>2, <1>3, <1>4, <1>5 DEF IInv

\* The stream ends without Finished: the pool goes with the handler.
LEMMA ReceiveNoneKeeps ==
  ASSUME IInv, Punctual, NEW h \in Handler, ReceiveNone(h)
  PROVE  IInv'
<1>1. Typed'
  BY DEF ReceiveNone, Goto, Return, IInv, Typed, Place
<1>2. OneEnters'
  BY DEF ReceiveNone, Goto, Return, IInv, OneEnters, Entering
<1>3. OneReceiver'
  BY DEF ReceiveNone, Goto, Return, IInv, OneReceiver, Entering, Alive
<1>4. OneOwner'
  BY DEF ReceiveNone, Goto, Return, IInv, Typed, OneOwner
<1>5. Announced'
  BY DEF ReceiveNone, Goto, Return, IInv, Typed, Announced, Alive
<1> QED BY <1>1, <1>2, <1>3, <1>4, <1>5 DEF IInv

\* A handler returns because it could not prepare after a Reset.
LEMMA ResetFailsKeeps ==
  ASSUME IInv, Punctual, NEW h \in Handler, ResetFails(h)
  PROVE  IInv'
<1>1. Typed'
  BY DEF ResetFails, Goto, Return, IInv, Typed, Place
<1>2. OneEnters'
  BY DEF ResetFails, Goto, Return, IInv, OneEnters, Entering
<1>3. OneReceiver'
  BY DEF ResetFails, Goto, Return, IInv, OneReceiver, Entering, Alive
<1>4. OneOwner'
  BY DEF ResetFails, Goto, Return, IInv, Typed, OneOwner
<1>5. Announced'
  BY DEF ResetFails, Goto, Return, IInv, Typed, Announced, Alive
<1> QED BY <1>1, <1>2, <1>3, <1>4, <1>5 DEF IInv

\* Finished: the stored pool is removed.
LEMMA FinishedKeeps ==
  ASSUME IInv, Punctual, NEW h \in Handler, Finished(h)
  PROVE  IInv'
<1>1. Typed'
  BY DEF Finished, Goto, IInv, Typed, Place
<1>2. OneEnters'
  BY DEF Finished, Goto, IInv, OneEnters, Entering
<1>3. OneReceiver'
  BY DEF Finished, Goto, IInv, OneReceiver, Entering, Alive
<1>4. OneOwner'
  BY DEF Finished, Goto, IInv, OneOwner
<1>5. Announced'
  BY DEF Finished, Goto, IInv, OneOwner, Announced, Alive
<1> QED BY <1>1, <1>2, <1>3, <1>4, <1>5 DEF IInv

\* Finished: the receiver is removed, and the pool goes with the handler.
LEMMA ClearKeeps ==
  ASSUME IInv, Punctual, NEW h \in Handler, Clear(h)
  PROVE  IInv'
<1>1. Typed'
  BY DEF Clear, Goto, Return, IInv, Typed, Place
<1>2. OneEnters'
  BY DEF Clear, Goto, Return, IInv, OneEnters, Entering
<1>3. OneReceiver'
  BY HandlerAssumption DEF Clear, Goto, Return, IInv, OneReceiver, Entering,
       Alive
<1>4. OneOwner'
  BY DEF Clear, Goto, Return, IInv, Typed, OneOwner
<1>5. Announced'
  BY HandlerAssumption DEF Clear, Goto, Return, IInv, OneOwner, Announced,
       Alive
<1> QED BY <1>1, <1>2, <1>3, <1>4, <1>5 DEF IInv

\* The primary ends the job.
LEMMA JobEndsKeeps ==
  ASSUME IInv, Punctual, NEW message \in {"finished", "closed"},
         JobEnds(message)
  PROVE  IInv'
<1>1. Typed'
  BY DEF JobEnds, IInv, Typed
<1>2. OneEnters'
  BY DEF JobEnds, IInv, OneEnters, Entering
<1>3. OneReceiver'
  BY DEF JobEnds, IInv, OneReceiver, Entering, Alive
<1>4. OneOwner'
  BY DEF JobEnds, IInv, OneOwner
<1>5. Announced'
  BY DEF JobEnds, IInv, Announced, Alive
<1> QED BY <1>1, <1>2, <1>3, <1>4, <1>5 DEF IInv

-----------------------------------------------------------------------------
(* The theorems.                                                           *)

\* IInv is an invariant, if handlers are punctual.
LEMMA Invariance ==
  ASSUME Punctual
  PROVE  Spec => []IInv
<1>1. ASSUME IInv, [Next]_vars PROVE IInv'
  <2>1. ASSUME NEW h \in Handler, HandlerStep(h) PROVE IInv'
    BY <1>1, <2>1, PrepareFailsKeeps, TakeListenerKeeps, NotifiedKeeps,
         GiveUpKeeps, RegisterKeeps, ReceiveErrorKeeps, NotifyKeeps,
         ReceiveNoneKeeps, FinishedKeeps, ClearKeeps DEF HandlerStep
  <2>2. ASSUME NEW h \in Handler,
               Connect(h) \/ Break(h) \/ SenderDropped(h) \/ ResetFails(h)
        PROVE  IInv'
    BY <1>1, <2>2, ConnectKeeps, BreakKeeps, SenderDroppedKeeps,
         ResetFailsKeeps
  <2>3. ASSUME NEW message \in {"finished", "closed"}, JobEnds(message)
        PROVE  IInv'
    BY <1>1, <2>3, JobEndsKeeps
  <2>4. CASE UNCHANGED vars
    BY <1>1, <2>4 DEF vars, IInv, Typed, OneEnters, OneReceiver, OneOwner,
         Announced, Entering, Alive
  <2> QED BY <1>1, <2>1, <2>2, <2>3, <2>4 DEF Next
<1> QED BY <1>1, Starts, PTL DEF Spec

\* "should avoid creating new pool when reconnected" (secondary.rs:475-476):
\* it does, when a handler has its pool or has given up before the primary
\* connects again, however often the connection breaks.
THEOREM OnePoolAlways ==
  ASSUME Punctual
  PROVE  Spec => []OnePool
<1>1. ASSUME IInv PROVE OnePool
  <2>1. CASE owns = {}
    <3>1. Cardinality(owns) = 0
      BY <2>1, FS_EmptySet
    <3> QED BY <3>1 DEF OnePool
  <2>2. CASE owns # {}
    <3>1. PICK h \in owns : TRUE
      BY <2>2
    <3>2. owns = {h}
      BY <1>1 DEF IInv, Typed, OneOwner
    <3>3. Cardinality(owns) = 1
      BY <3>2, FS_Singleton
    <3>4. ~stored
      BY <1>1 DEF IInv, OneOwner
    <3> QED BY <3>3, <3>4 DEF OnePool
  <2> QED BY <2>1, <2>2
<1> QED BY <1>1, Invariance, PTL

\* Under the same assumption the unwrap of a notified handler
\* (secondary.rs:531) finds the pool.
THEOREM NoPanicAlways ==
  ASSUME Punctual
  PROVE  Spec => []NoPanic
<1>1. IInv => NoPanic
  BY DEF IInv, Typed, Place, NoPanic
<1> QED BY <1>1, Invariance, PTL
=============================================================================
