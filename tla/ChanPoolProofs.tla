--------------------------- MODULE ChanPoolProofs ---------------------------
(***************************************************************************)
(* Safety of the pool for every set of workers, closers and clients and    *)
(* every capacity.                                                         *)
(*                                                                         *)
(* NoPanic is not inductive: that nobody sends on the closed channel rests *)
(* on the mutex (LockInv) and on the order "clear the field, unlock, then  *)
(* close" (ChanInv).  ExclusiveLease rests on HoldInv, which says between  *)
(* which steps a worker has a client.                                      *)
(***************************************************************************)
EXTENDS ChanPoolLease, SequenceTheorems, FiniteSetTheorems, TLAPS

-----------------------------------------------------------------------------
(* The channel's buffer *)

\* Receiving takes the first client and leaves the others in their order.
LEMMA BufferReceive ==
    ASSUME NEW S, NEW s \in Seq(S), s # <<>>
    PROVE  /\ Head(s) = s[1] /\ Head(s) \in S
           /\ 1 \in DOMAIN s
           /\ Tail(s) \in Seq(S)
           /\ Len(Tail(s)) = Len(s) - 1
           /\ \A i \in DOMAIN Tail(s) : i + 1 \in DOMAIN s /\ Tail(s)[i] = s[i + 1]
<1>1. /\ Tail(s) \in Seq(S) /\ Len(Tail(s)) = Len(s) - 1
      /\ \A i \in 1..Len(Tail(s)) : Tail(s)[i] = s[i + 1]
      /\ Head(s) \in S
  BY HeadTailProperties
<1>2. Len(s) \in Nat /\ Len(s) # 0 /\ DOMAIN s = 1..Len(s)
  BY EmptySeq, LenProperties
<1>3. DOMAIN Tail(s) = 1..Len(Tail(s))
  BY <1>1, LenProperties
<1>4. Head(s) = s[1]
  BY <1>2
<1> QED
  BY <1>1, <1>2, <1>3, <1>4

\* Sending adds the client at the end.
LEMMA BufferSend ==
    ASSUME NEW S, NEW s \in Seq(S), NEW x \in S
    PROVE  /\ Append(s, x) \in Seq(S)
           /\ Len(Append(s, x)) = Len(s) + 1
           /\ DOMAIN Append(s, x) = (DOMAIN s) \cup {Len(s) + 1}
           /\ \A i \in DOMAIN s : Append(s, x)[i] = s[i] /\ i # Len(s) + 1
           /\ Append(s, x)[Len(s) + 1] = x
<1>1. /\ Append(s, x) \in Seq(S) /\ Len(Append(s, x)) = Len(s) + 1
      /\ \A i \in 1..Len(s) : Append(s, x)[i] = s[i]
      /\ Append(s, x)[Len(s) + 1] = x
  BY AppendProperties
<1>2. Len(s) \in Nat /\ DOMAIN s = 1..Len(s)
      /\ DOMAIN Append(s, x) = 1..Len(Append(s, x))
  BY <1>1, LenProperties
<1> QED
  BY <1>1, <1>2

-----------------------------------------------------------------------------
(* Type correctness *)

\* The initial state has the types.
LEMMA InitTypeOK == Init => TypeOK
<1> SUFFICES ASSUME Init PROVE TypeOK
  OBVIOUS
<1> USE CapacityAssumption
<1>1. buf \in [1..InitialCap -> Clients] BY DEF Init
<1>2. buf \in Seq(Clients) BY <1>1
<1>3. Len(buf) = InitialCap BY <1>1
<1> QED BY <1>2, <1>3 DEF Init, TypeOK

\* Every step keeps the types, given that a client is held where one is sent.
LEMMA NextTypeOK == TypeOK /\ HoldInv /\ [Next]_vars => TypeOK'
<1> SUFFICES ASSUME TypeOK, HoldInv, [Next]_vars PROVE TypeOK'
  OBVIOUS
<1> USE CapacityAssumption DEF TypeOK
<1>1. ASSUME NEW w \in Workers, GetCall(w) PROVE TypeOK'
  BY <1>1 DEF GetCall
<1>2. ASSUME NEW w \in Workers, Get(w) PROVE TypeOK'
  <2>1. CASE GetCheck(w) BY <2>1 DEF GetCheck
  <2>2. CASE GetLoad(w) BY <2>2 DEF GetLoad
  <2>3. CASE GetReceive(w)
    <3>1. Head(buf) \in Clients /\ Tail(buf) \in Seq(Clients) /\ Len(Tail(buf)) = Len(buf) - 1
      BY <2>3, BufferReceive DEF GetReceive
    <3>2. Len(buf) \in Nat BY LenProperties
    <3> QED BY <2>3, <3>1, <3>2 DEF GetReceive
  <2>4. CASE GetDrained(w) BY <2>4 DEF GetDrained
  <2>5. CASE GetFactory(w) BY <2>5 DEF GetFactory
  <2>6. CASE GetFailed(w) BY <2>6 DEF GetFailed
  <2> QED BY <1>2, <2>1, <2>2, <2>3, <2>4, <2>5, <2>6 DEF Get
<1>3. ASSUME NEW w \in Workers, Put(w) PROVE TypeOK'
  <2>1. CASE PutCall(w) BY <2>1 DEF PutCall
  <2>2. CASE PutRLock(w) BY <2>2 DEF PutRLock
  <2>3. CASE PutDropped(w) BY <2>3 DEF PutDropped, Returned
  <2>4. CASE PutCheck(w) BY <2>4 DEF PutCheck
  <2>5. CASE PutSend(w) /\ ~closed
    <3>1. held[w] \in Clients BY <2>5 DEF PutSend, HoldInv
    <3>2. Len(buf) \in Nat BY LenProperties
    <3>3. Append(buf, held[w]) \in Seq(Clients) /\ Len(Append(buf, held[w])) = Len(buf) + 1
      BY <3>1, BufferSend
    <3>4. buf' \in Seq(Clients) /\ Len(buf') <= MaxCap
      <4>1. CASE Len(buf) < MaxCap
        <5>1. buf' = Append(buf, held[w]) BY <2>5, <4>1 DEF PutSend
        <5> QED BY <3>2, <3>3, <4>1, <5>1
      <4>2. CASE ~(Len(buf) < MaxCap)
        <5>1. buf' = buf BY <2>5, <4>2 DEF PutSend
        <5> QED BY <5>1
      <4> QED BY <4>1, <4>2
    <3> QED BY <2>5, <3>4 DEF PutSend, Returned
  <2>6. CASE PutSend(w) /\ closed BY <2>6 DEF PutSend
  <2> QED BY <1>3, <2>1, <2>2, <2>3, <2>4, <2>5, <2>6 DEF Put
<1>4. ASSUME NEW c \in Closers, CloseLock(c) \/ Close(c) PROVE TypeOK'
  BY <1>4 DEF CloseLock, Close, CloseEnter, CloseSwap, CloseChan
<1>5. CASE UNCHANGED vars BY <1>5 DEF vars
<1> QED BY <1>1, <1>2, <1>3, <1>4, <1>5 DEF Next

-----------------------------------------------------------------------------
(* The mutex and the channel *)

\* The lock protocol: at most one announced writer, no reader inside with it.
LEMMA NextLockInv == TypeOK /\ LockInv /\ [Next]_vars => LockInv'
<1> SUFFICES ASSUME TypeOK, LockInv, [Next]_vars PROVE LockInv'
  OBVIOUS
<1> USE DEF TypeOK, LockInv, Readers, Pending
<1>1. ASSUME NEW w \in Workers, GetCall(w) PROVE LockInv'
  BY <1>1 DEF GetCall
<1>2. ASSUME NEW w \in Workers, Get(w) PROVE LockInv'
  BY <1>2 DEF Get, GetCheck, GetLoad, GetReceive, GetDrained, GetFactory, GetFailed
<1>3. ASSUME NEW w \in Workers, Put(w) PROVE LockInv'
  <2>1. CASE PutRLock(w) BY <2>1 DEF PutRLock
  <2>2. CASE ~PutRLock(w)
    BY <1>3, <2>2 DEF Put, PutCall, PutDropped, PutCheck, PutSend, Returned
  <2> QED BY <2>1, <2>2
<1>4. ASSUME NEW c \in Closers, CloseLock(c) PROVE LockInv'
  BY <1>4 DEF CloseLock
<1>5. ASSUME NEW c \in Closers, Close(c) PROVE LockInv'
  BY <1>5 DEF Close, CloseEnter, CloseSwap, CloseChan
<1>6. CASE UNCHANGED vars BY <1>6 DEF vars
<1> QED BY <1>1, <1>2, <1>3, <1>4, <1>5, <1>6 DEF Next

\* The life of the channel: field cleared by one closer, which then closes it.
LEMMA NextChanInv == TypeOK /\ LockInv /\ ChanInv /\ [Next]_vars => ChanInv'
<1> SUFFICES ASSUME TypeOK, LockInv, ChanInv, [Next]_vars PROVE ChanInv'
  OBVIOUS
<1> USE DEF TypeOK, ChanInv
<1>1. ASSUME NEW w \in Workers, GetCall(w) PROVE ChanInv'
  BY <1>1 DEF GetCall
<1>2. ASSUME NEW w \in Workers, Get(w) PROVE ChanInv'
  BY <1>2 DEF Get, GetCheck, GetLoad, GetReceive, GetDrained, GetFactory, GetFailed
<1>3. ASSUME NEW w \in Workers, Put(w) PROVE ChanInv'
  BY <1>3 DEF Put, PutCall, PutRLock, PutDropped, PutCheck, PutSend, Returned
<1>4. ASSUME NEW c \in Closers, CloseLock(c) \/ CloseEnter(c) PROVE ChanInv'
  BY <1>4 DEF CloseLock, CloseEnter
<1>5. ASSUME NEW c \in Closers, CloseSwap(c) PROVE ChanInv'
  <2>1. \A w \in Workers : pc[w] # "put_send"
    BY <1>5 DEF CloseSwap, LockInv, Readers
  <2> QED BY <1>5, <2>1 DEF CloseSwap
<1>6. ASSUME NEW c \in Closers, CloseChan(c) PROVE ChanInv'
  BY <1>6 DEF CloseChan
<1>7. CASE UNCHANGED vars BY <1>7 DEF vars
<1> QED BY <1>1, <1>2, <1>3, <1>4, <1>5, <1>6, <1>7 DEF Next, Close

\* No send and no close meets a closed channel.
LEMMA NextNoPanic == TypeOK /\ ChanInv /\ NoPanic /\ [Next]_vars => NoPanic'
<1> SUFFICES ASSUME TypeOK, ChanInv, NoPanic, [Next]_vars PROVE NoPanic'
  OBVIOUS
<1> USE DEF TypeOK, NoPanic
<1>1. ASSUME NEW w \in Workers, GetCall(w) PROVE NoPanic'
  BY <1>1 DEF GetCall
<1>2. ASSUME NEW w \in Workers, Get(w) PROVE NoPanic'
  BY <1>2 DEF Get, GetCheck, GetLoad, GetReceive, GetDrained, GetFactory, GetFailed
<1>3. ASSUME NEW w \in Workers, Put(w) PROVE NoPanic'
  <2>1. ~(PutSend(w) /\ closed) BY DEF PutSend, ChanInv
  <2> QED BY <1>3, <2>1 DEF Put, PutCall, PutRLock, PutDropped, PutCheck, PutSend, Returned
<1>4. ASSUME NEW c \in Closers, CloseLock(c) \/ CloseEnter(c) \/ CloseSwap(c) PROVE NoPanic'
  BY <1>4 DEF CloseLock, CloseEnter, CloseSwap
<1>5. ASSUME NEW c \in Closers, CloseChan(c) PROVE NoPanic'
  BY <1>5 DEF CloseChan, ChanInv
<1>6. CASE UNCHANGED vars BY <1>6 DEF vars
<1> QED BY <1>1, <1>2, <1>3, <1>4, <1>5, <1>6 DEF Next, Close

-----------------------------------------------------------------------------
(* Leases *)

\* A worker holds a client exactly from the end of Get to the end of Put.
LEMMA NextHoldInv == TypeOK /\ NoPanic' /\ HoldInv /\ [Next]_vars => HoldInv'
<1> SUFFICES ASSUME TypeOK, NoPanic', HoldInv, [Next]_vars PROVE HoldInv'
  OBVIOUS
<1> USE NilAssumption DEF TypeOK, HoldInv
<1>1. ASSUME NEW w \in Workers, GetCall(w) PROVE HoldInv'
  BY <1>1 DEF GetCall
<1>2. ASSUME NEW w \in Workers, Get(w) PROVE HoldInv'
  <2>1. CASE GetReceive(w)
    <3>1. Head(buf) \in Clients BY <2>1, BufferReceive DEF GetReceive
    <3>2. Head(buf) # NilClient BY <3>1
    <3> QED BY <2>1, <3>2 DEF GetReceive
  <2>2. CASE GetFactory(w) BY <2>2 DEF GetFactory
  <2>3. CASE GetCheck(w) \/ GetLoad(w) \/ GetDrained(w) \/ GetFailed(w)
    BY <2>3 DEF GetCheck, GetLoad, GetDrained, GetFailed
  <2> QED BY <1>2, <2>1, <2>2, <2>3 DEF Get
<1>3. ASSUME NEW w \in Workers, Put(w) PROVE HoldInv'
  <2>1. ~(PutSend(w) /\ closed) BY DEF PutSend, NoPanic
  <2> QED BY <1>3, <2>1 DEF Put, PutCall, PutRLock, PutDropped, PutCheck, PutSend, Returned
<1>4. ASSUME NEW c \in Closers, CloseLock(c) \/ Close(c) PROVE HoldInv'
  BY <1>4 DEF CloseLock, Close, CloseEnter, CloseSwap, CloseChan
<1>5. CASE UNCHANGED vars BY <1>5 DEF vars
<1> QED BY <1>1, <1>2, <1>3, <1>4, <1>5 DEF Next

\* A Get called after the field was cleared stops at its first read.
LEMMA NextLateInv == TypeOK /\ LateInv /\ [Next]_vars => LateInv'
<1> SUFFICES ASSUME TypeOK, LateInv, [Next]_vars PROVE LateInv'
  OBVIOUS
<1> USE DEF TypeOK, LateInv
<1>1. ASSUME NEW w \in Workers, GetCall(w) PROVE LateInv'
  BY <1>1 DEF GetCall
<1>2. ASSUME NEW w \in Workers, Get(w) PROVE LateInv'
  BY <1>2 DEF Get, GetCheck, GetLoad, GetReceive, GetDrained, GetFactory, GetFailed
<1>3. ASSUME NEW w \in Workers, Put(w) PROVE LateInv'
  BY <1>3 DEF Put, PutCall, PutRLock, PutDropped, PutCheck, PutSend, Returned
<1>4. ASSUME NEW c \in Closers, CloseLock(c) \/ Close(c) PROVE LateInv'
  BY <1>4 DEF CloseLock, Close, CloseEnter, CloseSwap, CloseChan
<1>5. CASE UNCHANGED vars BY <1>5 DEF vars
<1> QED BY <1>1, <1>2, <1>3, <1>4, <1>5 DEF Next

\* Exclusivity passes through the receive, the factory and the send.
LEMMA NextExclusiveLease ==
    TypeOK /\ HoldInv /\ ExclusiveLease /\ [Next]_vars => ExclusiveLease'
<1> SUFFICES ASSUME TypeOK, HoldInv, ExclusiveLease, [Next]_vars PROVE ExclusiveLease'
  OBVIOUS
<1> USE NilAssumption DEF TypeOK, ExclusiveLease, Parked
<1>1. ASSUME UNCHANGED <<buf, held>> PROVE ExclusiveLease'
  BY <1>1
<1>2. ASSUME NEW w \in Workers, GetReceive(w) PROVE ExclusiveLease'
  <2> DEFINE h == Head(buf)
  <2>1. /\ h = buf[1] /\ h \in Clients /\ 1 \in DOMAIN buf
        /\ \A i \in DOMAIN Tail(buf) : i + 1 \in DOMAIN buf /\ Tail(buf)[i] = buf[i + 1]
    BY <1>2, BufferReceive DEF GetReceive
  <2>2. DOMAIN buf = 1..Len(buf) /\ Len(buf) \in Nat
        /\ Tail(buf) \in Seq(Clients) /\ DOMAIN Tail(buf) = 1..Len(Tail(buf))
        /\ Len(Tail(buf)) \in Nat
    <3>1. Tail(buf) \in Seq(Clients) BY <1>2, BufferReceive DEF GetReceive
    <3> QED BY <3>1, LenProperties
  <2>3. /\ buf' = Tail(buf) /\ held' = [held EXCEPT ![w] = h]
    BY <1>2 DEF GetReceive
  <2>4. \A v \in Workers : held[v] # h
    BY <2>1, NilAssumption
  <2>5. \A i \in DOMAIN buf' : buf'[i] \in Parked /\ buf'[i] # h
    <3>1. \A i \in DOMAIN Tail(buf) : i + 1 # 1 BY <2>2
    <3> QED BY <2>1, <2>3, <3>1
  <2>6. \A i, j \in DOMAIN buf' : buf'[i] = buf'[j] => i = j
    BY <2>1, <2>2, <2>3
  <2>7. \A u, v \in Workers : held'[u] = held'[v] /\ held'[u] # NilClient => u = v
    BY <2>3, <2>4
  <2>8. \A v \in Workers : held'[v] # NilClient => held'[v] \notin Parked'
    BY <2>3, <2>5
  <2> QED BY <2>6, <2>7, <2>8
<1>3. ASSUME NEW w \in Workers, GetFactory(w) PROVE ExclusiveLease'
  BY <1>3 DEF GetFactory, Live, Leased
<1>4. ASSUME NEW w \in Workers, Returned(w), UNCHANGED buf PROVE ExclusiveLease'
  BY <1>4 DEF Returned
<1>5. ASSUME NEW w \in Workers, PutSend(w), ~closed, Len(buf) < MaxCap PROVE ExclusiveLease'
  <2> DEFINE n == Len(buf) + 1
  <2>1. held[w] \in Clients BY <1>5 DEF PutSend, HoldInv
  <2>2. held[w] # NilClient /\ held[w] \notin Parked BY <2>1
  <2>3. /\ DOMAIN buf' = (DOMAIN buf) \cup {n}
        /\ \A i \in DOMAIN buf : buf'[i] = buf[i] /\ i # n
        /\ buf'[n] = held[w]
    BY <1>5, <2>1, BufferSend DEF PutSend
  <2>4. held' = [held EXCEPT ![w] = NilClient] BY <1>5 DEF PutSend, Returned
  <2>5. \A i, j \in DOMAIN buf' : buf'[i] = buf'[j] => i = j
    BY <2>2, <2>3
  <2>6. \A u, v \in Workers : held'[u] = held'[v] /\ held'[u] # NilClient => u = v
    BY <2>4
  <2>7. Parked' = Parked \cup {held[w]} BY <2>3
  <2>8. \A v \in Workers : held'[v] # NilClient => held'[v] = held[v] /\ held[v] # held[w]
    BY <2>2, <2>4
  <2>9. \A v \in Workers : held'[v] # NilClient => held'[v] \notin Parked'
    BY <2>7, <2>8
  <2> QED BY <2>5, <2>6, <2>9
<1>6. ASSUME NEW w \in Workers, GetCall(w) \/ Get(w) PROVE ExclusiveLease'
  BY <1>1, <1>2, <1>3, <1>6
     DEF GetCall, Get, GetCheck, GetLoad, GetDrained, GetFailed
<1>7. ASSUME NEW w \in Workers, Put(w) PROVE ExclusiveLease'
  <2>1. CASE PutSend(w)
    <3>1. CASE ~closed /\ Len(buf) < MaxCap BY <1>5, <2>1, <3>1
    <3>2. CASE ~closed /\ ~(Len(buf) < MaxCap) BY <1>4, <2>1, <3>2 DEF PutSend
    <3>3. CASE closed BY <1>1, <2>1, <3>3 DEF PutSend
    <3> QED BY <3>1, <3>2, <3>3
  <2>2. CASE PutDropped(w) BY <1>4, <2>2 DEF PutDropped
  <2>3. CASE PutCall(w) \/ PutRLock(w) \/ PutCheck(w)
    BY <1>1, <2>3 DEF PutCall, PutRLock, PutCheck
  <2> QED BY <1>7, <2>1, <2>2, <2>3 DEF Put
<1>8. ASSUME NEW c \in Closers, CloseLock(c) \/ Close(c) PROVE ExclusiveLease'
  BY <1>1, <1>8 DEF CloseLock, Close, CloseEnter, CloseSwap, CloseChan
<1>9. CASE UNCHANGED vars BY <1>1, <1>9 DEF vars
<1> QED BY <1>6, <1>7, <1>8, <1>9 DEF Next

-----------------------------------------------------------------------------
(* The theorems *)

\* The inductive invariant holds in every reachable state.
THEOREM IndInvariant == Spec => []IndInv
<1>1. Init => IndInv
  <2> SUFFICES ASSUME Init PROVE IndInv
    OBVIOUS
  <2>1. TypeOK BY InitTypeOK
  <2>2. LockInv /\ ChanInv /\ HoldInv /\ LateInv /\ NoPanic
    BY DEF Init, LockInv, ChanInv, HoldInv, LateInv, NoPanic, Readers, Pending
  <2>3. ExclusiveLease
    <3>1. \A w \in Workers : held[w] = NilClient
      BY DEF Init
    <3>2. DOMAIN buf = 1..InitialCap BY DEF Init
    <3> QED BY <3>1, <3>2 DEF Init, ExclusiveLease
  <2> QED BY <2>1, <2>2, <2>3 DEF IndInv
<1>2. IndInv /\ [Next]_vars => IndInv'
  BY NextTypeOK, NextLockInv, NextChanInv, NextNoPanic, NextHoldInv, NextLateInv,
     NextExclusiveLease DEF IndInv
<1> QED BY <1>1, <1>2, PTL DEF Spec

\* Type correctness, the buffer's capacity included (TypeOK, every field of
\* chanPool): the channel never holds more than maxCap clients.
THEOREM TypeCorrect == Spec => []TypeOK
<1>1. IndInv => TypeOK BY DEF IndInv
<1> QED BY <1>1, IndInvariant, PTL

\* Put never sends on a closed channel and Close never closes one twice
\* (chainpool.go, Put and Close), for any number of callers.
THEOREM PoolNeverPanics == Spec => []NoPanic
<1>1. IndInv => NoPanic BY DEF IndInv
<1> QED BY <1>1, IndInvariant, PTL

\* Get never hands one client to two requests (chainpool.go, Get and Put).
THEOREM LeaseIsExclusive == Spec => []ExclusiveLease
<1>1. IndInv => ExclusiveLease BY DEF IndInv
<1> QED BY <1>1, IndInvariant, PTL

\* A Get called after Close has cleared the field gets no client
\* (chainpool.go, the first test of Get).
THEOREM LateGetIsRefused == Spec => []LateGetRefused
<1>1. IndInv => LateGetRefused
  BY DEF IndInv, LateInv, HoldInv, LateGetRefused
<1> QED BY <1>1, IndInvariant, PTL

\* After Close has cleared the field no Put parks a client any more
\* (chainpool.go, the test of Put under RLock).
THEOREM NothingParkedAfterClose == Spec => NoParkAfterClose
<1>1. IndInv /\ [Next]_vars => [field = "nil" => Len(buf') <= Len(buf)]_vars
  <2> SUFFICES ASSUME IndInv, [Next]_vars, field = "nil" PROVE Len(buf') <= Len(buf)
    OBVIOUS
  <2>1. Len(buf) \in Nat BY LenProperties DEF IndInv, TypeOK
  <2>2. \A w \in Workers : ~PutSend(w) BY DEF IndInv, ChanInv, PutSend
  <2>3. ASSUME NEW w \in Workers, GetReceive(w) PROVE Len(buf') <= Len(buf)
    <3>1. Len(Tail(buf)) = Len(buf) - 1
      BY <2>3, BufferReceive DEF GetReceive, IndInv, TypeOK
    <3> QED BY <2>1, <2>3, <3>1 DEF GetReceive
  <2>4. CASE UNCHANGED buf BY <2>1, <2>4
  <2>5. (\E w \in Workers : GetReceive(w)) \/ UNCHANGED buf
    BY <2>2 DEF Next, vars, GetCall, Get, GetCheck, GetLoad, GetDrained, GetFactory,
       GetFailed, Put, PutCall, PutRLock, PutDropped, PutCheck,
       CloseLock, Close, CloseEnter, CloseSwap, CloseChan
  <2> QED BY <2>3, <2>4, <2>5
<1> QED BY <1>1, IndInvariant, PTL DEF Spec, NoParkAfterClose

-----------------------------------------------------------------------------
(* chainpool.go keeps the promise of LeasePool.  One action of the pool is one      *)
(* action of LeasePool (GetCall, GetReceive, GetFactory, GetDrained, the refusing   *)
(* GetCheck, the returns of Put, the first CloseSwap) or leaves its state alone.    *)
(* The steps rest on IndInv: a Put that sends finds the pool open, a call decided   *)
(* by a client is an early one, and what the factory makes is in no one's hands.    *)

\* The instance brings a Cardinality of its own, by the same definition.
LEMMA SameCardinality == \A S : Lease!Cardinality(S) = Cardinality(S)
BY DEF Lease!Cardinality, Lease!IsFiniteSet, Cardinality, IsFiniteSet

-----------------------------------------------------------------------------
(* The parked clients *)

\* The channel holds no more different clients than it has elements.
LEMMA ParkedIsBounded ==
    ASSUME TypeOK
    PROVE  IsFiniteSet(Parked) /\ Cardinality(Parked) <= Len(buf)
<1>1. /\ Len(buf) \in Nat /\ DOMAIN buf = 1..Len(buf) /\ buf \in [1..Len(buf) -> Clients]
  BY LenProperties DEF TypeOK
<1>2. buf \in [1..Len(buf) -> Parked] BY <1>1 DEF Parked
<1>3. buf \in Surjection(1..Len(buf), Parked) BY <1>1, <1>2 DEF Surjection, Parked
<1>4. IsFiniteSet(1..Len(buf)) /\ Cardinality(1..Len(buf)) <= Len(buf)
  BY <1>1, FS_Interval
<1>5. IsFiniteSet(Parked) /\ Cardinality(Parked) <= Cardinality(1..Len(buf))
  BY <1>3, <1>4, FS_Surjection
<1>6. Cardinality(Parked) \in Nat /\ Cardinality(1..Len(buf)) \in Nat
  BY <1>4, <1>5, FS_CardinalityType
<1> QED BY <1>1, <1>4, <1>5, <1>6

\* NewChanPool parks InitialCap different clients.
LEMMA InitialClients ==
    ASSUME Init
    PROVE  Parked \in {S \in SUBSET Clients : Cardinality(S) = InitialCap}
<1>1. InitialCap \in Nat /\ buf \in [1..InitialCap -> Clients]
      /\ \A i, j \in 1..InitialCap : buf[i] = buf[j] => i = j
  BY CapacityAssumption DEF Init
<1>2. DOMAIN buf = 1..InitialCap BY <1>1
<1>3. buf \in [1..InitialCap -> Parked] BY <1>1, <1>2 DEF Parked
<1>4. buf \in Bijection(1..InitialCap, Parked)
  BY <1>1, <1>2, <1>3 DEF Bijection, Injection, IsInjective, Surjection, Parked
<1>5. ExistsBijection(1..InitialCap, Parked) BY <1>4 DEF ExistsBijection
<1>6. Cardinality(Parked) = InitialCap BY <1>1, <1>5, FS_CountingElements
<1>7. Parked \subseteq Clients BY <1>1, <1>2 DEF Parked
<1> QED BY <1>6, <1>7

\* Receiving takes one client from the parked ones, sending adds one.
LEMMA ParkedReceive ==
    ASSUME TypeOK, ExclusiveLease, buf # <<>>, buf' = Tail(buf)
    PROVE  Head(buf) \in Parked /\ Parked' = Parked \ {Head(buf)}
<1> DEFINE h == Head(buf)
<1>1. /\ h = buf[1] /\ 1 \in DOMAIN buf /\ Tail(buf) \in Seq(Clients)
      /\ Len(Tail(buf)) = Len(buf) - 1
      /\ \A i \in DOMAIN Tail(buf) : i + 1 \in DOMAIN buf /\ Tail(buf)[i] = buf[i + 1]
  BY BufferReceive DEF TypeOK
<1>2. /\ DOMAIN buf = 1..Len(buf) /\ Len(buf) \in Nat
      /\ DOMAIN Tail(buf) = 1..Len(Tail(buf)) /\ Len(Tail(buf)) \in Nat
  BY <1>1, LenProperties DEF TypeOK
<1>3. \A i \in DOMAIN Tail(buf) : Tail(buf)[i] \in Parked /\ Tail(buf)[i] # h
  <2>1. \A i \in DOMAIN Tail(buf) : i + 1 # 1 BY <1>2
  <2> QED BY <1>1, <2>1 DEF ExclusiveLease, Parked
<1>4. \A j \in DOMAIN buf : j # 1 => j - 1 \in DOMAIN Tail(buf) /\ Tail(buf)[j - 1] = buf[j]
  BY <1>1, <1>2
<1>5. Parked' = {Tail(buf)[i] : i \in DOMAIN Tail(buf)} BY DEF Parked
<1>6. h \in Parked BY <1>1 DEF Parked
<1>7. Parked \ {h} \subseteq {Tail(buf)[i] : i \in DOMAIN Tail(buf)}
  <2> SUFFICES ASSUME NEW x \in Parked, x # h
               PROVE  \E i \in DOMAIN Tail(buf) : x = Tail(buf)[i]
    OBVIOUS
  <2>1. PICK j \in DOMAIN buf : x = buf[j] BY DEF Parked
  <2>2. j # 1 BY <1>1, <2>1
  <2> QED BY <1>4, <2>1, <2>2
<1>8. {Tail(buf)[i] : i \in DOMAIN Tail(buf)} \subseteq Parked \ {h}
  BY <1>3
<1> QED BY <1>5, <1>6, <1>7, <1>8

LEMMA ParkedSend ==
    ASSUME TypeOK, NEW x \in Clients, buf' = Append(buf, x)
    PROVE  Parked' = Parked \cup {x}
<1> DEFINE n == Len(buf) + 1
<1>1. /\ DOMAIN buf' = (DOMAIN buf) \cup {n}
      /\ \A i \in DOMAIN buf : buf'[i] = buf[i]
      /\ buf'[n] = x
  BY BufferSend DEF TypeOK
<1> QED BY <1>1 DEF Parked

-----------------------------------------------------------------------------
(* Steps *)

\* call of LeasePool follows the label and the lateness of each worker.
LEMMA CallsStay ==
    ASSUME \A w \in Workers : CallOf(w)' = CallOf(w)
    PROVE  Calls' = Calls
BY DEF Calls

LEMMA CallChanges ==
    ASSUME NEW w \in Workers, \A v \in Workers \ {w} : CallOf(v)' = CallOf(v)
    PROVE  Calls[w] = CallOf(w) /\ Calls' = [Calls EXCEPT ![w] = CallOf(w)']
BY DEF Calls

\* A step that leaves alone what LeasePool sees.
LEMMA Stutter ==
    ASSUME UNCHANGED <<field, buf, held>>, \A w \in Workers : CallOf(w)' = CallOf(w)
    PROVE  UNCHANGED Lease!lvars
BY CallsStay DEF Lease!lvars, Open, Parked

LEMMA GetImplements ==
    ASSUME IndInv, NEW w \in Workers, GetCall(w) \/ Get(w)
    PROVE  [Lease!LNext]_(Lease!lvars)
<1> USE DEF IndInv, TypeOK, CallOf, Undecided
<1>1. CASE GetCall(w)
  <2>1. Calls[w] = "none" /\ Calls' = [Calls EXCEPT ![w] = IF Open THEN "early" ELSE "late"]
    BY <1>1, CallChanges DEF GetCall, Open
  <2>2. held[w] = NilClient BY <1>1 DEF GetCall, HoldInv
  <2>3. UNCHANGED <<Open, Parked, held>> BY <1>1 DEF GetCall, Open, Parked
  <2>4. Lease!Call(w) BY <2>1, <2>2, <2>3 DEF Lease!Call
  <2> QED BY <2>4 DEF Lease!LNext
<1>2. CASE GetCheck(w) /\ field = "nil"
  <2>1. Calls[w] # "none" /\ Calls' = [Calls EXCEPT ![w] = "none"]
    BY <1>2, CallChanges DEF GetCheck
  <2>2. ~Open /\ UNCHANGED <<Open, Parked, held>> BY <1>2 DEF GetCheck, Open, Parked
  <2>3. Lease!Refuse(w) BY <2>1, <2>2 DEF Lease!Refuse
  <2> QED BY <2>3 DEF Lease!LNext
<1>3. CASE GetCheck(w) /\ field # "nil"
  BY <1>3, Stutter DEF GetCheck
<1>4. CASE GetLoad(w)
  BY <1>4, Stutter DEF GetLoad
<1>5. CASE GetReceive(w)
  <2>1. Calls[w] = "early" /\ Calls' = [Calls EXCEPT ![w] = "none"]
    BY <1>5, CallChanges DEF GetReceive, LateInv
  <2>2. Head(buf) \in Parked /\ Parked' = Parked \ {Head(buf)}
    BY <1>5, ParkedReceive DEF GetReceive
  <2>3. held' = [held EXCEPT ![w] = Head(buf)] /\ UNCHANGED Open
    BY <1>5 DEF GetReceive, Open
  <2>4. Lease!Grant(w) BY <2>1, <2>2, <2>3 DEF Lease!Grant
  <2> QED BY <2>4 DEF Lease!LNext
<1>6. CASE GetFactory(w)
  <2>1. Calls[w] = "early" /\ Calls' = [Calls EXCEPT ![w] = "none"]
    BY <1>6, CallChanges DEF GetFactory, LateInv
  <2>2. PICK c \in Clients \ Live : held' = [held EXCEPT ![w] = c]
    BY <1>6 DEF GetFactory
  <2>3. c \in Lease!Free
    BY <2>2, NilAssumption DEF Lease!Free, Live, Leased
  <2>4. Parked' = Parked \ {c} /\ UNCHANGED Open
    BY <1>6, <2>2 DEF GetFactory, Live, Parked, Open
  <2>5. Lease!Grant(w) BY <2>1, <2>2, <2>3, <2>4 DEF Lease!Grant
  <2> QED BY <2>5 DEF Lease!LNext
<1>7. CASE GetDrained(w)
  <2>1. Calls[w] # "none" /\ Calls' = [Calls EXCEPT ![w] = "none"]
    BY <1>7, CallChanges DEF GetDrained
  <2>2. ~Open /\ UNCHANGED <<Open, Parked, held>> BY <1>7 DEF GetDrained, ChanInv, Open, Parked
  <2>3. Lease!Refuse(w) BY <2>1, <2>2 DEF Lease!Refuse
  <2> QED BY <2>3 DEF Lease!LNext
<1>8. CASE GetFailed(w)
  BY <1>8, Stutter DEF GetFailed
<1> QED BY <1>1, <1>2, <1>3, <1>4, <1>5, <1>6, <1>7, <1>8 DEF Get

LEMMA PutImplements ==
    ASSUME IndInv, NEW w \in Workers, Put(w)
    PROVE  [Lease!LNext]_(Lease!lvars)
<1> USE DEF IndInv, TypeOK, CallOf, Undecided
<1>1. CASE PutCall(w) BY <1>1, Stutter DEF PutCall
<1>2. CASE PutRLock(w) BY <1>2, Stutter DEF PutRLock
<1>3. CASE PutCheck(w) BY <1>3, Stutter DEF PutCheck
<1>4. CASE PutDropped(w)
  <2>1. held[w] # NilClient BY <1>4 DEF PutDropped, HoldInv
  <2>2. Calls' = Calls BY <1>4, CallsStay DEF PutDropped, Returned
  <2>3. held' = [held EXCEPT ![w] = NilClient] /\ UNCHANGED <<Open, Parked>>
    BY <1>4 DEF PutDropped, Returned, Open, Parked
  <2>4. Lease!GiveBack(w) BY <2>1, <2>2, <2>3 DEF Lease!GiveBack
  <2> QED BY <2>4 DEF Lease!LNext
<1>5. CASE PutSend(w)
  <2>1. ~closed /\ Open BY <1>5 DEF PutSend, ChanInv, Open
  <2>2. held[w] \in Clients /\ held[w] # NilClient BY <1>5, NilAssumption DEF PutSend, HoldInv
  <2>3. Returned(w) /\ UNCHANGED field BY <1>5, <2>1 DEF PutSend
  <2>4. Calls' = Calls
    <3>1. pc[w] = "put_send" BY <1>5 DEF PutSend
    <3> QED BY <2>3, <3>1, CallsStay DEF Returned
  <2>5. held' = [held EXCEPT ![w] = NilClient] /\ UNCHANGED Open
    BY <2>3 DEF Returned, Open
  <2>6. CASE Len(buf) < MaxCap
    <3>1. Parked' = Parked \cup {held[w]} BY <1>5, <2>1, <2>2, <2>6, ParkedSend DEF PutSend
    <3>2. Cardinality(Parked) < MaxCap
      <4>1. Cardinality(Parked) \in Nat /\ Cardinality(Parked) <= Len(buf)
        BY ParkedIsBounded, FS_CardinalityType
      <4>2. Len(buf) \in Nat BY LenProperties
      <4> QED BY <2>6, <4>1, <4>2, CapacityAssumption
    <3>3. Lease!GiveBack(w)
      BY <2>1, <2>2, <2>4, <2>5, <3>1, <3>2, SameCardinality DEF Lease!GiveBack
    <3> QED BY <3>3 DEF Lease!LNext
  <2>7. CASE ~(Len(buf) < MaxCap)
    <3>1. Parked' = Parked BY <1>5, <2>1, <2>7 DEF PutSend, Parked
    <3>2. Lease!GiveBack(w) BY <2>2, <2>4, <2>5, <3>1 DEF Lease!GiveBack
    <3> QED BY <3>2 DEF Lease!LNext
  <2> QED BY <2>6, <2>7
<1> QED BY <1>1, <1>2, <1>3, <1>4, <1>5 DEF Put

LEMMA CloseImplements ==
    ASSUME IndInv, NEW c \in Closers, CloseLock(c) \/ Close(c)
    PROVE  [Lease!LNext]_(Lease!lvars)
<1> USE DEF IndInv, TypeOK, CallOf
<1>1. CASE CloseSwap(c) /\ field = "chan"
  <2>1. Calls' = Calls BY <1>1, CallsStay DEF CloseSwap
  <2>2. Open /\ Open' = FALSE /\ UNCHANGED <<Parked, held>>
    BY <1>1 DEF CloseSwap, Open, Parked
  <2>3. Lease!Shut BY <2>1, <2>2 DEF Lease!Shut
  <2> QED BY <2>3 DEF Lease!LNext
<1>2. CASE CloseSwap(c) /\ field = "nil"
  BY <1>2, Stutter DEF CloseSwap
<1>3. CASE CloseLock(c) \/ CloseEnter(c) \/ CloseChan(c)
  BY <1>3, Stutter DEF CloseLock, CloseEnter, CloseChan
<1> QED BY <1>1, <1>2, <1>3 DEF Close

-----------------------------------------------------------------------------
(* The refinement *)

\* The accesses of Get, Put and Close to shared memory, without a lock where the code
\* takes none, implement the pool that grants, refuses and takes back clients in one
\* step each (chainpool.go).
THEOREM PoolImplementsLeases == Spec => ImplementsLeasePool
<1>1. Init => Lease!LInit
  <2> SUFFICES ASSUME Init PROVE Lease!LInit
    OBVIOUS
  <2>1. Parked \in {S \in SUBSET Clients : Cardinality(S) = InitialCap} BY InitialClients
  <2>2. Calls = [w \in Workers |-> "none"] BY DEF Init, Calls, CallOf, Undecided
  <2>3. Open = TRUE BY DEF Init, Open
  <2>4. held = [w \in Workers |-> NilClient] BY DEF Init
  <2> QED BY <2>1, <2>2, <2>3, <2>4, SameCardinality DEF Lease!LInit
<1>2. IndInv /\ [Next]_vars => [Lease!LNext]_(Lease!lvars)
  <2> SUFFICES ASSUME IndInv, [Next]_vars PROVE [Lease!LNext]_(Lease!lvars)
    OBVIOUS
  <2>1. CASE UNCHANGED vars BY <2>1, Stutter DEF vars, CallOf
  <2> QED BY <2>1, GetImplements, PutImplements, CloseImplements DEF Next
<1> QED BY <1>1, <1>2, IndInvariant, PTL DEF Spec, ImplementsLeasePool, Lease!LSpec
=============================================================================
