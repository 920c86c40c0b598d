----------------------- MODULE KubeClientCacheProofs -----------------------
(***************************************************************************)
(* Proofs about KubeClientCache, for any number of goroutines and          *)
(* clusters.  What makes the safety properties inductive is what a caller  *)
(* knows while it holds the mutex: a caller about to build has seen the    *)
(* map empty, and a caller about to store has built the only client.       *)
(***************************************************************************)
EXTENDS KubeClientCache, TLAPS

USE CacheAssumption DEF CacheAssumption

(* What a caller knows of the map.  Outside the mutex it knows that the    *)
(* client it was given is still the one in the map.                        *)
Knows(p) ==
  /\ pc[p] = "build" => clients[want[p]] = None /\ result[p] = None
  /\ pc[p] = "store" => /\ clients[want[p]] = None /\ result[p] = 1
                        /\ builds = [clients EXCEPT ![want[p]] = 1]
  /\ pc[p] \in {"idle", "unlock"} /\ result[p] # None => clients[want[p]] = result[p]

(* The map and the clients built differ only while one is being stored. *)
Agree ==
  /\ \A c \in Clusters : clients[c] <= 1
  /\ (\A p \in Callers : pc[p] # "store") => builds = clients

IInv == TypeOK /\ MutexHeldInside /\ Agree /\ \A p \in Callers : Knows(p)

(* At most one caller is between Lock and Unlock (c.mu in clientFor). *)
LEMMA OneInside ==
  ASSUME MutexHeldInside, NEW p \in Callers, NEW q \in Callers,
         pc[p] \in Inside, pc[q] \in Inside
  PROVE  p = q
BY DEF MutexHeldInside

-----------------------------------------------------------------------------
(* An empty map and nobody inside (New). *)
LEMMA InitIInv == Init => IInv
BY DEF Init, IInv, TypeOK, MutexHeldInside, Agree, Knows, Inside, None

(* Each of the steps of clientFor keeps the invariant. *)
LEMMA StepIInv == IInv /\ [Next]_vars => IInv'
<1> SUFFICES ASSUME IInv, [Next]_vars PROVE IInv'
  OBVIOUS
<1> USE DEF Goto, None
<1>1. ASSUME NEW p \in Callers, NEW c \in Clusters, Call(p, c) PROVE IInv'
  <2>1. TypeOK'
    BY <1>1 DEF IInv, TypeOK, Call
  <2>2. MutexHeldInside'
    BY <1>1 DEF IInv, TypeOK, MutexHeldInside, Call, Inside
  <2>3. Agree'
    BY <1>1 DEF IInv, TypeOK, Agree, Call
  <2>4. ASSUME NEW q \in Callers PROVE Knows(q)'
    BY <1>1 DEF IInv, TypeOK, Knows, Call
  <2> QED
    BY <2>1, <2>2, <2>3, <2>4 DEF IInv
<1>2. ASSUME NEW p \in Callers, Lock(p) PROVE IInv'
  <2>1. TypeOK'
    BY <1>2 DEF IInv, TypeOK, Lock, Inside
  <2>2. MutexHeldInside'
    BY <1>2 DEF IInv, TypeOK, MutexHeldInside, Lock, Inside
  <2>3. Agree'
    BY <1>2 DEF IInv, TypeOK, Agree, Lock
  <2>4. ASSUME NEW q \in Callers PROVE Knows(q)'
    BY <1>2 DEF IInv, TypeOK, Knows, Lock
  <2> QED
    BY <2>1, <2>2, <2>3, <2>4 DEF IInv
<1>3. ASSUME NEW p \in Callers, Lookup(p) PROVE IInv'
  <2>1. TypeOK'
    BY <1>3 DEF IInv, TypeOK, Lookup, Inside
  <2>2. MutexHeldInside'
    BY <1>3 DEF IInv, TypeOK, MutexHeldInside, Lookup, Inside
  <2>3. Agree'
    BY <1>3 DEF IInv, TypeOK, Agree, Lookup
  <2>4. ASSUME NEW q \in Callers PROVE Knows(q)'
    BY <1>3 DEF IInv, TypeOK, Knows, Lookup
  <2> QED
    BY <2>1, <2>2, <2>3, <2>4 DEF IInv
<1>4. ASSUME NEW p \in Callers, Build(p) PROVE IInv'
  <2>1. TypeOK'
    BY <1>4 DEF IInv, TypeOK, Build, Inside
  <2>2. MutexHeldInside'
    BY <1>4 DEF IInv, TypeOK, MutexHeldInside, Build, Inside
  <2>3. \A q \in Callers : pc[q] # "store"
    BY <1>4, OneInside DEF IInv, Build, Inside
  <2>4. builds = clients /\ clients[want[p]] = None
    BY <1>4, <2>3 DEF IInv, Agree, Knows, Build
  <2>5. Agree'
    BY <1>4 DEF IInv, TypeOK, Agree, Build
  <2>6. ASSUME NEW q \in Callers PROVE Knows(q)'
    <3>1. CASE q = p
      BY <1>4, <2>4, <3>1 DEF IInv, TypeOK, Knows, Build
    <3>2. CASE q # p
      BY <1>4, <2>3, <3>2 DEF IInv, TypeOK, Knows, Build
    <3> QED
      BY <3>1, <3>2
  <2> QED
    BY <2>1, <2>2, <2>5, <2>6 DEF IInv
<1>5. ASSUME NEW p \in Callers, BuildFails(p) PROVE IInv'
  <2>1. TypeOK'
    BY <1>5 DEF IInv, TypeOK, BuildFails, Inside
  <2>2. MutexHeldInside'
    BY <1>5 DEF IInv, TypeOK, MutexHeldInside, BuildFails, Inside
  <2>3. Agree'
    BY <1>5 DEF IInv, TypeOK, Agree, BuildFails
  <2>4. ASSUME NEW q \in Callers PROVE Knows(q)'
    BY <1>5 DEF IInv, TypeOK, Knows, BuildFails
  <2> QED
    BY <2>1, <2>2, <2>3, <2>4 DEF IInv
<1>6. ASSUME NEW p \in Callers, Store(p) PROVE IInv'
  <2>1. TypeOK'
    BY <1>6 DEF IInv, TypeOK, Store, Inside
  <2>2. MutexHeldInside'
    BY <1>6 DEF IInv, TypeOK, MutexHeldInside, Store, Inside
  <2>3. \A q \in Callers : q # p => pc[q] \notin Inside
    BY <1>6, OneInside DEF IInv, Store, Inside
  <2>4. builds' = clients' /\ clients' = [clients EXCEPT ![want[p]] = 1]
    BY <1>6 DEF IInv, Knows, Store
  <2>5. Agree'
    BY <1>6, <2>4 DEF IInv, TypeOK, Agree
  <2>6. ASSUME NEW q \in Callers PROVE Knows(q)'
    <3>1. CASE q = p
      BY <1>6, <2>4, <3>1 DEF IInv, TypeOK, Knows, Store
    <3>2. CASE q # p
      <4>1. /\ pc'[q] = pc[q] /\ pc[q] \notin Inside
            /\ UNCHANGED <<want, result>> /\ clients[want[p]] = None
        BY <1>6, <2>3, <3>2 DEF IInv, TypeOK, Knows, Store
      <4>2. pc[q] = "idle" /\ result[q] # None => want[q] # want[p]
        BY <4>1 DEF IInv, TypeOK, Knows
      <4> QED
        BY <2>4, <4>1, <4>2 DEF IInv, TypeOK, Knows, Inside
    <3> QED
      BY <3>1, <3>2
  <2> QED
    BY <2>1, <2>2, <2>5, <2>6 DEF IInv
<1>7. ASSUME NEW p \in Callers, Unlock(p) PROVE IInv'
  <2>1. TypeOK'
    BY <1>7 DEF IInv, TypeOK, Unlock, Inside
  <2>2. MutexHeldInside'
    BY <1>7, OneInside DEF IInv, TypeOK, MutexHeldInside, Unlock, Inside
  <2>3. Agree'
    BY <1>7 DEF IInv, TypeOK, Agree, Unlock
  <2>4. ASSUME NEW q \in Callers PROVE Knows(q)'
    BY <1>7 DEF IInv, TypeOK, Knows, Unlock
  <2> QED
    BY <2>1, <2>2, <2>3, <2>4 DEF IInv
<1>8. CASE UNCHANGED vars
  BY <1>8 DEF vars, IInv, TypeOK, MutexHeldInside, Agree, Knows
<1> QED
  BY <1>1, <1>2, <1>3, <1>4, <1>5, <1>6, <1>7, <1>8 DEF Next, Step

LEMMA Invariance == Spec => []IInv
BY InitIInv, StepIInv, PTL DEF Spec

-----------------------------------------------------------------------------
(* Every variable keeps its type: a caller is at one of the places of
   clientFor, the map and a result hold no client or one that was built. *)
THEOREM CacheTypeCorrect == Spec => []TypeOK
<1>1. IInv => TypeOK
  BY DEF IInv
<1> QED
  BY <1>1, Invariance, PTL

(* The mutex is held exactly by the one caller inside, and every return
   path of clientFor gives it back. *)
THEOREM MutualExclusion == Spec => []MutexHeldInside
<1>1. IInv => MutexHeldInside
  BY DEF IInv
<1> QED
  BY <1>1, Invariance, PTL

(* No cluster ever gets a second client. *)
THEOREM OneClientEach == Spec => []BuiltOnce
<1>1. IInv => BuiltOnce
  <2> SUFFICES ASSUME IInv, NEW c \in Clusters PROVE builds[c] <= 1
    BY DEF BuiltOnce
  <2>1. CASE \A p \in Callers : pc[p] # "store"
    BY <2>1 DEF IInv, Agree
  <2>2. CASE \E p \in Callers : pc[p] = "store"
    BY <2>2 DEF IInv, Agree, Knows, TypeOK
  <2> QED
    BY <2>1, <2>2
<1> QED
  BY <1>1, Invariance, PTL

(* A client a caller was given stays the client of its cluster. *)
THEOREM EveryoneSharesIt == Spec => []ClientIsShared
<1>1. IInv => ClientIsShared
  BY DEF IInv, Knows, ClientIsShared
<1> QED
  BY <1>1, Invariance, PTL
=============================================================================
