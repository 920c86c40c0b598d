-------------------------- MODULE KubeClientCache --------------------------
(***************************************************************************)
(* The dynamic clients of the managed clusters: kubeclient.Client keeps    *)
(* one per cluster, built by the first request that needs it, under one    *)
(* mutex for all (clientFor, pkg/kubeclient/kubeclient.go:173-192).  The   *)
(* goroutines of every clusters and capacity request go through here, and  *)
(* each client owns a rate limiter and a connection pool, so a second one  *)
(* for the same cluster doubles the load the first was limited to.         *)
(*                                                                         *)
(* A definition named Mut... is a mistake one could make in the definition *)
(* after it; replacing the definition by it makes a property fail.         *)
(***************************************************************************)
EXTENDS Integers

CONSTANTS
  Callers,   \* the goroutines that list from clusters
  Clusters,  \* the cluster names they may ask for
  Known,     \* the contexts of the kubeconfig
  MaxBuilds, \* bound: clients ever built for a cluster (one is expected)
  NoOne      \* the mutex is free

ASSUME CacheAssumption ==
  /\ Known \subseteq Clusters
  /\ MaxBuilds \in Nat /\ MaxBuilds > 1
  /\ NoOne \notin Callers

None == 0     \* no client in the map; an error as the result

VARIABLES
  pc,        \* where each caller is in clientFor
  want,      \* the cluster it asked for
  result,    \* what its last call returned: a client or None
  lock,      \* the holder of c.mu
  clients,   \* c.clients: a client is the number of its building
  builds     \* how many clients were built for each cluster

vars == <<pc, want, result, lock, clients, builds>>

Inside == {"lookup", "build", "store", "unlock"}

(* New: an empty map, whatever the kubeconfig. *)
Init ==
  /\ pc = [p \in Callers |-> "idle"]
  /\ want \in [Callers -> Clusters]
  /\ result = [p \in Callers |-> None]
  /\ lock = NoOne
  /\ clients = [c \in Clusters |-> None]
  /\ builds = [c \in Clusters |-> 0]

Goto(p, where) == pc' = [pc EXCEPT ![p] = where]

Call(p, c) ==
  /\ pc[p] = "idle"
  /\ Goto(p, "lock")
  /\ want' = [want EXCEPT ![p] = c]
  /\ result' = [result EXCEPT ![p] = None]
  /\ UNCHANGED <<lock, clients, builds>>

MutLock(p) ==
  /\ pc[p] = "lock"
  /\ lock' = p /\ Goto(p, "lookup")
  /\ UNCHANGED <<want, result, clients, builds>>

Lock(p) ==
  /\ pc[p] = "lock" /\ lock = NoOne
  /\ lock' = p /\ Goto(p, "lookup")
  /\ UNCHANGED <<want, result, clients, builds>>

(* A hit returns the client, a cluster without a context an error. *)
MutLookup(p) ==
  /\ pc[p] = "lookup"
  /\ result' = [result EXCEPT ![p] = clients[want[p]]]
  /\ Goto(p, IF clients[want[p]] # None THEN "idle"
             ELSE IF want[p] \notin Known THEN "unlock" ELSE "build")
  /\ UNCHANGED <<want, lock, clients, builds>>

Lookup(p) ==
  /\ pc[p] = "lookup"
  /\ result' = [result EXCEPT ![p] = clients[want[p]]]
  /\ Goto(p, IF clients[want[p]] # None \/ want[p] \notin Known
             THEN "unlock" ELSE "build")
  /\ UNCHANGED <<want, lock, clients, builds>>

(* dynamic.NewForConfig succeeds, *)
Build(p) ==
  /\ pc[p] = "build" /\ builds[want[p]] < MaxBuilds
  /\ builds' = [builds EXCEPT ![want[p]] = @ + 1]
  /\ result' = [result EXCEPT ![p] = builds[want[p]] + 1]
  /\ Goto(p, "store")
  /\ UNCHANGED <<want, lock, clients>>

(* or fails; nothing is remembered of that. *)
MutBuildFails(p) ==
  /\ pc[p] = "build"
  /\ Goto(p, "lookup")
  /\ UNCHANGED <<want, result, lock, clients, builds>>

MutBuildFailsStored(p) ==
  /\ pc[p] = "build"
  /\ clients' = [clients EXCEPT ![want[p]] = -1]   \* the nil of the failure
  /\ Goto(p, "unlock")
  /\ UNCHANGED <<want, result, lock, builds>>

BuildFails(p) ==
  /\ pc[p] = "build"
  /\ Goto(p, "unlock")
  /\ UNCHANGED <<want, result, lock, clients, builds>>

MutStore(p) ==
  /\ pc[p] = "store"
  /\ Goto(p, "unlock")
  /\ UNCHANGED <<want, result, lock, clients, builds>>

Store(p) ==
  /\ pc[p] = "store"
  /\ clients' = [clients EXCEPT ![want[p]] = result[p]]
  /\ Goto(p, "unlock")
  /\ UNCHANGED <<want, result, lock, builds>>

(* The deferred Unlock, and the return. *)
Unlock(p) ==
  /\ pc[p] = "unlock"
  /\ lock' = NoOne /\ Goto(p, "idle")
  /\ UNCHANGED <<want, result, clients, builds>>

Step(p) == Lookup(p) \/ Build(p) \/ BuildFails(p) \/ Store(p) \/ Unlock(p)

Next == \E p \in Callers : (\E c \in Clusters : Call(p, c)) \/ Lock(p) \/ Step(p)

(* A goroutine that holds the mutex runs on; one that waits for it gets it *)
(* in the end, because sync.Mutex hands itself to the longest waiter after *)
(* a millisecond.                                                          *)
Fairness == \A p \in Callers : SF_vars(Lock(p)) /\ WF_vars(Step(p))

Spec == Init /\ [][Next]_vars /\ Fairness

-----------------------------------------------------------------------------
(* Every variable holds a value of its kind. *)
TypeOK ==
  /\ pc \in [Callers -> {"idle", "lock"} \cup Inside]
  /\ want \in [Callers -> Clusters]
  /\ result \in [Callers -> 0..MaxBuilds]
  /\ lock \in Callers \cup {NoOne}
  /\ clients \in [Clusters -> 0..MaxBuilds]
  /\ builds \in [Clusters -> 0..MaxBuilds]

(* The mutex is held by the one caller that is between Lock and Unlock, and
   by nobody once it has returned, on each of the four return paths of
   clientFor: the Go maps behind it may not be used by two at a time. *)
MutexHeldInside == \A p \in Callers : pc[p] \in Inside <=> lock = p

(* A cluster never gets a second client, however many requests are the first
   to ask for it (lines 179 and 190). *)
BuiltOnce == \A c \in Clusters : builds[c] <= 1

(* Whoever got a client got the one in the map, which is the one every later
   caller gets: it was stored and not replaced since. *)
ClientIsShared ==
  \A p \in Callers :
    pc[p] = "idle" /\ result[p] # None => clients[want[p]] = result[p]

(* Every call returns, also while other goroutines keep coming back for the
   mutex and builds fail. *)
EveryCallReturns == \A p \in Callers : pc[p] = "lock" ~> pc[p] = "idle"
=============================================================================
