---------------------------- MODULE ClusterFanOut ----------------------------
(***************************************************************************)
(* One request to the multi-cluster pages: clustersListHandler             *)
(* (pkg/server/handlers_clusters.go) with NumLists = 2, and                *)
(* availableCapacityHandler (handlers_available_capacity.go) with          *)
(* NumLists = 1.  The handler starts one goroutine per kubeconfig context; *)
(* a goroutine takes a token of a semaphore, creates a context that ends   *)
(* PerCall later or with the request's own context, LISTs its cluster with *)
(* it, writes its own row and gives the token back; the handler waits for  *)
(* all of them and writes the answer.                                      *)
(*                                                                         *)
(* Time is counted in ticks.  The program's own steps take no time: Tick   *)
(* is held back while one of them is possible.  What takes time is a LIST: *)
(* latency[c] ticks, or more than the whole budget for a hung apiserver.   *)
(*                                                                         *)
(* A definition named Mut... is a mistake one could make in the definition *)
(* after it; replacing the definition by it makes a property fail.         *)
(***************************************************************************)
EXTENDS Integers, FiniteSets, FiniteSetsExt

CONSTANTS
  Clusters,     \* the kubeconfig contexts, Clusters() in kubeclient.go
  NumLists,     \* LIST calls per cluster: 2 (clusters list) or 1 (capacity)
  Concurrency,  \* clustersListConcurrency, the tokens of the semaphore
  PerCall,      \* clustersListPerCallTimeout, in ticks
  Overall,      \* clustersListOverallTimeout, in ticks
  Latencies     \* the LIST latencies an apiserver may have, in ticks

ASSUME FanOutAssumption ==
  /\ IsFiniteSet(Clusters)
  /\ NumLists \in {1, 2}
  /\ Concurrency \in Nat \ {0}
  /\ PerCall \in Nat \ {0}
  /\ Overall \in Nat \ {0}
  /\ Latencies \subseteq Nat

VARIABLES
  now,       \* ticks since the handler created overallCtx
  gone,      \* the client hung up, so r.Context() is cancelled
  answered,  \* the handler is past wg.Wait() and wrote the answer
  pc,        \* pc[c]: where the goroutine of cluster c is
  list,      \* list[c]: which of its LISTs it is making, or made last
  began,     \* began[c]: when it created its per-call context
  due,       \* due[c]: when the LIST it is making answers, Never if not
  got,       \* got[c]: the LISTs whose result is in out[i]
  err,       \* err[c]: out[i].Error
  latency    \* latency[c]: how long cluster c's apiserver takes over a LIST

vars == <<now, gone, answered, pc, list, began, due, got, err, latency>>
request == <<now, gone, answered>>

-----------------------------------------------------------------------------
Earlier(a, b) == IF a <= b THEN a ELSE b

(* Later than every deadline of the request. *)
Never == Overall + 1

(* The goroutines that hold a token. *)
Running == {c \in Clusters : pc[c] = "running"}

(* context.WithTimeout(overallCtx, ...): the deadline of a child context   *)
(* is never later than its parent's.                                       *)
MutDetachedDeadline(start) == start + PerCall
Deadline(start) == Earlier(start + PerCall, Overall)

(* A context is done when its deadline passed or the client went away.     *)
MutCtxDone(start) == now >= Deadline(start)
CtxDone(start) == gone \/ now >= Deadline(start)

(* A LIST begun under a context that is already done never reaches the     *)
(* apiserver.                                                              *)
DueTime(c, start) == IF CtxDone(start) THEN Never ELSE now + latency[c]

-----------------------------------------------------------------------------
Init ==
  /\ now = 0 /\ gone = FALSE /\ answered = FALSE
  /\ pc    = [c \in Clusters |-> "queued"]
  /\ list  = [c \in Clusters |-> 1]
  /\ began = [c \in Clusters |-> 0]
  /\ due   = [c \in Clusters |-> Never]
  /\ got   = [c \in Clusters |-> {}]
  /\ err   = [c \in Clusters |-> "none"]
  /\ latency \in [Clusters -> Latencies]

(* sem <- struct{}{}: not a select, so it waits for a token whatever       *)
(* becomes of the contexts.  The per-call context starts here, not when    *)
(* the request did; the row gets its ID and the first LIST begins.         *)
MutAcquireBeforeToken(c) ==
  /\ pc[c] = "queued"
  /\ Cardinality(Running) < Concurrency
  /\ pc'  = [pc EXCEPT ![c] = "running"]
  /\ due' = [due EXCEPT ![c] = DueTime(c, began[c])]
  /\ UNCHANGED <<request, latency, list, began, got, err>>

Acquire(c) ==
  /\ pc[c] = "queued"
  /\ Cardinality(Running) < Concurrency
  /\ pc'    = [pc EXCEPT ![c] = "running"]
  /\ began' = [began EXCEPT ![c] = now]
  /\ due'   = [due EXCEPT ![c] = DueTime(c, now)]
  /\ UNCHANGED <<request, latency, list, got, err>>

(* After a LIST, whatever its outcome, the next one begins with the same   *)
(* context; after the last one the deferred calls give the token back and  *)
(* report to the WaitGroup.                                                *)
MutProceed(c) ==
  \/ /\ list' = [list EXCEPT ![c] = @ + 1]
     /\ due'  = [due EXCEPT ![c] = DueTime(c, began[c])]
     /\ UNCHANGED pc
  \/ /\ list[c] = NumLists
     /\ pc'  = [pc EXCEPT ![c] = "done"]
     /\ due' = [due EXCEPT ![c] = Never]
     /\ UNCHANGED list

Proceed(c) ==
  \/ /\ list[c] < NumLists
     /\ list' = [list EXCEPT ![c] = @ + 1]
     /\ due'  = [due EXCEPT ![c] = DueTime(c, began[c])]
     /\ UNCHANGED pc
  \/ /\ list[c] = NumLists
     /\ pc'  = [pc EXCEPT ![c] = "done"]
     /\ due' = [due EXCEPT ![c] = Never]
     /\ UNCHANGED list

(* out[i].Error keeps the first error. *)
MutKeepError(c, kind) == err' = err
KeepError(c, kind) ==
  err' = [err EXCEPT ![c] = IF @ = "none" THEN kind ELSE @]

(* The apiserver answers in time: its result goes into the row, or the     *)
(* error it (or clientFor) returned does.  Each LIST has an outcome of its *)
(* own: one resource may be forbidden, or its CRD missing, and the other   *)
(* not.                                                                    *)
ListAnswers(c) ==
  /\ pc[c] = "running"
  /\ due[c] <= now
  /\ \/ /\ got' = [got EXCEPT ![c] = @ \cup {list[c]}]
        /\ UNCHANGED err
     \/ /\ KeepError(c, "upstream")
        /\ UNCHANGED got
  /\ Proceed(c)
  /\ UNCHANGED <<request, latency, began>>

(* The LIST returns because its context is done. *)
ListGivesUp(c) ==
  /\ pc[c] = "running"
  /\ CtxDone(began[c])
  /\ KeepError(c, IF gone THEN "canceled" ELSE "deadline")
  /\ Proceed(c)
  /\ UNCHANGED <<request, latency, began, got>>

(* wg.Wait() returns when every goroutine is done; then writeJSON. *)
MutAnswer ==
  /\ ~answered
  /\ \A c \in Clusters : pc[c] # "queued"
  /\ answered' = TRUE
  /\ UNCHANGED <<now, gone, pc, list, began, due, got, err, latency>>

Answer ==
  /\ ~answered
  /\ \A c \in Clusters : pc[c] = "done"
  /\ answered' = TRUE
  /\ UNCHANGED <<now, gone, pc, list, began, due, got, err, latency>>

(* The browser closes the connection before it got the answer. *)
Disconnect ==
  /\ ~answered /\ ~gone
  /\ gone' = TRUE
  /\ UNCHANGED <<now, answered, pc, list, began, due, got, err, latency>>

(* Steps of the program that are possible now, and so come before a Tick.  *)
Urgent ==
  \/ \E c \in Clusters : pc[c] = "queued" /\ Cardinality(Running) < Concurrency
  \/ \E c \in Running : due[c] <= now \/ CtxDone(began[c])
  \/ \A c \in Clusters : pc[c] = "done"

Tick ==
  /\ ~answered /\ ~Urgent
  /\ now' = now + 1
  /\ UNCHANGED <<gone, answered, pc, list, began, due, got, err, latency>>

(* The request is over; nothing of it runs any more. *)
Over == answered /\ UNCHANGED vars

Worker(c) == Acquire(c) \/ ListAnswers(c) \/ ListGivesUp(c)

Next == \/ \E c \in Clusters : Worker(c)
        \/ Answer \/ Disconnect \/ Tick \/ Over

(* The Go scheduler runs every goroutine that can run, and time passes.    *)
(* Nothing makes a client disconnect.                                      *)
Fairness == /\ \A c \in Clusters : WF_vars(Worker(c))
            /\ WF_vars(Answer)
            /\ WF_vars(Tick)

Spec == Init /\ [][Next]_vars /\ Fairness

-----------------------------------------------------------------------------
(* Every variable has its type; a goroutine that has no token yet has      *)
(* recorded nothing.                                                       *)
TypeOK ==
  /\ now \in Nat /\ gone \in BOOLEAN /\ answered \in BOOLEAN
  /\ pc \in [Clusters -> {"queued", "running", "done"}]
  /\ list \in [Clusters -> 1..NumLists]
  /\ began \in [Clusters -> Nat]
  /\ due \in [Clusters -> Nat]
  /\ got \in [Clusters -> SUBSET (1..NumLists)]
  /\ err \in [Clusters -> {"none", "upstream", "deadline", "canceled"}]
  /\ latency \in [Clusters -> Nat]

(* A row without an error has every number it shows from the apiserver: a LIST
   that failed, first or second, never leaves a zero that reads as "none". *)
NoSilentZero ==
  \A c \in Clusters : pc[c] = "done" /\ err[c] = "none" => got[c] = 1..NumLists

(* The answer leaves within clustersListOverallTimeout, however many clusters
   hang and although the wait for a token ignores the contexts: a goroutine
   that gets its token too late fails at once. *)
AnsweredWithinOverall == now <= Overall

(* What all the LISTs of cluster c take together, how long it can keep a   *)
(* token, and how long all clusters can.                                   *)
Work(c) == NumLists * latency[c]
Hold(c) == Earlier(PerCall, Work(c))
Load == MapThenSumSet(Hold, Clusters)

(* "error-isolated: one cluster's failure surfaces inline, the rest render"
   (handlers_available_capacity.go:14-15): a cluster whose LISTs fit into the
   per-call timeout is told by its own answers, wherever it stood in the queue,
   as long as the slow and hung clusters together cannot keep every token up to
   the last moment at which it could still begin. *)
HealthyClusterReported ==
  \A c \in Clusters :
    /\ Work(c) < PerCall
    /\ Load < Concurrency * (Overall - Work(c))
    /\ pc[c] = "done" /\ ~gone
    => err[c] \in {"none", "upstream"}

(* The answer is encoded from rows nobody writes any more: every goroutine has
   left the shared slice out[] before wg.Wait() lets the handler go on. *)
RowsFrozenOnceAnswered == [][answered => UNCHANGED <<got, err>>]_vars

(* Once the browser has gone, no LIST keeps an apiserver busy: the request ends
   without any more time passing. *)
AbandonedRequestStops == [][gone => now' = now]_vars

(* The handler implements what it promises the pages. *)
RowOf(c) == IF pc[c] # "done" THEN "pending"
            ELSE IF err[c] # "none" THEN "error"
            ELSE IF got[c] = 1..NumLists THEN "data" ELSE "zero"

Promise == INSTANCE ClusterAnswer
             WITH row <- [c \in Clusters |-> RowOf(c)], sent <- answered

ImplementsAnswer == Promise!AnswerSpec
=============================================================================
