------------------------- MODULE ClusterFanOutProofs -------------------------
(***************************************************************************)
(* What ClusterFanOut guarantees for every set of clusters, every number   *)
(* of tokens and every pair of timeouts.  Liveness is left to the model    *)
(* checker.                                                                *)
(***************************************************************************)
EXTENDS ClusterFanOut, FiniteSetTheorems, WellFoundedInduction, TLAPS

(* The steps of ClusterFanOut under their own names.                       *)
USE FanOutAssumption DEF FanOutAssumption, request

(* What a goroutine has recorded when: nothing before it has a token, and  *)
(* with no error so far, the result of every LIST it has finished.         *)
Recorded ==
  \A c \in Clusters :
    /\ pc[c] = "queued" => list[c] = 1 /\ got[c] = {} /\ err[c] = "none"
    /\ pc[c] = "running" /\ err[c] = "none" => got[c] = 1..(list[c] - 1)
    /\ pc[c] = "done" /\ err[c] = "none" => got[c] = 1..NumLists

(* The answer is behind wg.Wait(). *)
AnsweredLast == answered => \A c \in Clusters : pc[c] = "done"

-----------------------------------------------------------------------------
(* Every reachable state has its types: the state of clustersListHandler   *)
(* and of availableCapacityHandler.                                        *)
THEOREM TypeCorrect == Spec => []TypeOK
<1>1. Init => TypeOK
  <2> SUFFICES ASSUME Init PROVE TypeOK
    OBVIOUS
  <2>1. gone \in BOOLEAN /\ answered \in BOOLEAN
    BY Zenon DEF Init
  <2>2. now \in Nat /\ began \in [Clusters -> Nat] /\ due \in [Clusters -> Nat]
    BY DEF Init, Never
  <2>5. latency \in [Clusters -> Nat]
    BY DEF Init
  <2>3. /\ list \in [Clusters -> 1..NumLists]
        /\ got \in [Clusters -> SUBSET (1..NumLists)]
    BY DEF Init
  <2>4. /\ pc \in [Clusters -> {"queued", "running", "done"}]
        /\ err \in [Clusters -> {"none", "upstream", "deadline", "canceled"}]
    BY DEF Init
  <2> QED BY <2>1, <2>2, <2>3, <2>4, <2>5 DEF TypeOK
<1>2. TypeOK /\ [Next]_vars => TypeOK'
  <2> SUFFICES ASSUME TypeOK, [Next]_vars PROVE TypeOK'
    OBVIOUS
  <2> USE DEF TypeOK
  <2>0. \A c \in Clusters, t \in Nat : DueTime(c, t) \in Nat
    BY DEF DueTime, Never
  <2>1. ASSUME NEW c \in Clusters, Acquire(c) PROVE TypeOK'
    BY <2>0, <2>1 DEF Acquire
  <2>2. ASSUME NEW c \in Clusters, Proceed(c)
        PROVE /\ pc' \in [Clusters -> {"queued", "running", "done"}]
              /\ list' \in [Clusters -> 1..NumLists]
              /\ due' \in [Clusters -> Nat]
    <3>1. Never \in Nat
      BY DEF Never
    <3>2. CASE list[c] = NumLists
      BY <2>2, <3>1, <3>2 DEF Proceed
    <3>3. CASE list[c] # NumLists
      <4>1. list[c] < NumLists /\ UNCHANGED pc
            /\ list' = [list EXCEPT ![c] = list[c] + 1]
            /\ due' = [due EXCEPT ![c] = DueTime(c, began[c])]
        BY <2>2, <3>3 DEF Proceed
      <4>2. list[c] + 1 \in 1..NumLists
        BY <4>1
      <4> QED BY <2>0, <4>1, <4>2
    <3> QED BY <3>2, <3>3
  <2>3. ASSUME NEW c \in Clusters, ListAnswers(c) PROVE TypeOK'
    BY <2>2, <2>3 DEF ListAnswers, KeepError
  <2>4. ASSUME NEW c \in Clusters, ListGivesUp(c) PROVE TypeOK'
    <3>1. PICK kind \in {"canceled", "deadline"} : KeepError(c, kind)
      BY <2>4 DEF ListGivesUp
    <3>2. err' \in [Clusters -> {"none", "upstream", "deadline", "canceled"}]
      BY <3>1 DEF KeepError
    <3> QED BY <2>2, <2>4, <3>2 DEF ListGivesUp
  <2>5. CASE Answer BY <2>5 DEF Answer
  <2>6. CASE Disconnect BY <2>6 DEF Disconnect
  <2>7. CASE Tick BY <2>7 DEF Tick
  <2>8. CASE UNCHANGED vars BY <2>8 DEF vars
  <2> QED BY <2>1, <2>3, <2>4, <2>5, <2>6, <2>7, <2>8 DEF Next, Worker, Over
<1> QED BY <1>1, <1>2, PTL DEF Spec

-----------------------------------------------------------------------------
(* What a step does to the place of one goroutine and to the others: taken  *)
(* by every proof below instead of the definition of Proceed.               *)
LEMMA WorkerMoves ==
  ASSUME TypeOK, NEW c \in Clusters, ListAnswers(c) \/ ListGivesUp(c)
  PROVE  /\ pc[c] = "running"
         /\ \/ pc' = pc /\ list[c] < NumLists /\ list' = [list EXCEPT ![c] = list[c] + 1]
            \/ pc' = [pc EXCEPT ![c] = "done"] /\ list[c] = NumLists /\ list' = list
         /\ UNCHANGED request
BY DEF ListAnswers, ListGivesUp, Proceed, TypeOK

(* A set of clusters is finite, so its size is a number.                    *)
LEMMA RunningFinite ==
  /\ IsFiniteSet(Running) /\ Cardinality(Running) \in Nat
  /\ IsFiniteSet(Running)' /\ Cardinality(Running)' \in Nat
<1>1. Running \in SUBSET Clusters /\ Running' \in SUBSET Clusters
  BY DEF Running
<1> QED BY <1>1, FS_Subset, FS_CardinalityType

(* No more goroutines hold a token than there are (the channel sem).        *)
TokensBounded == Cardinality(Running) <= Concurrency

LEMMA TokensAreBounded == Spec => []TokensBounded
<1>1. Init => TokensBounded
  <2> SUFFICES ASSUME Init PROVE TokensBounded
    OBVIOUS
  <2>1. Running = {}
    BY DEF Init, Running
  <2> QED BY <2>1, FS_EmptySet DEF TokensBounded
<1>2. TypeOK /\ TokensBounded /\ [Next]_vars => TokensBounded'
  <2> SUFFICES ASSUME TypeOK, TokensBounded, [Next]_vars PROVE TokensBounded'
    OBVIOUS
  <2>1. ASSUME NEW c \in Clusters, Acquire(c) PROVE TokensBounded'
    <3>1. Running' = Running \cup {c}
      BY <2>1 DEF Acquire, Running, TypeOK
    <3>2. Cardinality(Running') <= Cardinality(Running) + 1
      BY <3>1, RunningFinite, FS_AddElement
    <3>3. Cardinality(Running) < Concurrency
      BY <2>1 DEF Acquire
    <3> QED BY <3>2, <3>3, RunningFinite DEF TokensBounded
  <2>2. ASSUME Running' \subseteq Running PROVE TokensBounded'
    <3>1. Cardinality(Running') <= Cardinality(Running)
      BY <2>2, RunningFinite, FS_Subset
    <3> QED BY <3>1, RunningFinite DEF TokensBounded
  <2>3. ASSUME NEW c \in Clusters, ListAnswers(c) \/ ListGivesUp(c)
        PROVE Running' \subseteq Running
    BY <2>3, WorkerMoves DEF Running, TypeOK
  <2>4. CASE Answer \/ Disconnect \/ Tick \/ UNCHANGED vars
    <3>1. Running' = Running
      BY <2>4 DEF Answer, Disconnect, Tick, vars, Running
    <3> QED BY <3>1, <2>2
  <2> QED BY <2>1, <2>2, <2>3, <2>4 DEF Next, Worker, Over
<1> QED BY <1>1, <1>2, TypeCorrect, PTL DEF Spec

(* Time cannot pass any more once every context is done.                    *)
LEMMA DoneContextsAreUrgent ==
  ASSUME TypeOK, \A c \in Running : CtxDone(began[c])
  PROVE  Urgent
<1>1. CASE Running # {}
  BY <1>1 DEF Urgent
<1>2. CASE Running = {}
  <2>1. Cardinality(Running) < Concurrency
    BY <1>2, FS_EmptySet
  <2>2. \A c \in Clusters : pc[c] = "queued" \/ pc[c] = "done"
    BY <1>2 DEF Running, TypeOK
  <2> QED BY <2>1, <2>2 DEF Urgent
<1> QED BY <1>1, <1>2

(* The handler answers within clustersListOverallTimeout whatever the       *)
(* apiservers do, although goroutines wait for a token without a deadline.  *)
THEOREM AnswersWithinOverall == Spec => []AnsweredWithinOverall
<1>1. Init => AnsweredWithinOverall
  BY DEF Init, AnsweredWithinOverall
<1>2. TypeOK /\ AnsweredWithinOverall /\ [Next]_vars => AnsweredWithinOverall'
  <2> SUFFICES ASSUME TypeOK, now <= Overall, [Next]_vars PROVE (now <= Overall)'
    BY DEF AnsweredWithinOverall
  <2>1. CASE Tick
    <3>1. ASSUME now >= Overall PROVE FALSE
      <4>1. \A c \in Running : now >= Deadline(began[c])
        BY <3>1 DEF Deadline, Earlier, Running, TypeOK
      <4>2. Urgent
        BY <4>1, DoneContextsAreUrgent DEF CtxDone
      <4> QED BY <2>1, <4>2 DEF Tick
    <3>2. now' = now + 1 /\ now \in Nat
      BY <2>1 DEF Tick, TypeOK
    <3> QED BY <3>1, <3>2
  <2>2. CASE ~Tick
    BY <2>2 DEF Next, Worker, Acquire, ListAnswers, ListGivesUp, Answer,
                Disconnect, Over, vars
  <2> QED BY <2>1, <2>2
<1> QED BY <1>1, <1>2, TypeCorrect, PTL DEF Spec

(* A request whose client has gone ends in zero time: cancellation reaches  *)
(* the LISTs in flight and those that have not begun.                       *)
THEOREM AbandonedStops == Spec => AbandonedRequestStops
<1>1. TypeOK /\ [Next]_vars => [gone => now' = now]_vars
  <2> SUFFICES ASSUME TypeOK, Next, gone PROVE now' = now
    OBVIOUS
  <2>1. Urgent
    BY DoneContextsAreUrgent DEF CtxDone
  <2> QED BY <2>1 DEF Next, Worker, Acquire, ListAnswers, ListGivesUp, Answer,
                      Disconnect, Tick, Over, vars
<1> QED BY <1>1, TypeCorrect, PTL DEF Spec, AbandonedRequestStops

-----------------------------------------------------------------------------
(* What is recorded when: nothing before the goroutine has its token; with  *)
(* no error so far, the result of every LIST before the current one; and    *)
(* the answer only after the last goroutine.                                *)
IInv == TypeOK /\ Recorded /\ AnsweredLast

(* A LIST's goroutine records its own result and leaves the others' alone.  *)
LEMMA RecordedByWorker ==
  ASSUME TypeOK, Recorded, NEW c \in Clusters, ListAnswers(c) \/ ListGivesUp(c)
  PROVE  /\ err'[c] = "none" => err[c] = "none" /\ got'[c] = 1..list[c]
         /\ \A d \in Clusters \ {c} : got'[d] = got[d] /\ err'[d] = err[d]
<1>1. pc[c] = "running"
  BY DEF ListAnswers, ListGivesUp
<1>2. CASE got' = [got EXCEPT ![c] = got[c] \cup {list[c]}] /\ err' = err
  <2>1. got' = [got EXCEPT ![c] = got[c] \cup {list[c]}] /\ err' = err
    BY <1>2
  <2>2. err[c] = "none" => got'[c] = (1..(list[c] - 1)) \cup {list[c]}
    BY <1>1, <2>1 DEF Recorded, TypeOK
  <2>3. (1..(list[c] - 1)) \cup {list[c]} = 1..list[c]
    BY DEF TypeOK
  <2> QED BY <2>1, <2>2, <2>3 DEF TypeOK
<1>3. ASSUME NEW kind \in {"upstream", "canceled", "deadline"}, KeepError(c, kind), got' = got
      PROVE  /\ err'[c] # "none"
             /\ \A d \in Clusters \ {c} : got'[d] = got[d] /\ err'[d] = err[d]
  BY <1>3 DEF KeepError, TypeOK
<1>4. \/ got' = [got EXCEPT ![c] = got[c] \cup {list[c]}] /\ err' = err
      \/ \E kind \in {"upstream", "canceled", "deadline"} : KeepError(c, kind) /\ got' = got
  BY DEF ListAnswers, ListGivesUp
<1> QED BY <1>2, <1>3, <1>4

(* So the invariant holds throughout (fanout.go:35-70).                     *)
LEMMA RecordedInvariant == Spec => []IInv
<1>1. Init => Recorded /\ AnsweredLast
  BY DEF Init, Recorded, AnsweredLast
<1>2. IInv /\ [Next]_vars => Recorded' /\ AnsweredLast'
  <2> SUFFICES ASSUME IInv, [Next]_vars PROVE Recorded' /\ AnsweredLast'
    OBVIOUS
  <2> USE DEF IInv
  <2>1. ASSUME NEW c \in Clusters, Acquire(c) PROVE Recorded' /\ AnsweredLast'
    <3>1. Recorded'
      <4>1. \A d \in Clusters \ {c} : pc'[d] = pc[d]
        BY <2>1 DEF Acquire, TypeOK
      <4>2. pc'[c] = "running" /\ list[c] = 1 /\ got[c] = {}
        BY <2>1 DEF Acquire, Recorded, TypeOK
      <4>3. 1..(list[c] - 1) = {}
        BY <4>2
      <4>4. UNCHANGED <<list, got, err>>
        BY <2>1 DEF Acquire
      <4> QED BY <4>1, <4>2, <4>3, <4>4 DEF Recorded
    <3>2. AnsweredLast'
      BY <2>1 DEF Acquire, AnsweredLast
    <3> QED BY <3>1, <3>2
  <2>2. ASSUME NEW c \in Clusters, ListAnswers(c) \/ ListGivesUp(c)
        PROVE  Recorded' /\ AnsweredLast'
    <3>1. Recorded'
      <4>1. \A d \in Clusters \ {c} : pc'[d] = pc[d] /\ list'[d] = list[d]
        BY <2>2, WorkerMoves DEF TypeOK
      <4>2. CASE pc' = pc /\ list' = [list EXCEPT ![c] = list[c] + 1]
        <5>1. pc'[c] = "running" /\ list'[c] - 1 = list[c]
          BY <2>2, <4>2, WorkerMoves DEF TypeOK
        <5> QED BY <2>2, <4>1, <5>1, RecordedByWorker DEF Recorded
      <4>3. CASE pc' = [pc EXCEPT ![c] = "done"] /\ list[c] = NumLists
        <5>1. pc'[c] = "done"
          BY <4>3 DEF TypeOK
        <5> QED BY <2>2, <4>1, <4>3, <5>1, RecordedByWorker DEF Recorded
      <4> QED BY <2>2, <4>2, <4>3, WorkerMoves
    <3>2. AnsweredLast'
      BY <2>2, WorkerMoves DEF AnsweredLast
    <3> QED BY <3>1, <3>2
  <2>3. CASE Answer BY <2>3 DEF Answer, Recorded, AnsweredLast
  <2>4. CASE Disconnect BY <2>4 DEF Disconnect, Recorded, AnsweredLast
  <2>5. CASE Tick BY <2>5 DEF Tick, Recorded, AnsweredLast
  <2>6. CASE UNCHANGED vars BY <2>6 DEF vars, Recorded, AnsweredLast
  <2> QED BY <2>1, <2>2, <2>3, <2>4, <2>5, <2>6 DEF Next, Worker, Over
<1> QED BY <1>1, <1>2, TypeCorrect, PTL DEF Spec, IInv

(* A row that shows no error shows only numbers its apiserver returned.     *)
THEOREM RowsAreNotSilentlyZero == Spec => []NoSilentZero
<1>1. IInv => NoSilentZero
  BY DEF IInv, Recorded, NoSilentZero
<1> QED BY <1>1, RecordedInvariant, PTL

(* The answer is encoded from rows no goroutine writes any more.            *)
THEOREM RowsAreFrozen == Spec => RowsFrozenOnceAnswered
<1>1. IInv /\ [Next]_vars => [answered => UNCHANGED <<got, err>>]_vars
  <2> SUFFICES ASSUME IInv, Next, answered PROVE UNCHANGED <<got, err>>
    OBVIOUS
  <2>1. \A c \in Clusters : pc[c] = "done"
    BY DEF IInv, AnsweredLast
  <2> QED BY <2>1 DEF Next, Worker, Acquire, ListAnswers, ListGivesUp, Answer,
                      Disconnect, Tick, Over, vars
<1> QED BY <1>1, RecordedInvariant, PTL DEF Spec, RowsFrozenOnceAnswered

(* Every step of the handler settles one row with data or an error, sends   *)
(* the answer, or changes nothing the page can see: the safety part of      *)
(* ImplementsAnswer.                                                        *)
THEOREM AnswerSafety ==
  Spec => Promise!AnswerInit /\ [][Promise!AnswerNext]_(Promise!avars)
<1> DEFINE rows == [c \in Clusters |-> RowOf(c)]
<1>1. Init => Promise!AnswerInit
  BY DEF Init, Promise!AnswerInit, RowOf
<1>2. IInv /\ [Next]_vars => [Promise!AnswerNext]_(Promise!avars)
  <2> SUFFICES ASSUME IInv, [Next]_vars
               PROVE  [Promise!AnswerNext]_(Promise!avars)
    OBVIOUS
  <2> USE DEF IInv
  <2>1. ASSUME NEW c \in Clusters, Acquire(c) PROVE UNCHANGED Promise!avars
    <3>1. \A d \in Clusters : RowOf(d)' = RowOf(d)
      BY <2>1 DEF Acquire, RowOf, TypeOK
    <3> QED BY <2>1, <3>1 DEF Promise!avars, Acquire
  <2>2. ASSUME NEW c \in Clusters, ListAnswers(c) \/ ListGivesUp(c)
        PROVE  [Promise!AnswerNext]_(Promise!avars)
    <3>1. answered' = answered
      BY <2>2, WorkerMoves
    <3>2. \A d \in Clusters \ {c} : RowOf(d)' = RowOf(d)
      <4>1. \A d \in Clusters \ {c} : pc'[d] = pc[d]
        BY <2>2, WorkerMoves DEF TypeOK
      <4>2. \A d \in Clusters \ {c} : got'[d] = got[d] /\ err'[d] = err[d]
        BY <2>2, RecordedByWorker
      <4> QED BY <4>1, <4>2 DEF RowOf
    <3>3. CASE pc' = pc
      <4>1. RowOf(c)' = RowOf(c)
        BY <2>2, <3>3, WorkerMoves DEF RowOf
      <4> QED BY <3>1, <3>2, <4>1 DEF Promise!avars
    <3>4. CASE pc' = [pc EXCEPT ![c] = "done"]
      <4>1. pc[c] = "running" /\ pc'[c] = "done"
        BY <2>2, <3>4, WorkerMoves DEF TypeOK
      <4>2. err'[c] = "none" => got'[c] = 1..NumLists
        BY <2>2, <4>1, WorkerMoves, RecordedByWorker
      <4>4. RowOf(c) = "pending" /\ RowOf(c)' \in {"data", "error"}
        BY <4>1, <4>2 DEF RowOf
      <4>3. rows' = [rows EXCEPT ![c] = RowOf(c)']
        BY <3>2
      <4> QED BY <3>1, <4>3, <4>4 DEF Promise!AnswerNext, Promise!Settle
    <3> QED BY <2>2, <3>3, <3>4, WorkerMoves
  <2>3. CASE Answer
    <3>1. \A c \in Clusters : RowOf(c) # "pending" /\ RowOf(c)' = RowOf(c)
      BY <2>3 DEF Answer, RowOf
    <3> QED BY <2>3, <3>1 DEF Promise!AnswerNext, Promise!Send, Answer
  <2>4. CASE Disconnect \/ Tick \/ UNCHANGED vars
    BY <2>4 DEF Disconnect, Tick, vars, Promise!avars, RowOf
  <2> QED BY <2>1, <2>2, <2>3, <2>4 DEF Next, Worker, Over
<1> QED BY <1>1, <1>2, RecordedInvariant, PTL DEF Spec

-----------------------------------------------------------------------------
(* HealthyClusterReported is an argument about the work of the semaphore:   *)
(* Load, a sum, is counted as a set of token-ticks, which only grows.       *)

-----------------------------------------------------------------------------
(* How long cluster c has kept a token so far.                              *)
Spent(c) == CASE pc[c] = "queued"  -> 0
              [] pc[c] = "running" -> now - began[c]
              [] pc[c] = "done"    -> Hold(c)

(* Token-ticks: one pair <<c, t>> for each of the n[c] ticks that cluster c *)
(* of s keeps a token.  Their number is a sum over s.                       *)
TicksOf(n, s) == {p \in s \X (0..PerCall) : p[2] < n[p[1]]}
Holds  == [c \in Clusters |-> Hold(c)]
Spents == [c \in Clusters |-> Spent(c)]

(* A goroutine with a token: neither its deadline nor the time its LISTs    *)
(* take is over, and it waits for the LIST under way at most that long.     *)
PacedAt(c) ==
  /\ began[c] <= now
  /\ now <= Deadline(began[c])
  /\ now <= began[c] + list[c] * latency[c]
  /\ CtxDone(began[c]) \/ due[c] <= began[c] + list[c] * latency[c]

Paced == \A c \in Clusters : pc[c] = "running" => PacedAt(c)

(* While somebody waits for a token, every tick so far was kept by as many  *)
(* clusters as there are tokens.                                            *)
NoTokenIdle ==
  (\E c \in Clusters : pc[c] = "queued") =>
    Concurrency * now <= Cardinality(TicksOf(Spents, Clusters))

(* So whoever got a token waited no longer than the clusters can keep them. *)
BeganInTime ==
  \A c \in Clusters : pc[c] # "queued" => Concurrency * began[c] <= Load

(* ... and a cluster that can still answer in time is never cut off.        *)
CanAnswer(c) == Work(c) < PerCall /\ Load < Concurrency * (Overall - Work(c))
Unharmed ==
  \A c \in Clusters : CanAnswer(c) /\ ~gone => err[c] \in {"none", "upstream"}

(* Together, beside what is known already, this is inductive.               *)
TokensWellSpent == Paced /\ NoTokenIdle /\ BeganInTime /\ Unharmed

(* What the theorems above have shown.                                      *)
Known == TypeOK /\ TokensBounded /\ AnsweredWithinOverall /\ Recorded

-----------------------------------------------------------------------------
(* Induction over the subsets of a finite set, one element at a time.       *)
LEMMA SubsetInduction ==
  ASSUME NEW S, IsFiniteSet(S), NEW Good,
         \A s \in SUBSET S : (\A x \in s : s \ {x} \in Good) => s \in Good
  PROVE  SUBSET S \subseteq Good
<1> DEFINE Bad == (SUBSET S) \ Good
<1> SUFFICES ASSUME Bad # {} PROVE FALSE
  OBVIOUS
<1>1. IsWellFoundedOn(StrictSubsetOrdering(S), SUBSET S)
  <2>1. FiniteSubsetsOf(S) = SUBSET S
    BY FS_FiniteSubsetsOfFinite
  <2>2. IsWellFoundedOn(StrictSubsetOrdering(S), FiniteSubsetsOf(S))
    BY FS_StrictSubsetOrderingWellFounded
  <2> QED BY <2>1, <2>2
<1>2. PICK s \in Bad : \A r \in Bad : <<r, s>> \notin StrictSubsetOrdering(S)
  BY <1>1, WFMin
<1>3. \A x \in s : s \ {x} \in Good
  <2> SUFFICES ASSUME NEW x \in s PROVE s \ {x} \in Good
    OBVIOUS
  <2>1. s \ {x} \in SUBSET S /\ s \in SUBSET S /\ s \ {x} # s
    OBVIOUS
  <2>2. <<s \ {x}, s>> \in StrictSubsetOrdering(S)
    BY <2>1 DEF StrictSubsetOrdering
  <2> QED BY <1>2, <2>1, <2>2
<1> QED BY <1>2, <1>3

(* There are finitely many token-ticks, so they can be counted.             *)
LEMMA TicksFinite ==
  ASSUME NEW n, NEW s \in SUBSET Clusters
  PROVE  /\ IsFiniteSet(TicksOf(n, s)) /\ Cardinality(TicksOf(n, s)) \in Nat
<1>1. IsFiniteSet(s) /\ IsFiniteSet(0..PerCall)
  BY FS_Subset, FS_Interval
<1>2. IsFiniteSet(s \X (0..PerCall))
  BY <1>1, FS_Product
<1>3. TicksOf(n, s) \in SUBSET (s \X (0..PerCall))
  BY DEF TicksOf
<1> QED BY <1>2, <1>3, FS_Subset, FS_CardinalityType

(* One cluster has as many token-ticks as its number says...                *)
LEMMA TicksOfOne ==
  ASSUME NEW n, NEW c \in Clusters, n[c] \in 0..PerCall
  PROVE  Cardinality(TicksOf(n, {c})) = n[c]
<1> DEFINE ticks == 0..(n[c] - 1)
           pair  == [t \in ticks |-> <<c, t>>]
<1>1. IsFiniteSet(ticks) /\ Cardinality(ticks) = n[c]
  <2>1. 0 \in Int /\ n[c] - 1 \in Int
    OBVIOUS
  <2>2. IsFiniteSet(ticks) /\ Cardinality(ticks) = IF 0 > n[c] - 1 THEN 0 ELSE n[c] - 1 - 0 + 1
    BY <2>1, FS_Interval
  <2> QED BY <2>2
<1>2. pair \in Bijection(ticks, TicksOf(n, {c}))
  <2>1. \A t \in ticks : t \in 0..PerCall /\ t < n[c]
    OBVIOUS
  <2>2. \A t \in ticks : pair[t] \in TicksOf(n, {c})
    BY <2>1 DEF TicksOf
  <2>3. \A p \in TicksOf(n, {c}) : p[2] \in ticks /\ p = pair[p[2]]
    BY DEF TicksOf
  <2>4. \A t, u \in ticks : pair[t] = pair[u] => t = u
    OBVIOUS
  <2> QED BY <2>2, <2>3, <2>4 DEF Bijection, Injection, Surjection, IsInjective
<1>3. Cardinality(TicksOf(n, {c})) = Cardinality(ticks)
  BY <1>1, <1>2, FS_Bijection DEF ExistsBijection
<1> QED BY <1>1, <1>3

(* ... and they add to those of the others: counting token-ticks is a sum.  *)
LEMMA TicksOfOneMore ==
  ASSUME NEW n, NEW s \in SUBSET Clusters, NEW c \in s, n[c] \in 0..PerCall
  PROVE  Cardinality(TicksOf(n, s)) = n[c] + Cardinality(TicksOf(n, s \ {c}))
<1> DEFINE A == TicksOf(n, {c})
           B == TicksOf(n, s \ {c})
<1>1. TicksOf(n, s) = A \cup B /\ A \cap B = {}
  BY DEF TicksOf
<1>2. IsFiniteSet(A) /\ IsFiniteSet(B) /\ Cardinality(A) \in Nat /\ Cardinality(B) \in Nat
  BY TicksFinite
<1>3. Cardinality(A \cup B) = Cardinality(A) + Cardinality(B)
  <2>1. Cardinality(A \cap B) = 0
    BY <1>1, FS_EmptySet
  <2> HIDE DEF A, B
  <2>2. Cardinality(A \cup B) = Cardinality(A) + Cardinality(B) - Cardinality(A \cap B)
    BY <1>2, FS_Union
  <2> QED BY <2>1, <2>2, <1>2
<1>4. Cardinality(A) = n[c]
  BY TicksOfOne
<1> QED BY <1>1, <1>3, <1>4

(* The work of a cluster is a number of ticks.                              *)
LEMMA WorkType == ASSUME TypeOK PROVE \A c \in Clusters : Work(c) \in Nat
BY DEF Work, TypeOK

(* Nobody keeps a token for more than its per-call timeout.                 *)
LEMMA HoldType == ASSUME TypeOK PROVE \A c \in Clusters : Hold(c) \in 0..PerCall
BY WorkType DEF Hold, Earlier, TypeOK

(* Load, a fold, is the number of the token-ticks.                          *)
LEMMA LoadCountsTicks == TypeOK => Load = Cardinality(TicksOf(Holds, Clusters))
<1> SUFFICES ASSUME TypeOK PROVE Load = Cardinality(TicksOf(Holds, Clusters))
  OBVIOUS
<1> DEFINE Pick(s) == CHOOSE c \in s : TRUE
           Sum(F)  == F = [s \in SUBSET Clusters |->
                             IF s = {} THEN 0 ELSE Hold(Pick(s)) + F[s \ {Pick(s)}]]
           Ticks   == [s \in SUBSET Clusters |-> Cardinality(TicksOf(Holds, s))]
<1>1. Sum(Ticks)
  <2>1. TicksOf(Holds, {}) = {}
    BY DEF TicksOf
  <2>2. Ticks[{}] = 0
    BY <2>1, FS_EmptySet
  <2>3. ASSUME NEW s \in SUBSET Clusters, s # {}
        PROVE  Ticks[s] = Hold(Pick(s)) + Ticks[s \ {Pick(s)}]
    <3>1. Pick(s) \in s
      BY <2>3
    <3> HIDE DEF Pick
    <3>2. Holds[Pick(s)] = Hold(Pick(s)) /\ Hold(Pick(s)) \in 0..PerCall
      BY <3>1, HoldType DEF Holds
    <3> QED BY <3>1, <3>2, TicksOfOneMore
  <2> HIDE DEF Pick
  <2> QED BY <2>2, <2>3
<1>2. \E F : Sum(F) /\ Load = F[Clusters]
  <2>1. Load = (CHOOSE F : Sum(F))[Clusters]
    BY DEF Load, MapThenSumSet, MapThenFoldSet
  <2> QED BY <1>1, <2>1
<1>3. ASSUME NEW F, Sum(F) PROVE F[Clusters] = Ticks[Clusters]
  <2> DEFINE Good == {s \in SUBSET Clusters : F[s] = Ticks[s]}
  <2>1. ASSUME NEW s \in SUBSET Clusters, \A c \in s : s \ {c} \in Good
        PROVE  s \in Good
    <3>1. s # {} => Pick(s) \in s
      OBVIOUS
    <3> HIDE DEF Pick
    <3>2. s # {} => F[s \ {Pick(s)}] = Ticks[s \ {Pick(s)}]
      BY <2>1, <3>1
    <3>3. F[s] = IF s = {} THEN 0 ELSE Hold(Pick(s)) + F[s \ {Pick(s)}]
      BY <1>3
    <3>4. Ticks[s] = IF s = {} THEN 0 ELSE Hold(Pick(s)) + Ticks[s \ {Pick(s)}]
      BY <1>1
    <3> QED BY <3>2, <3>3, <3>4
  <2> HIDE DEF Good
  <2>2. SUBSET Clusters \subseteq Good
    BY <2>1, SubsetInduction
  <2> QED BY <2>2 DEF Good
<1> HIDE DEF Sum
<1> QED BY <1>2, <1>3
-----------------------------------------------------------------------------
(* Every step keeps the pace: a LIST begins only after the one before, and  *)
(* time passes only while nobody is late.                                   *)
LEMMA PacedStep == Known /\ Paced /\ [Next]_vars => Paced'
<1> SUFFICES ASSUME Known, Paced, [Next]_vars, NEW c \in Clusters, pc'[c] = "running"
             PROVE  PacedAt(c)'
  BY DEF Paced
<1> USE DEF Known
<1>0. /\ now \in Nat /\ now <= Overall /\ gone \in BOOLEAN
      /\ began[c] \in Nat /\ due[c] \in Nat /\ list[c] \in {1, 2} /\ latency[c] \in Nat
  BY DEF TypeOK, AnsweredWithinOverall
<1>1. CASE Acquire(c)
  <2>1. /\ began'[c] = now /\ due'[c] = DueTime(c, now) /\ list[c] = 1
        /\ UNCHANGED <<now, gone, list, latency>>
    BY <1>1 DEF Acquire, Recorded, TypeOK
  <2>2. list[c] * latency[c] = latency[c]
    BY <1>0, <2>1
  <2>3. CtxDone(now) = CtxDone(began[c])'
    BY <2>1 DEF CtxDone, Deadline
  <2> QED BY <1>0, <2>1, <2>2, <2>3 DEF PacedAt, Deadline, Earlier, DueTime
<1>2. ASSUME pc[c] = "running", UNCHANGED <<now, latency, began, list, due>>, gone => gone'
      PROVE PacedAt(c)'
  BY <1>2, <1>0 DEF PacedAt, CtxDone, Deadline, Paced
<1>3. ASSUME NEW d \in Clusters, d # c, Worker(d) PROVE PacedAt(c)'
  <2>1. /\ pc[c] = "running" /\ UNCHANGED <<now, gone, latency>>
        /\ began'[c] = began[c] /\ due'[c] = due[c] /\ list'[c] = list[c]
    BY <1>3 DEF Worker, Acquire, ListAnswers, ListGivesUp, Proceed, TypeOK
  <2> QED BY <2>1, <1>0 DEF PacedAt, CtxDone, Deadline, Paced
<1>4. CASE ListAnswers(c) \/ ListGivesUp(c)
  <2>1. /\ list'[c] = list[c] + 1 /\ due'[c] = DueTime(c, began[c]) /\ pc[c] = "running"
        /\ UNCHANGED <<now, gone, began, latency>>
    <3>1. Proceed(c) /\ pc[c] = "running" /\ UNCHANGED <<now, gone, began, latency>>
      BY <1>4 DEF ListAnswers, ListGivesUp
    <3>2. list[c] # NumLists
      BY <3>1 DEF Proceed, TypeOK
    <3> QED BY <3>1, <3>2 DEF Proceed, TypeOK
  <2>2. list'[c] * latency[c] = list[c] * latency[c] + latency[c]
    BY <1>0, <2>1
  <2>3. PacedAt(c)
    BY <2>1 DEF Paced
  <2>4. CtxDone(began[c])' = CtxDone(began[c]) /\ Deadline(began[c])' = Deadline(began[c])
    BY <2>1 DEF CtxDone, Deadline
  <2> DEFINE most == list[c] * latency[c]
  <2>5. most \in Nat
    BY <1>0
  <2> HIDE DEF most
  <2> QED BY <1>0, <2>1, <2>2, <2>3, <2>4, <2>5 DEF PacedAt, DueTime, most
<1>5. CASE Tick
  <2>1. /\ pc[c] = "running" /\ now' = now + 1 /\ ~Urgent
        /\ UNCHANGED <<gone, latency, began, list, due>>
    BY <1>5 DEF Tick
  <2>2. ~CtxDone(began[c]) /\ now < due[c]
    BY <2>1, <1>0 DEF Urgent, Running
  <2>3. now < Deadline(began[c]) /\ Deadline(began[c]) \in Nat
    BY <2>2, <1>0 DEF CtxDone, Deadline, Earlier
  <2>4. PacedAt(c)
    BY <2>1 DEF Paced
  <2> DEFINE most == list[c] * latency[c]
  <2>5. most \in Nat
    BY <1>0
  <2> HIDE DEF most
  <2>6. now < began[c] + most
    BY <2>2, <2>4, <2>5, <1>0 DEF PacedAt, most
  <2>7. /\ Deadline(began[c])' = Deadline(began[c])
        /\ (list[c] * latency[c])' = most /\ due'[c] = due[c] /\ began'[c] = began[c]
    BY <2>1 DEF Deadline, most
  <2>8. due[c] <= began[c] + most
    BY <2>2, <2>4 DEF PacedAt, most
  <2>9. /\ (began[c] <= now)' /\ (now <= Deadline(began[c]))'
        /\ (now <= began[c] + list[c] * latency[c])'
    BY <2>1, <2>3, <2>4, <2>5, <2>6, <2>7, <1>0 DEF PacedAt
  <2>10. (due[c] <= began[c] + list[c] * latency[c])'
    BY <2>7, <2>8
  <2> QED BY <2>9, <2>10 DEF PacedAt
<1>6. CASE Answer BY <1>6, <1>2 DEF Answer
<1>7. CASE Disconnect BY <1>7, <1>2 DEF Disconnect
<1>8. CASE UNCHANGED vars BY <1>8, <1>2 DEF vars
<1> QED BY <1>1, <1>3, <1>4, <1>5, <1>6, <1>7, <1>8 DEF Next, Worker, Over

-----------------------------------------------------------------------------
(* No goroutine holds its token longer than Hold(c)...                      *)
SpentBounded == \A c \in Clusters : Spent(c) \in 0..Hold(c)

(* ... which follows from the pace it keeps.                                *)
LEMMA SpentType == Known /\ Paced => SpentBounded
<1> SUFFICES ASSUME Known, Paced, NEW c \in Clusters PROVE Spent(c) \in 0..Hold(c)
  BY DEF SpentBounded
<1>0. /\ now \in Nat /\ began[c] \in Nat /\ list[c] \in 1..NumLists /\ latency[c] \in Nat
      /\ pc[c] \in {"queued", "running", "done"}
  BY DEF Known, TypeOK
<1>1. Hold(c) \in Nat /\ Work(c) \in Nat
  BY <1>0, WorkType DEF Hold, Earlier, Known
<1>2. CASE pc[c] # "running"
  BY <1>0, <1>1, <1>2 DEF Spent
<1>3. CASE pc[c] = "running"
  <2>1. PacedAt(c)
    BY <1>3 DEF Paced
  <2>2. list[c] * latency[c] <= Work(c)
    BY <1>0 DEF Work
  <2>3. now - began[c] <= PerCall
    BY <2>1, <1>0 DEF PacedAt, Deadline, Earlier
  <2>4. now - began[c] <= Work(c)
    <3> DEFINE most == list[c] * latency[c]
               all  == Work(c)
    <3>1. most \in Nat /\ all \in Nat /\ most <= all /\ now <= began[c] + most
      BY <1>0, <1>1, <2>1, <2>2 DEF PacedAt
    <3> HIDE DEF most, all
    <3>2. now - began[c] <= all
      BY <3>1, <1>0
    <3> QED BY <3>2 DEF all
  <2>5. now - began[c] \in Nat
    BY <2>1, <1>0 DEF PacedAt
  <2>6. Spent(c) = now - began[c]
    BY <1>3 DEF Spent
  <2> QED BY <2>3, <2>4, <2>5, <2>6, <1>0, <1>1 DEF Hold, Earlier
<1> QED BY <1>2, <1>3

(* The sum is monotonic.                                                    *)
LEMMA TicksGrow ==
  ASSUME NEW n, NEW m, \A c \in Clusters : n[c] \in Int /\ m[c] \in Int /\ n[c] <= m[c]
  PROVE  Cardinality(TicksOf(n, Clusters)) <= Cardinality(TicksOf(m, Clusters))
<1>1. TicksOf(n, Clusters) \subseteq TicksOf(m, Clusters)
  <2> SUFFICES ASSUME NEW p \in TicksOf(n, Clusters) PROVE p \in TicksOf(m, Clusters)
    OBVIOUS
  <2>1. p \in Clusters \X (0..PerCall) /\ p[2] < n[p[1]]
    BY DEF TicksOf
  <2>2. p[1] \in Clusters /\ p[2] \in Int
    BY <2>1
  <2>3. p[2] < m[p[1]]
    BY <2>1, <2>2
  <2> QED BY <2>1, <2>3 DEF TicksOf
<1>2. IsFiniteSet(TicksOf(m, Clusters))
  BY TicksFinite
<1> QED BY <1>1, <1>2, FS_Subset

(* One tick more for each of the clusters of r.                             *)
LEMMA TicksOfAll ==
  ASSUME NEW n, NEW m, NEW r \in SUBSET Clusters,
         \A c \in Clusters : n[c] \in 0..PerCall /\ m[c] \in 0..PerCall,
         \A c \in Clusters : m[c] = IF c \in r THEN n[c] + 1 ELSE n[c]
  PROVE  Cardinality(TicksOf(m, Clusters)) = Cardinality(TicksOf(n, Clusters)) + Cardinality(r)
<1> DEFINE last == [c \in r |-> <<c, n[c]>>]
           new  == {last[c] : c \in r}
           A    == TicksOf(n, Clusters)
<1>1. TicksOf(m, Clusters) = A \cup new
  <2>1. ASSUME NEW p \in Clusters \X (0..PerCall)
        PROVE  p[2] < m[p[1]] <=> p[2] < n[p[1]] \/ p \in new
    <3>1. PICK c \in Clusters, t \in 0..PerCall : p = <<c, t>>
      OBVIOUS
    <3>2. p \in new <=> c \in r /\ t = n[c]
      BY <3>1
    <3>3. t < m[c] <=> t < n[c] \/ (c \in r /\ t = n[c])
      OBVIOUS
    <3> QED BY <3>1, <3>2, <3>3
  <2>2. new \subseteq Clusters \X (0..PerCall)
    OBVIOUS
  <2> QED BY <2>1, <2>2 DEF TicksOf
<1>2. A \cap new = {}
  BY DEF TicksOf
<1>3. IsFiniteSet(r) /\ IsFiniteSet(A) /\ Cardinality(A) \in Nat /\ Cardinality(r) \in Nat
  BY TicksFinite, FS_Subset, FS_CardinalityType
<1>4. IsFiniteSet(new) /\ Cardinality(new) = Cardinality(r)
  <2>1. last \in Bijection(r, new)
    <3>1. \A c, d \in r : last[c] = last[d] => c = d
      OBVIOUS
    <3>2. last \in [r -> new] /\ \A p \in new : \E c \in r : last[c] = p
      OBVIOUS
    <3> HIDE DEF last, new
    <3> QED BY <3>1, <3>2 DEF Bijection, Injection, Surjection, IsInjective
  <2> QED BY <2>1, <1>3, FS_Bijection DEF ExistsBijection
<1>5. Cardinality(A \cup new) = Cardinality(A) + Cardinality(new) - Cardinality(A \cap new)
  <2> HIDE DEF A, new
  <2> QED BY <1>3, <1>4, FS_Union
<1>6. Cardinality(A \cap new) = 0
  BY <1>2, FS_EmptySet
<1> QED BY <1>1, <1>3, <1>4, <1>5, <1>6

-----------------------------------------------------------------------------
(* No step changes an apiserver, and so none changes what it can hold.      *)
LEMMA WorldIsConstant ==
  ASSUME Known, Known', [Next]_vars
  PROVE  /\ latency' = latency /\ Load' = Load
         /\ \A c \in Clusters : Hold(c)' = Hold(c) /\ Work(c)' = Work(c)
<1>1. latency' = latency
  BY DEF Next, Worker, Acquire, ListAnswers, ListGivesUp, Answer, Disconnect, Tick, Over, vars
<1>2. \A c \in Clusters : Hold(c)' = Hold(c) /\ Work(c)' = Work(c)
  BY <1>1 DEF Hold, Work
<1>3. Holds' = Holds
  BY <1>2 DEF Holds
<1>4. TypeOK /\ TypeOK'
  BY DEF Known
<1>5. Load' = Cardinality(TicksOf(Holds, Clusters))'
  <2>1. (TypeOK => Load = Cardinality(TicksOf(Holds, Clusters)))'
    BY LoadCountsTicks, PTL
  <2> QED BY <1>4, <2>1
<1>6. Cardinality(TicksOf(Holds, Clusters))' = Cardinality(TicksOf(Holds, Clusters))
  BY <1>3 DEF TicksOf
<1> QED BY <1>1, <1>2, <1>4, <1>5, <1>6, LoadCountsTicks

(* What the steps other than Tick do to the time spent: it never shrinks.   *)
LEMMA SpentGrows ==
  ASSUME Known, Known', Paced, Paced', [Next]_vars, ~Tick
  PROVE  /\ now' = now
         /\ \A c \in Clusters : Spent(c) <= Spent(c)' /\ (pc'[c] = "queued" => pc[c] = "queued")
<1>1. now' = now
  BY DEF Next, Worker, Acquire, ListAnswers, ListGivesUp, Answer, Disconnect, Over, vars
<1>2. ASSUME NEW c \in Clusters
      PROVE  Spent(c) <= Spent(c)' /\ (pc'[c] = "queued" => pc[c] = "queued")
  <2>1. Spent(c) \in 0..Hold(c) /\ Hold(c) \in Nat
    BY SpentType, HoldType DEF Known, SpentBounded
  <2>2. Spent(c)' \in 0..Hold(c)
    <3>1. (Known /\ Paced => SpentBounded)'
      BY SpentType, PTL
    <3>2. Hold(c)' = Hold(c)
      BY WorldIsConstant
    <3> QED BY <3>1, <3>2 DEF SpentBounded
  <2>3. CASE pc'[c] = pc[c] /\ began'[c] = began[c]
    <3>1. Spent(c)' = Spent(c)
      BY <1>1, <2>3, WorldIsConstant DEF Spent
    <3> QED BY <2>1, <2>3, <3>1
  <2>4. CASE pc[c] = "queued" /\ pc'[c] = "running"
    BY <2>2, <2>4, WorldIsConstant DEF Spent
  <2>5. CASE pc[c] = "running" /\ pc'[c] = "done"
    BY <2>1, <2>5, WorldIsConstant DEF Spent
  <2>6. ASSUME NEW d \in Clusters, Worker(d)
        PROVE  \/ pc'[c] = pc[c] /\ began'[c] = began[c]
               \/ pc[c] = "queued" /\ pc'[c] = "running"
               \/ pc[c] = "running" /\ pc'[c] = "done"
    BY <2>6 DEF Worker, Acquire, ListAnswers, ListGivesUp, Proceed, Known, TypeOK
  <2>7. CASE UNCHANGED <<pc, began>>
    BY <2>3, <2>7
  <2> QED BY <2>3, <2>4, <2>5, <2>6, <2>7 DEF Next, Answer, Disconnect, Over, vars
<1> QED BY <1>1, <1>2

(* The semaphore never idles: time passes with somebody in the queue only   *)
(* while every token is taken, and each taken token then spends a tick.     *)
LEMMA NoTokenIdleStep ==
  Known /\ Known' /\ Paced /\ Paced' /\ NoTokenIdle /\ [Next]_vars => NoTokenIdle'
<1> SUFFICES ASSUME Known, Known', Paced, Paced', NoTokenIdle, [Next]_vars,
                    NEW q \in Clusters, pc'[q] = "queued"
             PROVE  Concurrency * now' <= Cardinality(TicksOf(Spents', Clusters))
  BY DEF NoTokenIdle, TicksOf
<1> DEFINE spent == Cardinality(TicksOf(Spents, Clusters))
<1>0. \A c \in Clusters : Spent(c) \in 0..PerCall /\ Spent(c)' \in 0..PerCall
  <2>1. (Known /\ Paced => SpentBounded)'
    BY SpentType, PTL
  <2>2. \A c \in Clusters : Hold(c) \in 0..PerCall /\ Hold(c)' = Hold(c)
    BY HoldType, WorldIsConstant DEF Known
  <2>3. \A c \in Clusters : Spent(c) \in 0..Hold(c) /\ Spent(c)' \in 0..Hold(c)
    BY <2>1, <2>2, SpentType DEF SpentBounded
  <2> QED BY <2>2, <2>3
<1>1. \A c \in Clusters : Spents[c] = Spent(c) /\ Spents'[c] = Spent(c)'
  BY DEF Spents
<1>2. spent \in Nat /\ Cardinality(TicksOf(Spents', Clusters)) \in Nat /\ now \in Nat
  BY TicksFinite DEF Known, TypeOK
<1>3. CASE ~Tick
  <2>1. Concurrency * now <= spent
    BY <1>3, SpentGrows DEF NoTokenIdle
  <2>2. \A c \in Clusters : /\ Spents[c] \in Int /\ Spents'[c] \in Int
                            /\ Spents[c] <= Spents'[c]
    BY <1>3, <1>0, <1>1, SpentGrows
  <2>3. spent <= Cardinality(TicksOf(Spents', Clusters))
    BY <2>2, TicksGrow
  <2>4. now' = now
    BY <1>3, SpentGrows
  <2> QED BY <2>1, <2>3, <2>4, <1>2
<1>4. CASE Tick
  <2>1. now' = now + 1 /\ ~Urgent /\ UNCHANGED <<pc, began, latency>>
    BY <1>4 DEF Tick
  <2>2. Concurrency * now <= spent
    BY <2>1 DEF NoTokenIdle
  <2>3. Cardinality(Running) = Concurrency
    BY <2>1, RunningFinite DEF Urgent, Known, TokensBounded
  <2>4. \A c \in Clusters : Spent(c)' = IF c \in Running THEN Spent(c) + 1 ELSE Spent(c)
    BY <2>1, WorldIsConstant DEF Spent, Running, Known, TypeOK
  <2>5. Cardinality(TicksOf(Spents', Clusters)) = spent + Cardinality(Running)
    <3>1. Running \in SUBSET Clusters
      BY DEF Running
    <3> QED BY <3>1, <2>4, <1>0, <1>1, TicksOfAll
  <2>6. Concurrency * (now + 1) = Concurrency * now + Concurrency
    BY <1>2
  <2> QED BY <2>1, <2>2, <2>3, <2>5, <2>6, <1>2
<1> QED BY <1>3, <1>4

(* A token is only ever got after the ticks before it were spent by others. *)
LEMMA BeganInTimeStep ==
  Known /\ Known' /\ Paced /\ NoTokenIdle /\ BeganInTime /\ [Next]_vars => BeganInTime'
<1> SUFFICES ASSUME Known, Known', Paced, NoTokenIdle, BeganInTime, [Next]_vars,
                    NEW c \in Clusters, pc'[c] # "queued"
             PROVE  Concurrency * began'[c] <= Load
  BY WorldIsConstant DEF BeganInTime
<1>1. CASE pc[c] # "queued" /\ began'[c] = began[c]
  BY <1>1 DEF BeganInTime
<1>2. CASE Acquire(c)
  <2>1. pc[c] = "queued" /\ began'[c] = now
    BY <1>2 DEF Acquire, Known, TypeOK
  <2>2. Concurrency * now <= Cardinality(TicksOf(Spents, Clusters))
    BY <2>1 DEF NoTokenIdle
  <2>3. Cardinality(TicksOf(Spents, Clusters)) <= Load
    <3>1. \A d \in Clusters : /\ Spents[d] \in Int /\ Holds[d] \in Int
                              /\ Spents[d] <= Holds[d]
      BY SpentType, HoldType DEF Known, Spents, Holds, SpentBounded
    <3> QED BY <3>1, TicksGrow, LoadCountsTicks DEF Known
  <2>4. now \in Nat /\ Load \in Nat /\ Cardinality(TicksOf(Spents, Clusters)) \in Nat
    BY TicksFinite, LoadCountsTicks DEF Known, TypeOK
  <2>5. Concurrency * now <= Load
    BY <2>2, <2>3, <2>4
  <2> QED BY <2>1, <2>5
<1>3. ASSUME NEW d \in Clusters, Worker(d), ~Acquire(c)
      PROVE  pc[c] # "queued" /\ began'[c] = began[c]
  BY <1>3 DEF Worker, Acquire, ListAnswers, ListGivesUp, Proceed, Known, TypeOK
<1>4. CASE UNCHANGED <<pc, began>>
  BY <1>1, <1>4
<1> QED BY <1>1, <1>2, <1>3, <1>4 DEF Next, Answer, Disconnect, Tick, Over, vars

(* A cluster that began in time and whose work fits cannot see its context  *)
(* end.                                                                     *)
LEMMA EndsBeforeDeadline ==
  ASSUME Known, Paced, BeganInTime, NEW c \in Clusters, CanAnswer(c), pc[c] = "running"
  PROVE  now < Deadline(began[c])
<1>1. PacedAt(c) /\ Concurrency * began[c] <= Load
  BY DEF Paced, BeganInTime
<1>2. /\ now \in Nat /\ began[c] \in Nat /\ list[c] \in 1..NumLists /\ latency[c] \in Nat
      /\ Work(c) \in Nat /\ Load \in Nat
  BY WorkType, TicksFinite, LoadCountsTicks DEF Known, TypeOK
<1>3. now <= began[c] + Work(c)
  <2> DEFINE most == list[c] * latency[c]
             all  == NumLists * latency[c]
  <2>1. most \in Nat /\ all \in Nat /\ most <= all
    BY <1>2
  <2>2. now <= began[c] + most /\ Work(c) = all
    BY <1>1 DEF PacedAt, Work
  <2> HIDE DEF most, all
  <2> QED BY <2>1, <2>2, <1>2
<1>4. began[c] < Overall - Work(c)
  <2> DEFINE left == Overall - Work(c)
  <2>1. left \in Int
    BY <1>2
  <2>2. Concurrency * began[c] < Concurrency * left
    <3>1. Concurrency * began[c] \in Nat /\ Concurrency * left \in Int
      BY <1>2, <2>1
    <3>2. Load < Concurrency * left
      BY DEF CanAnswer
    <3> HIDE DEF left
    <3> QED BY <1>1, <1>2, <3>1, <3>2
  <2> HIDE DEF left
  <2>3. began[c] < left
    BY <1>2, <2>1, <2>2
  <2> QED BY <2>3 DEF left
<1>5. Work(c) < PerCall
  BY DEF CanAnswer
<1> QED BY <1>2, <1>3, <1>4, <1>5 DEF Deadline, Earlier

LEMMA UnharmedStep ==
  Known /\ Known' /\ Paced /\ BeganInTime /\ Unharmed /\ [Next]_vars => Unharmed'
<1> SUFFICES ASSUME Known, Known', Paced, BeganInTime, Unharmed, [Next]_vars,
                    NEW c \in Clusters, CanAnswer(c), ~gone'
             PROVE  err'[c] \in {"none", "upstream"}
  BY WorldIsConstant DEF Unharmed, CanAnswer
<1>1. ~gone
  BY DEF Next, Worker, Acquire, ListAnswers, ListGivesUp, Answer, Disconnect, Tick, Over, vars
<1>2. err[c] \in {"none", "upstream"}
  BY <1>1 DEF Unharmed
<1>3. ~ListGivesUp(c)
  <2> SUFFICES ASSUME ListGivesUp(c) PROVE FALSE
    OBVIOUS
  <2>1. pc[c] = "running" /\ now >= Deadline(began[c])
    BY <1>1 DEF ListGivesUp, CtxDone
  <2>2. now < Deadline(began[c])
    BY <2>1, EndsBeforeDeadline
  <2>3. now \in Nat /\ Deadline(began[c]) \in Int
    BY DEF Known, TypeOK, Deadline, Earlier
  <2> QED BY <2>1, <2>2, <2>3
<1>4. CASE ListAnswers(c)
  BY <1>2, <1>4 DEF ListAnswers, KeepError, Known, TypeOK
<1>5. ASSUME NEW d \in Clusters, Worker(d), ~ListAnswers(c) PROVE err'[c] = err[c]
  BY <1>3, <1>5 DEF Worker, Acquire, ListAnswers, ListGivesUp, KeepError, Known, TypeOK
<1> QED BY <1>2, <1>4, <1>5 DEF Next, Answer, Disconnect, Tick, Over, vars

(* A slow or hung apiserver does not take a healthy one with it: for every  *)
(* number of clusters, tokens and ticks, a cluster whose LISTs fit into the *)
(* per-call timeout is never cut off, if the clusters together can hold     *)
(* tokens for less time than all tokens have before the last moment at      *)
(* which it could begin (handlers_clusters.go:35-60).                       *)
THEOREM HealthyIsReported == Spec => []HealthyClusterReported
<1>1. Spec => []Known
  BY TypeCorrect, TokensAreBounded, AnswersWithinOverall, RecordedInvariant, PTL DEF Known, IInv
<1>2. Init => TokensWellSpent
  <2> SUFFICES ASSUME Init PROVE TokensWellSpent
    OBVIOUS
  <2>1. Paced /\ BeganInTime /\ Unharmed
    BY DEF Init, Paced, BeganInTime, Unharmed
  <2>2. Concurrency * now = 0
    BY DEF Init
  <2>3. Cardinality(TicksOf(Spents, Clusters)) \in Nat
    BY TicksFinite
  <2> QED BY <2>1, <2>2, <2>3 DEF TokensWellSpent, NoTokenIdle
<1>3. Known /\ Known' /\ TokensWellSpent /\ [Next]_vars => TokensWellSpent'
  BY PacedStep, NoTokenIdleStep, BeganInTimeStep, UnharmedStep DEF TokensWellSpent
<1>4. TokensWellSpent => HealthyClusterReported
  BY DEF TokensWellSpent, Unharmed, HealthyClusterReported, CanAnswer
<1> QED BY <1>1, <1>2, <1>3, <1>4, PTL DEF Spec
=============================================================================
