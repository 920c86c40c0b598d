-------------------------- MODULE QueryPageProofs --------------------------
(***************************************************************************)
(* Theorems about QueryPage, for every page of the table and a server that *)
(* may be restarted or not, and a network that may be away or lose what is *)
(* under way.  What is proved of the age of the data needs the clock of    *)
(* the polls and the latency left to the fetch under way: Aged bounds the  *)
(* age by them in each state of the view's query.                          *)
(***************************************************************************)
EXTENDS QueryPage, TLAPS

Rows == {"rows", "failedRow", "noMachines"}

Fetches == {"no", "paused", "first", "wait", "second"}
QueryStates ==
  [data : {"none", "wired", "unwired"} \cup Rows, stale : BOOLEAN, err : BOOLEAN,
   fetch : Fetches, due : Int]

Typed == q \in [Queries -> QueryStates] /\ TypeOK

(* How old the data is, by what the view's query is doing: waiting for the *)
(* timer, put off, trying, about to retry, or retrying.                    *)
Current == visible /\ open /\ Wired /\ ~q["view"].err /\ q["view"].data # "none"
Aged ==
  Current =>
    /\ q["view"].fetch = "no" => shown + timer <= P.interval
    /\ q["view"].fetch = "paused" => shown <= P.interval
    /\ q["view"].fetch = "first" => /\ shown <= P.interval + P.slowest
                                    /\ shown + q["view"].due <= P.interval + P.slowest
    /\ q["view"].fetch = "wait" => shown <= P.interval + P.slowest
    /\ q["view"].fetch = "second" => /\ shown <= P.interval + 2 * P.slowest
                                     /\ shown + q["view"].due <= P.interval + 2 * P.slowest

IInv == Typed /\ Aged

-----------------------------------------------------------------------------
(* The rows of the table: every page polls, and has answers to show.       *)
PageRows == [interval : Nat \ {0}, slowest : Nat, answers : SUBSET Rows,
             throws : SUBSET Rows, peeks : BOOLEAN]

LEMMA PageIsRow ==
  ASSUME NEW i \in Nat \ {0}, NEW s \in Nat PROVE Page(i, s) \in PageRows
BY DEF Page, PageRows, Rows

LEMMA FailedRowsAreRows ==
  ASSUME NEW r \in PageRows PROVE WithFailedRows(r) \in PageRows
BY DEF WithFailedRows, PageRows, Rows

LEMMA TableIsShaped == \A p \in DOMAIN Table : Table[p] \in PageRows
<1>1. /\ FleetOverview \in PageRows /\ ShardsList \in PageRows /\ ShardDetail \in PageRows
      /\ ClusterDetail \in PageRows /\ FinOps \in PageRows /\ Topology \in PageRows
  BY PageIsRow DEF FleetOverview, ShardsList, ShardDetail, ClusterDetail, FinOps, Topology
<1>2. ClustersList \in PageRows
  BY PageIsRow, FailedRowsAreRows DEF ClustersList
<1>3. AvailableCapacity \in PageRows
  <2>1. WithFailedRows(Page(3, 6)) \in PageRows
    BY PageIsRow, FailedRowsAreRows
  <2> QED
    BY <2>1 DEF AvailableCapacity, PageRows, Rows
<1>4. ShardReports \in PageRows
  <2>1. Page(2, 1) \in PageRows
    BY PageIsRow
  <2> QED
    BY <2>1 DEF ShardReports, PageRows, Rows
<1> QED
  BY <1>1, <1>2, <1>3, <1>4 DEF Table

LEMMA PageShape ==
  ASSUME page \in Pages
  PROVE  P.interval \in Nat \ {0} /\ P.slowest \in Nat /\ P.answers \subseteq Rows
<1>1. P \in PageRows
  BY TableIsShaped, PageAssumption DEF PageAssumption, P
<1> QED
  BY <1>1 DEF PageRows

-----------------------------------------------------------------------------
(* A query that was just begun, or is new, is a query.                     *)
LEMMA FreshIsQuery ==
  ASSUME NEW f \in Fetches
  PROVE  /\ Fresh(f) \in QueryStates
         /\ Fresh(f).data = "none" /\ Fresh(f).fetch = f /\ Fresh(f).due = 0
         /\ Fresh(f).err = FALSE /\ Fresh(f).stale = FALSE
BY DEF Fresh, QueryStates, Fetches

LEMMA LatencyType ==
  ASSUME page \in Pages, NEW x \in Queries PROVE Latency(x) \subseteq Lost..P.slowest
BY PageShape DEF Latency, Lost

(* Begun keeps the data of the query and, where there is some, its error.  *)
IsBegun(v, x) ==
  /\ v \in QueryStates
  /\ v.data = q[x].data /\ v.stale = q[x].stale
  /\ v.fetch \in {"first", "paused"} /\ v.due \in Lost..P.slowest
  /\ v.fetch = "paused" => v.due = 0
  /\ q[x].data # "none" => v.err = q[x].err

LEMMA BegunIs ==
  ASSUME Typed, NEW x \in Queries, NEW f \in {"first", "paused"}, NEW l \in Lost..P.slowest,
         f = "paused" => l = 0
  PROVE  IsBegun(Begun(x, f, l), x)
<1>1. /\ q[x] \in QueryStates /\ q[x].err \in {TRUE, FALSE} /\ l \in Int /\ f \in Fetches
      /\ q[x].stale \in BOOLEAN
  <2>1. q[x] \in QueryStates /\ P.slowest \in Nat
    BY PageShape DEF Typed, TypeOK
  <2>2. l \in Int /\ f \in Fetches
    BY <2>1 DEF Lost, Fetches
  <2>3. q[x].err \in {TRUE, FALSE} /\ q[x].stale \in BOOLEAN
    BY <2>1 DEF QueryStates
  <2> QED
    BY <2>1, <2>2, <2>3
<1>2. CASE q[x].err = TRUE /\ q[x].data # "none"
  <2>1. Begun(x, f, l) = [q[x] EXCEPT !.fetch = f, !.due = l, !.err = TRUE]
    BY <1>2, Zenon DEF Begun
  <2> QED
    BY <1>1, <1>2, <2>1 DEF QueryStates, Fetches, IsBegun
<1>3. CASE q[x].err = FALSE \/ q[x].data = "none"
  <2>1. Begun(x, f, l) = [q[x] EXCEPT !.fetch = f, !.due = l, !.err = FALSE]
    BY <1>3, Zenon DEF Begun
  <2> QED
    BY <1>1, <1>3, <2>1 DEF QueryStates, Fetches, IsBegun
<1> QED
  BY <1>1, <1>2, <1>3

LEMMA BeginsIs ==
  ASSUME Typed, NEW x \in Queries, NEW n, NEW v \in Begins(x, n)
  PROVE  IsBegun(v, x)
<1>1. P.slowest \in Nat /\ Latency(x) \subseteq Lost..P.slowest
  BY PageShape, LatencyType DEF Typed, TypeOK
<1>2. CASE v = Begun(x, "paused", 0)
  BY <1>1, <1>2, BegunIs DEF Lost
<1>3. ASSUME NEW l \in Latency(x), v = Begun(x, "first", l) PROVE IsBegun(v, x)
  BY <1>1, <1>3, BegunIs
<1> QED
  BY <1>2, <1>3 DEF Begins

(* A query that is mounted is as it was or has begun.                      *)
LEMMA MountedIs ==
  ASSUME Typed, NEW x \in Queries, NEW n, NEW v \in MountedIn(x, n)
  PROVE  \/ v = q[x] /\ (q[x].fetch # "no" \/ q[x].data # "none")
         \/ q[x].fetch = "no" /\ IsBegun(v, x)
BY BeginsIs DEF MountedIn

(* What both have in common.                                               *)
QueryOK(v, x) ==
  /\ v \in QueryStates
  /\ v.due \in Lost..P.slowest
  /\ v.data \in (IF x = "config" THEN {"none", "wired", "unwired"} ELSE {"none"} \cup P.answers)

LEMMA TypedQueries ==
  ASSUME Typed, NEW x \in Queries PROVE QueryOK(q[x], x)
BY DEF Typed, TypeOK, QueryOK, Queries

LEMMA MountedInOK ==
  ASSUME Typed, NEW x \in Queries, NEW n, NEW v \in MountedIn(x, n)
  PROVE  QueryOK(v, x) /\ v.data = q[x].data
<1>1. QueryOK(q[x], x)
  BY TypedQueries
<1>2. CASE v = q[x]
  BY <1>1, <1>2
<1>3. CASE IsBegun(v, x)
  BY <1>1, <1>3 DEF QueryOK, IsBegun
<1> QED
  BY <1>2, <1>3, MountedIs

LEMMA MountedOK ==
  ASSUME Typed, NEW x \in Queries, NEW v \in Mounted(x)
  PROVE  QueryOK(v, x) /\ v.data = q[x].data
BY MountedInOK DEF Mounted

(* The type of the next state follows from those of its two queries.       *)
QueriesOK(r) == /\ r \in [Queries -> QueryStates]
                /\ QueryOK(r["config"], "config") /\ QueryOK(r["view"], "view")

LEMMA TypedQueriesOK == ASSUME Typed PROVE QueriesOK(q)
BY TypedQueries DEF QueriesOK, Typed, Queries

LEMMA NextTyped ==
  ASSUME Typed, UNCHANGED page, QueriesOK(q'), flag' \in BOOLEAN, open' \in BOOLEAN,
         visible' \in BOOLEAN, online' \in BOOLEAN, crashed' \in BOOLEAN, timer' \in 0..P.interval,
         shown' \in 0..(Limit + 1)
  PROVE  Typed'
<1>1. P' = P /\ Limit' = Limit
  BY DEF P, Limit
<1>2. \A x \in Queries : QueryOK(q'[x], x) /\ q'[x] \in QueryStates
  BY DEF Queries, QueriesOK
<1>3. ASSUME NEW x \in Queries
      PROVE  /\ q'[x].err \in BOOLEAN /\ q'[x].fetch \in Fetches
             /\ q'[x].due \in Lost..P.slowest /\ q'[x].stale \in BOOLEAN
  BY <1>2 DEF QueryStates, Fetches, QueryOK
<1>4. q'["config"].data \in {"none", "wired", "unwired"} /\ q'["view"].data \in {"none"} \cup P.answers
  BY DEF QueryOK, QueriesOK
<1>5. page' \in Pages /\ q' \in [Queries -> QueryStates]
  BY DEF Typed, TypeOK, QueriesOK
<1> QED
  BY <1>1, <1>3, <1>4, <1>5 DEF Typed, TypeOK, Fetches

LEMMA BothReplaced ==
  ASSUME Typed, NEW c, NEW v, QueryOK(c, "config"), QueryOK(v, "view"),
         q' = [q EXCEPT !["config"] = c, !["view"] = v]
  PROVE  QueriesOK(q') /\ q'["config"] = c /\ q'["view"] = v
BY DEF Typed, QueriesOK, QueryOK, Queries

LEMMA OneReplaced ==
  ASSUME Typed, NEW x \in Queries, NEW s, QueryOK(s, x), q' = [q EXCEPT ![x] = s]
  PROVE  /\ QueriesOK(q') /\ q'[x] = s
         /\ \A y \in Queries \ {x} : q'[y] = q[y]
<1>1. q'[x] = s /\ \A y \in Queries \ {x} : q'[y] = q[y]
  BY DEF Typed
<1>2. q' \in [Queries -> QueryStates]
  BY DEF Typed, QueryOK
<1>3. \A y \in Queries : QueryOK(q'[y], y)
  BY <1>1, TypedQueries
<1> QED
  BY <1>1, <1>2, <1>3 DEF QueriesOK, Queries

(* The age is bounded where it is counted anew, and where nothing that the *)
(* bound depends on has changed.                                           *)
LEMMA AgedAnew ==
  ASSUME Typed, UNCHANGED page, QueryOK(q'["view"], "view"), shown' = 0,
         timer' \in 0..P.interval
  PROVE  Aged'
<1>1. P' = P
  BY DEF P
<1>2. P.interval \in Nat /\ P.slowest \in Nat /\ q'["view"].due \in Lost..P.slowest
  BY PageShape DEF QueryOK, Typed, TypeOK
<1> QED
  BY <1>1, <1>2 DEF Aged

LEMMA AgedAsBefore ==
  ASSUME Aged, UNCHANGED <<page, shown, timer>>, q'["view"] = q["view"], Current' => Current
  PROVE  Aged'
<1>1. P' = P
  BY DEF P
<1> QED
  BY <1>1 DEF Aged

LEMMA TypedVariables ==
  ASSUME Typed
  PROVE  /\ flag \in BOOLEAN /\ open \in BOOLEAN /\ visible \in BOOLEAN /\ online \in BOOLEAN /\ crashed \in BOOLEAN
         /\ timer \in 0..P.interval /\ shown \in 0..(Limit + 1)
         /\ P.interval \in Nat \ {0} /\ P.slowest \in Nat /\ P.answers \subseteq Rows
         /\ Limit = P.interval + 2 * P.slowest
         /\ 0 \in 0..(Limit + 1) /\ P.interval \in 0..P.interval
BY PageShape DEF Typed, TypeOK, Limit

LEMMA RenderedType == ASSUME Rendered PROVE crashed' \in BOOLEAN
BY DEF Rendered

(* What every step keeps.                                                  *)
WiringKept == flag /\ Wired /\ ~crashed => Wired'
FetchedWired == q'["view"].fetch \in {"first", "paused"} /\ q["view"].fetch = "no" => Wired'
Kept == IInv' /\ WiringKept /\ FetchedWired

LEMMA InitSafe == Init => IInv
<1> SUFFICES ASSUME Init PROVE IInv
  OBVIOUS
<1>1. page \in Pages /\ P.interval \in Nat /\ P.slowest \in Nat
  BY PageShape DEF Init
<1>2. /\ Fresh("first") \in QueryStates /\ Fresh("no") \in QueryStates
      /\ Fresh("first").data = "none" /\ Fresh("no").data = "none"
      /\ Fresh("first").due = 0 /\ Fresh("no").due = 0
  BY FreshIsQuery DEF Fetches
<1>3. q["config"] = Fresh("first") /\ q["view"] = Fresh("no") /\ q \in [Queries -> QueryStates]
  BY <1>2 DEF Init, Opened, Queries
<1>4. \A x \in Queries :
        /\ q[x].err \in BOOLEAN /\ q[x].fetch \in Fetches
        /\ q[x].stale \in BOOLEAN
  BY <1>3 DEF QueryStates, Fetches
<1>5. \A x \in Queries : q[x].due \in Lost..P.slowest
  BY <1>1, <1>2, <1>3 DEF Queries, Lost
<1>6. Typed
  <2>1. timer \in 0..P.interval /\ shown \in 0..(Limit + 1)
    BY <1>1 DEF Init, Limit
  <2>2. /\ page \in Pages /\ flag \in BOOLEAN /\ open \in BOOLEAN
        /\ visible \in BOOLEAN /\ online \in BOOLEAN /\ crashed \in BOOLEAN
    BY DEF Init
  <2>3. q["config"].data = "none" /\ q["view"].data = "none"
    BY <1>2, <1>3
  <2> QED
    BY <2>1, <2>2, <2>3, <1>3, <1>4, <1>5, Zenon DEF Typed, TypeOK, Fetches
<1>7. ~Wired
  BY <1>2, <1>3 DEF Wired
<1> QED
  BY <1>6, <1>7 DEF IInv, Aged, Current

-----------------------------------------------------------------------------
(* One lemma per action.                                                   *)
LEMMA AnswerIs ==
  ASSUME NEW d \in {"wired", "unwired"} \cup Rows, NEW s, s = [Fresh("no") EXCEPT !.data = d]
  PROVE  s \in QueryStates /\ s.data = d /\ s.fetch = "no" /\ s.due = 0 /\ s.err = FALSE
<1>1. Fresh("no") \in QueryStates /\ Fresh("no").fetch = "no" /\ Fresh("no").due = 0
      /\ Fresh("no").err = FALSE
  BY FreshIsQuery DEF Fetches
<1> QED
  BY <1>1 DEF QueryStates, Rows

LEMMA ConfigSucceedsKeeps == ASSUME IInv, ConfigSucceeds PROVE Kept
<1> DEFINE c == [Fresh("no") EXCEPT !.data = IF flag THEN "wired" ELSE "unwired"]
<1>1. Typed /\ Aged
  BY DEF IInv
<1>2. PICK v \in Mounted("view") \cup {q["view"]} :
        /\ IF open /\ flag /\ ~Wired THEN Polling(v)
           ELSE v = q["view"] /\ UNCHANGED <<timer, shown>>
        /\ q' = [q EXCEPT !["config"] = c, !["view"] = v]
  BY DEF ConfigSucceeds
<1>3. QueryOK(v, "view")
  BY <1>1, MountedOK, TypedQueries DEF Queries
<1>4. /\ c \in QueryStates /\ c.due = 0 /\ c.data \in {"wired", "unwired"}
      /\ flag <=> c.data = "wired"
  <2> DEFINE d == IF flag THEN "wired" ELSE "unwired"
  <2>1. d \in {"wired", "unwired"} /\ (flag <=> d = "wired")
    OBVIOUS
  <2>2. c = [Fresh("no") EXCEPT !.data = d]
    OBVIOUS
  <2> HIDE DEF d, c
  <2> QED
    BY <2>1, <2>2, AnswerIs
<1>5. QueryOK(c, "config")
  BY <1>4, <1>1, TypedVariables DEF QueryOK, Lost
<1> HIDE DEF c
<1>6. QueriesOK(q') /\ q'["config"] = c /\ q'["view"] = v
  BY <1>1, <1>2, <1>3, <1>5, BothReplaced
<1>7. /\ UNCHANGED <<page, flag, open, visible, online>> /\ crashed' \in BOOLEAN
      /\ Wired' <=> flag
  BY <1>4, <1>6, RenderedType DEF ConfigSucceeds, Wired
<1>8. timer' \in 0..P.interval /\ shown' \in 0..(Limit + 1)
  BY <1>1, <1>2, TypedVariables DEF Polling
<1>9. Typed'
  BY <1>1, <1>6, <1>7, <1>8, TypedVariables, NextTyped
<1>10. Aged'
  <2>1. CASE open /\ flag /\ ~Wired
    BY <2>1, <1>1, <1>2, <1>3, <1>6, <1>7, <1>8, AgedAnew DEF Polling
  <2>2. CASE ~(open /\ flag /\ ~Wired)
    <3>1. q'["view"] = q["view"] /\ UNCHANGED <<timer, shown>>
      BY <2>2, <1>2, <1>6
    <3>2. Current' => Current
      BY <2>2, <3>1, <1>7 DEF Current
    <3> QED
      BY <3>1, <3>2, <1>1, <1>7, AgedAsBefore
  <2> QED
    BY <2>1, <2>2
<1>11. FetchedWired
  BY <1>2, <1>6, <1>7 DEF FetchedWired
<1> QED
  BY <1>7, <1>9, <1>10, <1>11 DEF Kept, IInv, WiringKept

LEMMA ViewSucceedsKeeps == ASSUME IInv, ViewSucceeds PROVE Kept
<1>1. Typed /\ Aged
  BY DEF IInv
<1>2. PICK d \in P.answers : q' = [q EXCEPT !["view"] = [Fresh("no") EXCEPT !.data = d]]
  BY DEF ViewSucceeds
<1> DEFINE s == [Fresh("no") EXCEPT !.data = d]
<1>3. s \in QueryStates /\ s.data = d /\ s.fetch = "no" /\ s.due = 0
  BY <1>1, TypedVariables, AnswerIs
<1>4. QueryOK(s, "view")
  BY <1>1, <1>3, TypedVariables DEF QueryOK, Lost
<1> HIDE DEF s
<1>5. QueriesOK(q') /\ q'["view"] = s /\ q'["config"] = q["config"]
  <2>1. q' = [q EXCEPT !["view"] = s]
    BY <1>2 DEF s
  <2> QED
    BY <1>1, <1>4, <2>1, OneReplaced DEF Queries
<1>6. /\ UNCHANGED <<page, flag, open, visible, online>> /\ crashed' \in BOOLEAN
      /\ timer' = P.interval /\ shown' = 0
  BY RenderedType DEF ViewSucceeds
<1>7. Typed' /\ Aged'
  BY <1>1, <1>5, <1>6, TypedVariables, NextTyped, AgedAnew DEF QueriesOK
<1>8. WiringKept /\ FetchedWired
  BY <1>3, <1>5 DEF WiringKept, FetchedWired, Wired
<1> QED
  BY <1>7, <1>8 DEF Kept, IInv

(* The wiring and what a step may fetch, for the steps that leave the      *)
(* config's data alone.                                                    *)
LEMMA SameConfigData ==
  ASSUME q'["config"].data = q["config"].data,
         q'["view"].fetch \in {"first", "paused"} /\ q["view"].fetch = "no" => Wired
  PROVE  WiringKept /\ FetchedWired
BY DEF WiringKept, FetchedWired, Wired

(* A query that gives up keeps its data and has an error; one that waits   *)
(* keeps both.                                                             *)
LEMMA FailedIs ==
  ASSUME Typed, NEW x \in Queries, NEW s,
         \/ s = [q[x] EXCEPT !.fetch = "wait"]
         \/ s = [q[x] EXCEPT !.fetch = "no", !.err = TRUE]
  PROVE  /\ QueryOK(s, x) /\ s.data = q[x].data
         /\ \/ s.fetch = "wait" /\ s.err = q[x].err
            \/ s.fetch = "no" /\ s.err = TRUE
<1>1. QueryOK(q[x], x)
  BY TypedQueries
<1> QED
  BY <1>1 DEF QueryOK, QueryStates, Fetches

LEMMA FailsKeeps == ASSUME IInv, NEW x \in Queries, Fails(x) PROVE Kept
<1>1. Typed /\ Aged
  BY DEF IInv
<1> DEFINE s == IF q[x].fetch = "first" /\ Observed(x) THEN [q[x] EXCEPT !.fetch = "wait"]
                ELSE [q[x] EXCEPT !.fetch = "no", !.err = TRUE]
<1>2. /\ QueryOK(s, x) /\ s.data = q[x].data
      /\ \/ s.fetch = "wait" /\ s.err = q[x].err
         \/ s.fetch = "no" /\ s.err = TRUE
  BY <1>1, FailedIs
<1>3. q[x].fetch = "second" => s.fetch # "wait"
  <2> SUFFICES ASSUME q[x].fetch = "second" PROVE s.fetch # "wait"
    OBVIOUS
  <2>1. s = [q[x] EXCEPT !.fetch = "no", !.err = TRUE]
    OBVIOUS
  <2> QED
    BY <2>1, <1>1 DEF Typed, QueryStates, Fetches
<1>4. q' = [q EXCEPT ![x] = s]
  BY <1>1 DEF Fails, Typed
<1> HIDE DEF s
<1>5. QueriesOK(q') /\ q'[x] = s /\ \A y \in Queries \ {x} : q'[y] = q[y]
  BY <1>1, <1>2, <1>4, OneReplaced
<1>6. /\ UNCHANGED <<page, flag, open, visible, online, shown, crashed>>
      /\ timer' \in 0..P.interval /\ (x # "view" => timer' = timer)
      /\ q[x].fetch \in {"first", "second"}
  BY <1>1, TypedVariables DEF Fails, Ends, Fetching
<1>7. Typed'
  BY <1>1, <1>5, <1>6, TypedVariables, NextTyped
<1>8. q'["config"].data = q["config"].data
  BY <1>2, <1>5 DEF Queries
<1>9. Aged'
  <2>1. CASE x = "config"
    <3>1. q'["view"] = q["view"]
      BY <2>1, <1>5 DEF Queries
    <3>2. Current' => Current
      BY <3>1, <1>6, <1>8 DEF Current, Wired
    <3> QED
      BY <2>1, <3>1, <3>2, <1>1, <1>6, AgedAsBefore
  <2>2. CASE x = "view"
    <3>1. P' = P
      BY <1>6 DEF P
    <3> SUFFICES ASSUME Current' PROVE s.fetch = "wait" /\ shown' <= P.interval + P.slowest
      BY <2>2, <3>1, <1>5 DEF Aged
    <3>2. s.fetch = "wait" /\ s.err = q["view"].err /\ s.data = q["view"].data
      BY <2>2, <1>2, <1>5 DEF Current
    <3>3. Current /\ q["view"].fetch = "first"
      BY <2>2, <3>2, <1>3, <1>5, <1>6, <1>8 DEF Current, Wired
    <3> QED
      BY <2>2, <3>2, <3>3, <1>1, <1>6, TypedVariables DEF Aged
  <2> QED
    BY <2>1, <2>2 DEF Queries
<1>10. WiringKept /\ FetchedWired
  <2>1. q'["view"].fetch \in {"first", "paused"} /\ q["view"].fetch = "no" => Wired
    BY <1>2, <1>5, <1>6 DEF Queries
  <2> QED
    BY <2>1, <1>8, SameConfigData
<1> QED
  BY <1>7, <1>9, <1>10 DEF Kept, IInv

LEMMA RetriesKeeps == ASSUME IInv, NEW x \in Queries, Retries(x) PROVE Kept
<1>1. Typed /\ Aged
  BY DEF IInv
<1>2. PICK s : /\ q' = [q EXCEPT ![x] = s]
               /\ QueryOK(s, x) /\ s.data = q[x].data
               /\ \/ /\ s.err = q[x].err /\ s.due \in Lost..P.slowest
                     /\ s.fetch = Try(x)
                  \/ s.fetch = "no" /\ s.err = TRUE
  <2>1. CASE Observed(x) \/ q[x].fetch = "paused"
    <3>1. PICK l \in Latency(x) : q' = [q EXCEPT ![x] = [@ EXCEPT !.fetch = Try(x), !.due = l]]
      BY <2>1 DEF Retries
    <3> DEFINE s == [q[x] EXCEPT !.fetch = Try(x), !.due = l]
    <3>2. q' = [q EXCEPT ![x] = s]
      BY <3>1, <1>1 DEF Typed
    <3>3. s = [q[x] EXCEPT !.fetch = Try(x), !.due = l] /\ Try(x) \in {"first", "second"}
      BY DEF Try
    <3> HIDE DEF s
    <3>4. /\ QueryOK(s, x) /\ s.data = q[x].data /\ s.err = q[x].err
          /\ s.fetch = Try(x) /\ s.due \in Lost..P.slowest
      <4>1. QueryOK(q[x], x) /\ l \in Lost..P.slowest /\ P.slowest \in Nat
        BY <1>1, TypedQueries, LatencyType, TypedVariables DEF Typed, TypeOK
      <4>2. l \in Int
        BY <4>1 DEF Lost
      <4> QED
        BY <3>3, <4>1, <4>2 DEF QueryOK, QueryStates, Fetches
    <3> QED
      BY <3>2, <3>4, Zenon
  <2>2. CASE ~(Observed(x) \/ q[x].fetch = "paused")
    <3> DEFINE s == [q[x] EXCEPT !.fetch = "no", !.err = TRUE]
    <3>1. q' = [q EXCEPT ![x] = s]
      BY <2>2, <1>1 DEF Retries, Typed
    <3>2. QueryOK(s, x) /\ s.data = q[x].data /\ s.fetch = "no" /\ s.err = TRUE
      <4>1. QueryOK(q[x], x)
        BY <1>1, TypedQueries
      <4> QED
        BY <4>1 DEF QueryOK, QueryStates, Fetches
    <3> QED
      BY <3>1, <3>2
  <2> QED
    BY <2>1, <2>2
<1>3. QueriesOK(q') /\ q'[x] = s /\ \A y \in Queries \ {x} : q'[y] = q[y]
  BY <1>1, <1>2, OneReplaced
<1>4. UNCHANGED <<page, flag, timer, open, visible, online, shown, crashed>>
      /\ q[x].fetch \in {"wait", "paused"}
  BY DEF Retries, MayGoOn
<1>5. Typed'
  BY <1>1, <1>3, <1>4, TypedVariables, NextTyped
<1>6. q'["config"].data = q["config"].data
  BY <1>2, <1>3 DEF Queries
<1>7. Aged'
  <2>1. CASE x = "config"
    <3>1. q'["view"] = q["view"]
      BY <2>1, <1>3 DEF Queries
    <3>2. Current' => Current
      BY <3>1, <1>4, <1>6 DEF Current, Wired
    <3> QED
      BY <3>1, <3>2, <1>1, <1>4, AgedAsBefore
  <2>2. CASE x = "view"
    <3>1. P' = P
      BY <1>4 DEF P
    <3> SUFFICES ASSUME Current'
                 PROVE  /\ s.fetch = Try(x)
                        /\ shown' <= P.interval + P.slowest
                        /\ Try(x) = "first" => /\ shown' <= P.interval
                        /\ s.due \in Lost..P.slowest
      <4>1. P.interval \in Nat /\ P.slowest \in Nat /\ shown' \in Int
        BY <1>1, <1>4, TypedVariables
      <4> QED
        BY <2>2, <3>1, <1>3, <4>1 DEF Aged, Try, Lost
    <3>2. s.fetch = Try(x) /\ s.due \in Lost..P.slowest /\ Current
      BY <2>2, <1>2, <1>3, <1>4, <1>6 DEF Current, Wired
    <3> QED
      BY <2>2, <3>2, <1>1, <1>4, TypedVariables DEF Aged, Try
  <2> QED
    BY <2>1, <2>2 DEF Queries
<1>8. WiringKept /\ FetchedWired
  <2>1. q'["view"].fetch \in {"first", "paused"} /\ q["view"].fetch = "no" => Wired
    BY <1>2, <1>3, <1>4 DEF Queries
  <2> QED
    BY <2>1, <1>6, SameConfigData
<1> QED
  BY <1>5, <1>7, <1>8 DEF Kept, IInv

LEMMA PollKeeps == ASSUME IInv, Poll PROVE Kept
<1>1. Typed /\ Aged
  BY DEF IInv
<1>2. /\ UNCHANGED <<page, flag, open, visible, online, shown, crashed>> /\ Wired
      /\ timer = 0 /\ timer' = P.interval /\ timer' \in 0..P.interval
  BY <1>1, TypedVariables DEF Poll
<1>3. CASE q["view"].fetch = "no" /\ visible
  <2>1. PICK s \in Begins("view", online) : q' = [q EXCEPT !["view"] = s]
    BY <1>3 DEF Poll
  <2>2. /\ s \in QueryStates /\ s.data = q["view"].data /\ s.fetch \in {"first", "paused"}
        /\ s.due \in Lost..P.slowest
        /\ q["view"].data # "none" => s.err = q["view"].err
    BY <1>1, BeginsIs DEF Queries, IsBegun
  <2>3. QueryOK(s, "view")
    BY <1>1, <2>2, TypedQueries DEF QueryOK, Queries
  <2>4. QueriesOK(q') /\ q'["view"] = s /\ q'["config"] = q["config"]
    BY <1>1, <2>1, <2>3, OneReplaced DEF Queries
  <2>5. Typed'
    BY <1>1, <1>2, <2>4, TypedVariables, NextTyped
  <2>6. Aged'
    <3>1. P' = P
      BY <1>2 DEF P
    <3>2. s.due \in Int /\ s.due <= P.slowest /\ P.interval \in Nat /\ P.slowest \in Nat
          /\ shown \in Int
      BY <1>1, <2>2, TypedVariables DEF Lost
    <3> SUFFICES ASSUME Current' PROVE shown' <= P.interval
      BY <1>2, <2>2, <2>4, <3>1, <3>2 DEF Aged
    <3>3. Current
      BY <1>2, <2>2, <2>4 DEF Current
    <3> QED
      BY <1>1, <1>2, <1>3, <2>2, <3>3, TypedVariables DEF Aged
  <2> QED
    BY <1>2, <2>4, <2>5, <2>6, SameConfigData DEF Kept, IInv
<1>4. CASE UNCHANGED q /\ ~(q["view"].fetch = "no" /\ visible)
  <2>1. Typed'
    BY <1>1, <1>2, <1>4, TypedQueriesOK, TypedVariables, NextTyped
  <2>2. Aged'
    <3>1. P' = P
      BY <1>2 DEF P
    <3>2. Current' => Current /\ q["view"].fetch # "no"
      BY <1>2, <1>4 DEF Current, Wired
    <3> QED
      BY <1>1, <1>2, <1>4, <3>1, <3>2 DEF Aged
  <2> QED
    BY <1>2, <1>4, <2>1, <2>2, SameConfigData DEF Kept, IInv
<1> QED
  BY <1>3, <1>4 DEF Poll

LEMMA LeaveKeeps == ASSUME IInv, Leave PROVE Kept
<1>1. Typed /\ Aged
  BY DEF IInv
<1>2. PICK c \in Mounted("config") : q' = [q EXCEPT !["config"] = c]
  BY DEF Leave
<1>3. QueryOK(c, "config") /\ c.data = q["config"].data
  BY <1>1, MountedOK DEF Queries
<1>4. QueriesOK(q') /\ q'["config"] = c /\ q'["view"] = q["view"]
  BY <1>1, <1>2, <1>3, OneReplaced DEF Queries
<1>5. UNCHANGED <<page, flag, timer, visible, online, shown, crashed>> /\ open' = FALSE
  BY DEF Leave
<1>6. Typed'
  BY <1>1, <1>4, <1>5, TypedVariables, NextTyped
<1>7. Aged'
  BY <1>5 DEF Aged, Current
<1> QED
  BY <1>3, <1>4, <1>6, <1>7, SameConfigData DEF Kept, IInv

LEMMA ReturnKeeps == ASSUME IInv, Return PROVE Kept
<1>1. Typed /\ Aged
  BY DEF IInv
<1>2. PICK c \in Mounted("config"), v \in Mounted("view") \cup {q["view"]} :
        /\ IF Wired THEN Polling(v) ELSE v = q["view"] /\ UNCHANGED <<timer, shown>>
        /\ q' = [q EXCEPT !["config"] = c, !["view"] = v]
  BY DEF Return
<1>3. /\ QueryOK(c, "config") /\ c.data = q["config"].data
      /\ QueryOK(v, "view")
  BY <1>1, MountedOK, TypedQueries DEF Queries
<1>4. QueriesOK(q') /\ q'["config"] = c /\ q'["view"] = v
  BY <1>1, <1>2, <1>3, BothReplaced
<1>5. UNCHANGED <<page, flag, visible, online>> /\ open' = TRUE /\ crashed' \in BOOLEAN
  BY RenderedType DEF Return
<1>6. timer' \in 0..P.interval /\ shown' \in 0..(Limit + 1)
  BY <1>1, <1>2, TypedVariables DEF Polling
<1>7. Typed'
  BY <1>1, <1>4, <1>5, <1>6, TypedVariables, NextTyped
<1>8. Aged'
  <2>1. CASE Wired
    BY <2>1, <1>1, <1>2, <1>3, <1>4, <1>5, <1>6, AgedAnew DEF Polling
  <2>2. CASE ~Wired
    BY <2>2, <1>3, <1>4 DEF Aged, Current, Wired
  <2> QED
    BY <2>1, <2>2
<1>9. q'["view"].fetch \in {"first", "paused"} /\ q["view"].fetch = "no" => Wired
  BY <1>2, <1>4
<1> QED
  BY <1>3, <1>4, <1>7, <1>8, <1>9, SameConfigData DEF Kept, IInv

LEMMA ReloadKeeps == ASSUME IInv, Reload PROVE Kept
<1>1. Typed /\ Aged
  BY DEF IInv
<1>2. /\ q' = Opened /\ crashed /\ crashed' = FALSE
      /\ UNCHANGED <<page, flag, open, visible, shown>>
      /\ timer' = P.interval /\ online' = TRUE
  BY DEF Reload
<1>3. /\ Fresh("first") \in QueryStates /\ Fresh("no") \in QueryStates
      /\ Fresh("first").data = "none" /\ Fresh("no").data = "none" /\ Fresh("no").fetch = "no"
      /\ Fresh("first").due = 0 /\ Fresh("no").due = 0
  BY FreshIsQuery DEF Fetches
<1>4. /\ q'["config"] = Fresh("first") /\ q'["view"] = Fresh("no")
      /\ q' \in [Queries -> QueryStates]
  BY <1>2, <1>3 DEF Opened, Queries
<1>5. QueriesOK(q')
  BY <1>1, <1>3, <1>4, TypedVariables DEF QueriesOK, QueryOK, Lost
<1>6. Typed'
  BY <1>1, <1>2, <1>5, TypedVariables, NextTyped
<1> QED
  BY <1>2, <1>3, <1>4, <1>6
  DEF Kept, IInv, Aged, Current, Wired, WiringKept, FetchedWired

LEMMA EnvironmentKeeps == ASSUME IInv, Hide \/ Show \/ RestartServer PROVE Kept
<1>1. Typed /\ Aged
  BY DEF IInv
<1>2. UNCHANGED <<page, q, timer, open, online, crashed>>
  BY DEF Hide, Show, RestartServer
<1>3. /\ flag' \in BOOLEAN /\ visible' \in BOOLEAN /\ shown' \in 0..(Limit + 1)
  BY <1>1, TypedVariables DEF Hide, Show, RestartServer
<1>4. QueriesOK(q')
  BY <1>1, <1>2, TypedQueriesOK
<1>5. Typed'
  BY <1>1, <1>2, <1>3, <1>4, TypedVariables, NextTyped
<1>6. Aged'
  <2>1. CASE Hide
    BY <2>1 DEF Hide, Aged, Current
  <2>2. CASE Show
    BY <2>2, <1>1, <1>2, <1>4, TypedVariables, AgedAnew DEF Show, QueriesOK
  <2>3. CASE RestartServer
    BY <2>3, <1>1, <1>2, AgedAsBefore DEF RestartServer, Current, Wired
  <2> QED
    BY <2>1, <2>2, <2>3
<1> QED
  BY <1>2, <1>5, <1>6, SameConfigData DEF Kept, IInv

(* A query while the browser goes offline: only that a fetch under way is   *)
(* lost.                                                                   *)
LEMMA GoOfflineKeeps == ASSUME IInv, GoOffline PROVE Kept
<1>1. Typed /\ Aged
  BY DEF IInv
<1>2. UNCHANGED <<page, flag, timer, open, visible, shown, crashed>> /\ online' = FALSE
  BY DEF GoOffline
<1>3. ASSUME NEW x \in Queries
      PROVE  /\ QueryOK(q'[x], x) /\ q'[x].data = q[x].data /\ q'[x].err = q[x].err
             /\ q'[x].fetch = q[x].fetch
             /\ q'[x] = q[x] \/ q'[x].due = Lost
  <2>1. QueryOK(q[x], x) /\ P.slowest \in Nat
    BY <1>1, TypedQueries, TypedVariables
  <2>2. q'[x] = q[x] \/ q'[x] = [q[x] EXCEPT !.due = Lost]
    BY DEF GoOffline
  <2> QED
    BY <2>1, <2>2 DEF QueryOK, QueryStates, Fetches, Lost
<1>4. QueriesOK(q')
  <2>1. DOMAIN q' = Queries /\ q' = [x \in Queries |-> q'[x]]
    BY DEF GoOffline
  <2>2. q' \in [Queries -> QueryStates]
    BY <2>1, <1>3 DEF QueryOK
  <2> QED
    BY <2>2, <1>3 DEF QueriesOK, Queries
<1>5. Typed'
  BY <1>1, <1>2, <1>4, TypedVariables, NextTyped
<1>6. Aged'
  <2>1. P' = P
    BY <1>2 DEF P
  <2> SUFFICES ASSUME Current' PROVE Aged'
    BY DEF Aged
  <2>2. Current
    BY <1>2, <1>3 DEF Current, Wired, Queries
  <2>3. shown \in Int /\ P.interval \in Nat /\ P.slowest \in Nat /\ UNCHANGED <<shown, timer>>
    BY <1>1, <1>2, TypedVariables
  <2>4. CASE q'["view"] = q["view"]
    BY <1>1, <2>1, <2>2, <2>3, <2>4 DEF Aged
  <2>5. CASE q'["view"].due = Lost
    BY <1>1, <1>3, <2>1, <2>2, <2>3, <2>5 DEF Aged, Queries, Lost
  <2> QED
    BY <1>3, <2>4, <2>5 DEF Queries
<1>7. WiringKept /\ FetchedWired
  BY <1>3, SameConfigData DEF Queries
<1> QED
  BY <1>5, <1>6, <1>7 DEF Kept, IInv

LEMMA GoOnlineKeeps == ASSUME IInv, GoOnline PROVE Kept
<1>1. Typed /\ Aged
  BY DEF IInv
<1>2. PICK c \in MountedIn("config", TRUE), v \in MountedIn("view", TRUE) \cup {q["view"]} :
        /\ open /\ Wired => v \in MountedIn("view", TRUE)
        /\ ~(open /\ Wired) => v = q["view"]
        /\ q' = [q EXCEPT !["config"] = c, !["view"] = v]
  BY DEF GoOnline
<1>3. /\ QueryOK(c, "config") /\ c.data = q["config"].data
      /\ QueryOK(v, "view") /\ v.data = q["view"].data
  BY <1>1, MountedInOK, TypedQueries DEF Queries
<1>4. QueriesOK(q') /\ q'["config"] = c /\ q'["view"] = v
  BY <1>1, <1>2, <1>3, BothReplaced
<1>5. UNCHANGED <<page, flag, timer, open, visible, shown, crashed>> /\ online' = TRUE
  BY DEF GoOnline
<1>6. Typed'
  BY <1>1, <1>4, <1>5, TypedVariables, NextTyped
<1>7. v = q["view"] \/ (q["view"].fetch = "no" /\ IsBegun(v, "view"))
  BY <1>1, <1>2, MountedIs DEF Queries
<1>8. Aged'
  <2>1. CASE v = q["view"]
    BY <2>1, <1>1, <1>3, <1>4, <1>5, AgedAsBefore DEF Current, Wired
  <2>2. CASE q["view"].fetch = "no" /\ IsBegun(v, "view")
    <3>1. P' = P
      BY <1>5 DEF P
    <3>2. v.due \in Int /\ v.due <= P.slowest /\ P.interval \in Nat /\ P.slowest \in Nat
          /\ shown \in Int /\ timer \in Nat
      BY <1>1, <2>2, TypedVariables DEF Lost, IsBegun
    <3> SUFFICES ASSUME Current' PROVE shown' <= P.interval
      BY <1>4, <1>5, <2>2, <3>1, <3>2 DEF Aged, IsBegun
    <3>3. Current
      BY <1>3, <1>4, <1>5, <2>2 DEF Current, Wired, IsBegun
    <3> QED
      BY <1>1, <1>5, <2>2, <3>2, <3>3 DEF Aged
  <2> QED
    BY <1>7, <2>1, <2>2
<1>9. q'["view"].fetch \in {"first", "paused"} /\ q["view"].fetch = "no" => Wired
  BY <1>2, <1>4
<1> QED
  BY <1>3, <1>4, <1>6, <1>8, <1>9, SameConfigData DEF Kept, IInv

(* A query after a tick: only what is left of its latency and its being    *)
(* stale change.                                                           *)
LEMMA TickedIs ==
  ASSUME Typed, Tick, NEW x \in Queries
  PROVE  /\ QueryOK(q'[x], x) /\ q'[x].data = q[x].data /\ q'[x].err = q[x].err
         /\ q'[x].fetch = q[x].fetch
         /\ Fetching(x) /\ ~Hangs(x) => q[x].due > 0 /\ q'[x].due = q[x].due - 1
         /\ Hangs(x) => q'[x].due = Lost
<1> DEFINE st == q[x].stale \/ q[x].data # "none"
           d  == IF Fetching(x) /\ ~Hangs(x) THEN q[x].due - 1 ELSE q[x].due
<1>1. q'[x] = [q[x] EXCEPT !.due = d, !.stale = st]
  BY DEF Tick
<1>2. QueryOK(q[x], x) /\ (Fetching(x) /\ ~Hangs(x) => q[x].due > 0) /\ P.slowest \in Nat
  <2>1. QueryOK(q[x], x) /\ P.slowest \in Nat
    BY TypedQueries, TypedVariables
  <2>2. Fetching(x) => q[x].due # 0
    BY DEF Tick
  <2> QED
    BY <2>1, <2>2 DEF QueryOK, Hangs, Lost
<1>3. d \in Lost..P.slowest /\ d \in Int
  BY <1>2 DEF QueryOK, Lost
<1>4. CASE st
  <2>1. q'[x] = [q[x] EXCEPT !.due = d, !.stale = TRUE]
    BY <1>1, <1>2, <1>4, Zenon DEF QueryOK, QueryStates, Fetches
  <2> HIDE DEF d, st
  <2>2. /\ QueryOK(q'[x], x) /\ q'[x].data = q[x].data /\ q'[x].err = q[x].err
        /\ q'[x].fetch = q[x].fetch /\ q'[x].due = d
    BY <1>2, <1>3, <2>1 DEF QueryOK, QueryStates, Fetches
  <2> QED
    BY <1>2, <2>2 DEF d, Hangs
<1>5. CASE ~st
  <2>1. q'[x] = [q[x] EXCEPT !.due = d, !.stale = FALSE]
    BY <1>1, <1>2, <1>5, Zenon DEF QueryOK, QueryStates, Fetches
  <2> HIDE DEF d, st
  <2>2. /\ QueryOK(q'[x], x) /\ q'[x].data = q[x].data /\ q'[x].err = q[x].err
        /\ q'[x].fetch = q[x].fetch /\ q'[x].due = d
    BY <1>2, <1>3, <2>1 DEF QueryOK, QueryStates, Fetches
  <2> QED
    BY <1>2, <2>2 DEF d, Hangs
<1> QED
  BY <1>4, <1>5

LEMMA TickKeeps == ASSUME IInv, Tick PROVE Kept
<1>1. Typed /\ Aged
  BY DEF IInv
<1>2. UNCHANGED <<page, flag, open, visible, online, crashed>>
  BY DEF Tick
<1>3. \A x \in Queries : QueryOK(q'[x], x) /\ q'[x].data = q[x].data
  BY <1>1, TickedIs
<1>4. QueriesOK(q')
  <2>1. q' \in [Queries -> QueryStates]
    <3>1. DOMAIN q' = Queries /\ q' = [x \in Queries |-> q'[x]]
      BY DEF Tick
    <3> QED
      BY <3>1, <1>3 DEF QueryOK
  <2> QED
    BY <2>1, <1>3 DEF QueriesOK, Queries
<1>5. timer' \in 0..P.interval /\ shown' \in 0..(Limit + 1)
  <2>1. timer' \in 0..P.interval
    <3>1. timer' = timer \/ (timer > 0 /\ timer' = timer - 1)
      BY DEF Tick
    <3>2. timer \in 0..P.interval /\ P.interval \in Nat
      BY <1>1, TypedVariables
    <3> QED
      BY <3>1, <3>2
  <2>2. shown' = shown \/ (shown <= Limit /\ shown' = shown + 1)
    BY DEF Tick
  <2>3. Limit \in Nat
    BY <1>1, TypedVariables
  <2> QED
    BY <1>1, <2>1, <2>2, <2>3, TypedVariables
<1>6. Typed'
  BY <1>1, <1>2, <1>4, <1>5, TypedVariables, NextTyped
<1>7. q'["config"].data = q["config"].data /\ q'["view"].fetch = q["view"].fetch
  BY <1>1, TickedIs DEF Queries
<1>8. Aged'
  <2>1. P' = P
    BY <1>2 DEF P
  <2> SUFFICES ASSUME Current' PROVE Aged'
    BY DEF Aged
  <2>2. Current /\ Wired /\ open /\ visible
    BY <1>1, <1>2, <1>7, TickedIs DEF Current, Wired, Queries
  <2>3. /\ timer > 0 /\ timer' = timer - 1
        /\ online => q["view"].fetch \notin {"wait", "paused"}
        /\ shown' = IF online /\ ~Hangs("view") /\ shown <= Limit THEN shown + 1 ELSE shown
    BY <2>2, <1>1, TypedVariables DEF Tick, Queries, MayGoOn
  <2>3a. shown' <= shown + 1 /\ (~online \/ Hangs("view") => shown' = shown)
    BY <2>3, <1>1, TypedVariables
  <2>4. /\ Fetching("view") /\ ~Hangs("view") => q["view"].due > 0 /\ q'["view"].due = q["view"].due - 1
        /\ Hangs("view") => q'["view"].due = q["view"].due
    BY <1>1, TickedIs DEF Hangs, Queries
  <2>5. q["view"].due \in Int /\ timer \in Int /\ shown \in Int /\ shown' \in Int
    BY <1>1, <1>5, TypedVariables DEF Typed, TypeOK, Queries, Lost
  <2>6. q["view"].fetch \in Fetches /\ q'["view"].fetch = q["view"].fetch /\ Aged /\ Current
    BY <1>1, <1>7, <2>2 DEF Typed, TypeOK, Queries, Fetches
  <2>7. CASE q["view"].fetch = "no"
    BY <2>1, <2>3, <2>3a, <2>5, <2>6, <2>7, <1>1, TypedVariables DEF Aged
  <2>8. CASE q["view"].fetch \in {"wait", "paused"}
    BY <2>1, <2>3, <2>3a, <2>5, <2>6, <2>8, <1>1, TypedVariables DEF Aged
  <2>9. CASE q["view"].fetch \in {"first", "second"} /\ Hangs("view")
    BY <2>1, <2>3a, <2>4, <2>5, <2>6, <2>9, <1>1, TypedVariables DEF Aged
  <2>10. CASE q["view"].fetch \in {"first", "second"} /\ ~Hangs("view")
    BY <2>1, <2>3a, <2>4, <2>5, <2>6, <2>10, <1>1, TypedVariables DEF Aged, Fetching
  <2> QED
    BY <2>6, <2>7, <2>8, <2>9, <2>10 DEF Fetches
<1>9. WiringKept /\ FetchedWired
  BY <1>7, SameConfigData
<1> QED
  BY <1>6, <1>8, <1>9 DEF Kept, IInv

-----------------------------------------------------------------------------
LEMMA StepKeeps == ASSUME IInv, [Next]_vars PROVE Kept
<1>1. CASE ConfigSucceeds
  BY <1>1, ConfigSucceedsKeeps
<1>2. CASE ViewSucceeds
  BY <1>2, ViewSucceedsKeeps
<1>3. CASE \E x \in Queries : Fails(x)
  BY <1>3, FailsKeeps
<1>4. CASE \E x \in Queries : Retries(x)
  BY <1>4, RetriesKeeps
<1>5. CASE Poll
  BY <1>5, PollKeeps
<1>6. CASE Tick
  BY <1>6, TickKeeps
<1>7. CASE Leave
  BY <1>7, LeaveKeeps
<1>8. CASE Return
  BY <1>8, ReturnKeeps
<1>9. CASE Reload
  BY <1>9, ReloadKeeps
<1>10. CASE Hide \/ Show \/ RestartServer
  BY <1>10, EnvironmentKeeps
<1>12. CASE GoOffline
  BY <1>12, GoOfflineKeeps
<1>13. CASE GoOnline
  BY <1>13, GoOnlineKeeps
<1>11. CASE UNCHANGED vars
  <2>1. IInv'
    BY <1>11 DEF vars, IInv, Typed, TypeOK, Aged, Current, Wired, P, Limit
  <2>2. WiringKept /\ FetchedWired
    BY <1>11, SameConfigData DEF vars
  <2> QED
    BY <2>1, <2>2 DEF Kept
<1> QED
  BY <1>1, <1>2, <1>3, <1>4, <1>5, <1>6, <1>7, <1>8, <1>9, <1>10, <1>11, <1>12, <1>13
  DEF Next, Answers

LEMMA Invariance == Spec => []IInv
<1>1. IInv /\ [Next]_vars => IInv'
  BY StepKeeps DEF Kept
<1> QED
  BY InitSafe, <1>1, PTL DEF Spec

(* Every variable holds a value of its kind on every page.                 *)
THEOREM PageTypeCorrect == Spec => []TypeOK
<1>1. IInv => TypeOK
  BY DEF IInv, Typed
<1> QED
  BY <1>1, Invariance, PTL

(* Data shown without an error is never older than one interval, a failed  *)
(* try and its retry (refetchInterval and the one retry of main.tsx), not  *)
(* counting the time in which the browser was offline or the fetch of the  *)
(* view hung in the network.                                               *)
THEOREM AgeIsBounded == Spec => []DataAgeIsBounded
<1>1. IInv => DataAgeIsBounded
  <2> SUFFICES ASSUME IInv, visible, ShowsData PROVE shown <= Limit
    BY DEF DataAgeIsBounded
  <2>1. Current
    BY DEF Current, ShowsData
  <2>2. /\ q["view"].fetch \in {"no", "paused", "first", "wait", "second"}
        /\ q["view"].due \in Lost..P.slowest
    BY DEF IInv, Typed, TypeOK, Queries
  <2> QED
    BY <2>1, <2>2, TypedVariables DEF IInv, Aged
<1> QED
  BY <1>1, Invariance, PTL

(* A page that knows that its source is wired forgets it only if the       *)
(* server says so (useConfig).                                             *)
THEOREM WiringKeptUntilTold == Spec => WiringIsNotForgotten
<1>1. IInv /\ [Next]_vars => [flag /\ Wired /\ ~crashed => Wired']_vars
  BY StepKeeps DEF Kept, WiringKept
<1> QED
  BY <1>1, Invariance, PTL DEF Spec, WiringIsNotForgotten

(* A view is not fetched before the config said that its source is wired   *)
(* (enabled: on every page).                                               *)
THEOREM NoEarlyFetch == Spec => NoFetchBeforeWired
<1>1. IInv /\ [Next]_vars
        => [q'["view"].fetch \in {"first", "paused"} /\ q["view"].fetch = "no" => Wired']_vars
  BY StepKeeps DEF Kept, FetchedWired
<1> QED
  BY <1>1, Invariance, PTL DEF Spec, NoFetchBeforeWired
=============================================================================
