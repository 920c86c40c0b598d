----------------------------- MODULE QueryPage -----------------------------
(***************************************************************************)
(* One page of the browser application (ui/src/pages), from the moment it  *)
(* is opened.  Every page is built alike: useConfig says whether its       *)
(* source is wired, and only then a second query fetches the view and      *)
(* polls it; the notice, the error box, the loading text or the data are   *)
(* rendered from the states of the two queries.                            *)
(*                                                                         *)
(* The queries are react-query's, with the defaults of main.tsx: one       *)
(* retry, no refetch when the window gets the focus, data stale after      *)
(* 10 s.  From its semantics: a query without data forgets its error when  *)
(* it is fetched again and one with data keeps both; a fetch under way is  *)
(* never doubled; in a hidden tab neither polls nor retries are made;      *)
(* while the browser is offline a fetch is put off, without an error, and  *)
(* when it is online again what is stale is fetched.  Nothing ends a fetch *)
(* that hangs in the network but the network: getJSON sets no timeout.     *)
(*                                                                         *)
(* Time is counted in ticks of 10 s, polling intervals are rounded up.     *)
(*                                                                         *)
(* A definition named Mut... is a mistake one could make in the definition *)
(* after it; replacing the definition by it makes a property fail.         *)
(***************************************************************************)
EXTENDS Integers

CONSTANTS
  Pages,     \* the pages opened
  Restarts   \* whether the server may be restarted with other flags

(* The pages: how often the view is polled, how long its handler may take, *)
(* what the answer may hold, whether rendering it throws, and whether the  *)
(* page looks into it before it knows if it will show it.                  *)
Page(interval, slowest) ==
  [interval |-> interval, slowest |-> slowest,
   answers |-> {"rows"}, throws |-> {}, peeks |-> FALSE]
WithFailedRows(page) == [page EXCEPT !.answers = {"rows", "failedRow"}]

FleetOverview == Page(1, 1)
ShardsList    == Page(2, 1)
ShardDetail   == Page(1, 1)
ClusterDetail == Page(2, 3)
FinOps        == Page(2, 1)
Topology      == Page(2, 1)
ClustersList  == WithFailedRows(Page(2, 6))

(* The row of a failed cluster has a nil slice, which is null in JSON, and *)
(* c.items.length is evaluated for every row.                              *)
AvailableCapacity ==
  [WithFailedRows(Page(3, 6)) EXCEPT !.throws = {"failedRow"}, !.peeks = TRUE]

(* A summary without machines has no entries in its maps, which are null   *)
(* in JSON; every card that is shown takes the entries of both.            *)
ShardReports ==
  [Page(2, 1) EXCEPT !.answers = {"rows", "noMachines"}, !.throws = {"noMachines"}]

Table ==
  [fleet |-> FleetOverview, shards |-> ShardsList, shard |-> ShardDetail,
   cluster |-> ClusterDetail, finops |-> FinOps, topology |-> Topology,
   shardReports |-> ShardReports, clusters |-> ClustersList,
   availableCapacity |-> AvailableCapacity]

ASSUME PageAssumption == Pages \subseteq DOMAIN Table /\ Restarts \in BOOLEAN

VARIABLES
  page,     \* the page opened first
  flag,     \* whether the server runs with the flag that wires its source
  q,        \* the queries "config" and "view"
  timer,    \* ticks until the view is polled
  open,     \* whether the user is on the page, or on another one
  visible,  \* whether the tab is
  online,   \* whether the browser is
  shown,    \* ticks with a network since the data arrived, or since it is polled if that is later
  crashed   \* a render threw: no error boundary, so nothing is left

vars == <<page, flag, q, timer, open, visible, online, shown, crashed>>
Queries == {"config", "view"}
P == Table[page]

(* Bound: how old unmarked data gets; the clock stops one tick later. *)
Limit == P.interval + 2 * P.slowest

(* A query: its data, whether that is stale, its error, and the fetch under *)
(* way: "paused" before the first try while offline, "first", "wait" before *)
(* the retry, "second" (the retry), or "no".  A try ends when it is due, a *)
(* lost one whenever the network gives it up or delivers it after all.     *)
Fresh(fetch) ==
  [data |-> "none", stale |-> FALSE, err |-> FALSE, fetch |-> fetch, due |-> 0]

Lost == -1
Fetching(x) == q[x].fetch \in {"first", "second"}
Ends(x)     == Fetching(x) /\ q[x].due \in {0, Lost}
Hangs(x)    == Fetching(x) /\ q[x].due = Lost
Wired == q["config"].data = "wired"

(* The handler of the config reads no upstream. *)
MutLatency(x) == IF x = "config" THEN {0, Lost} ELSE {0, P.slowest + 1, Lost}

Latency(x) == IF x = "config" THEN {0, Lost} ELSE {0, P.slowest, Lost}

-----------------------------------------------------------------------------
(* What is rendered. *)
IsLoading(x) == q[x].data = "none" /\ q[x].fetch # "no"
ShowsNotice  == open /\ ~crashed /\ ~IsLoading("config") /\ ~Wired
ShowsData    == open /\ ~crashed /\ Wired /\ ~q["view"].err /\ q["view"].data # "none"

(* What the page does after a step that may show other data.  A page that  *)
(* peeks reads rows it does not show up to the first that has items.       *)
Rendered ==
  crashed' \in IF ~open' \/ q'["view"].data \notin P.throws THEN {FALSE}
               ELSE IF q'["config"].data = "wired" /\ ~q'["view"].err THEN {TRUE}
               ELSE IF P.peeks THEN BOOLEAN ELSE {FALSE}

-----------------------------------------------------------------------------
Opened == [x \in Queries |-> Fresh(IF x = "config" THEN "first" ELSE "no")]

Init ==
  /\ page \in Pages /\ flag \in BOOLEAN
  /\ q = Opened /\ timer = P.interval
  /\ open = TRUE /\ visible = TRUE /\ online = TRUE /\ shown = 0 /\ crashed = FALSE

(* A fetch of x begins, or is put off without a network. *)
Begun(x, fetch, l) ==
  [q[x] EXCEPT !.fetch = fetch, !.due = l, !.err = @ /\ q[x].data # "none"]
Begins(x, network) ==
  IF network THEN {Begun(x, "first", l) : l \in Latency(x)} ELSE {Begun(x, "paused", 0)}

(* A component that uses x mounts or becomes enabled, or the network is    *)
(* back: x is fetched if it is stale; after less than a tick it may or may *)
(* not be.                                                                 *)
MountedIn(x, network) ==
  (IF q[x].fetch = "no" THEN Begins(x, network) ELSE {})
  \cup
  (IF q[x].fetch # "no" \/ (q[x].data # "none" /\ ~q[x].stale) THEN {q[x]} ELSE {})

Mounted(x) == MountedIn(x, online)

(* The view is shown again, so polling begins. *)
Polling(v) ==
  /\ v \in Mounted("view")
  /\ timer' = P.interval /\ shown' = 0

(* The config arrives; if it says wired when the last did not, the view is *)
(* enabled.                                                                *)
ConfigSucceeds ==
  /\ ~crashed /\ Ends("config")
  /\ \E v \in Mounted("view") \cup {q["view"]} :
       /\ IF open /\ flag /\ ~Wired THEN Polling(v)
          ELSE v = q["view"] /\ UNCHANGED <<timer, shown>>
       /\ q' = [q EXCEPT
                  !["config"] = [Fresh("no") EXCEPT !.data = IF flag THEN "wired" ELSE "unwired"],
                  !["view"] = v]
  /\ UNCHANGED <<page, flag, open, visible, online>> /\ Rendered

(* The view arrives; without the flag its handler answers 503. *)
ViewSucceeds ==
  /\ ~crashed /\ Ends("view") /\ flag
  /\ \E d \in P.answers : q' = [q EXCEPT !["view"] = [Fresh("no") EXCEPT !.data = d]]
  /\ timer' = P.interval /\ shown' = 0
  /\ UNCHANGED <<page, flag, open, visible, online>> /\ Rendered

(* A fetch fails, for whatever reason; after the second time, or the first *)
(* if nobody looks at it, the query has an error and keeps its data.       *)
Observed(x) == x = "config" \/ open

MutFails(x) ==
  /\ ~crashed /\ Ends(x)
  /\ q' = [q EXCEPT ![x] = IF @.fetch = "first" /\ Observed(x) THEN [@ EXCEPT !.fetch = "wait"]
                           ELSE [Fresh("no") EXCEPT !.err = TRUE]]
  /\ timer' = IF x = "view" THEN P.interval ELSE timer
  /\ UNCHANGED <<page, flag, open, visible, online, shown, crashed>>

Fails(x) ==
  /\ ~crashed /\ Ends(x)
  /\ q' = [q EXCEPT ![x] = IF @.fetch = "first" /\ Observed(x) THEN [@ EXCEPT !.fetch = "wait"]
                           ELSE [@ EXCEPT !.fetch = "no", !.err = TRUE]]
  /\ timer' = IF x = "view" THEN P.interval ELSE timer
  /\ UNCHANGED <<page, flag, open, visible, online, shown, crashed>>

(* A retry, or a try that was put off, goes ahead in a visible tab that is *)
(* online.                                                                 *)
MayGoOn(x) == q[x].fetch \in {"wait", "paused"} /\ visible /\ online
Try(x)     == IF q[x].fetch = "wait" THEN "second" ELSE "first"

Retries(x) ==
  /\ ~crashed /\ MayGoOn(x)
  /\ \/ /\ Observed(x) \/ q[x].fetch = "paused"
        /\ \E l \in Latency(x) :
             q' = [q EXCEPT ![x] = [@ EXCEPT !.fetch = Try(x), !.due = l]]
     \/ /\ ~Observed(x) /\ q[x].fetch = "wait"
        /\ q' = [q EXCEPT ![x] = [@ EXCEPT !.fetch = "no", !.err = TRUE]]
  /\ UNCHANGED <<page, flag, timer, open, visible, online, shown, crashed>>

(* refetchInterval; only the pages' views have one. *)
MutPoll ==
  /\ ~crashed /\ open /\ Wired /\ timer = 0
  /\ timer' = P.interval
  /\ \/ /\ q["view"].fetch = "no" /\ visible /\ ~q["view"].err
        /\ \E v \in Begins("view", online) : q' = [q EXCEPT !["view"] = v]
     \/ (q["view"].fetch # "no" \/ ~visible \/ q["view"].err) /\ UNCHANGED q
  /\ UNCHANGED <<page, flag, open, visible, online, shown, crashed>>

MutPollMounted ==
  /\ ~crashed /\ open /\ Wired /\ timer = 0
  /\ timer' = P.interval
  /\ UNCHANGED <<page, flag, q, open, visible, online, shown, crashed>>

Poll ==
  /\ ~crashed /\ open /\ Wired /\ timer = 0
  /\ timer' = P.interval
  /\ \/ /\ q["view"].fetch = "no" /\ visible
        /\ \E v \in Begins("view", online) : q' = [q EXCEPT !["view"] = v]
     \/ (q["view"].fetch # "no" \/ ~visible) /\ UNCHANGED q
  /\ UNCHANGED <<page, flag, open, visible, online, shown, crashed>>

(* The user goes to another page, which uses the config too ... *)
Leave ==
  /\ ~crashed /\ open /\ open' = FALSE
  /\ \E c \in Mounted("config") : q' = [q EXCEPT !["config"] = c]
  /\ UNCHANGED <<page, flag, timer, visible, online, shown, crashed>>

(* ... and comes back: the view is enabled by the config there is. *)
MutReturn ==
  /\ ~crashed /\ ~open /\ open' = TRUE
  /\ \E c \in Mounted("config"), v \in Mounted("view") :
       /\ Polling(v)
       /\ q' = [q EXCEPT !["config"] = c, !["view"] = v]
  /\ UNCHANGED <<page, flag, visible, online>> /\ Rendered

Return ==
  /\ ~crashed /\ ~open /\ open' = TRUE
  /\ \E c \in Mounted("config"), v \in Mounted("view") \cup {q["view"]} :
       /\ IF Wired THEN Polling(v) ELSE v = q["view"] /\ UNCHANGED <<timer, shown>>
       /\ q' = [q EXCEPT !["config"] = c, !["view"] = v]
  /\ UNCHANGED <<page, flag, visible, online>> /\ Rendered

(* The user reloads the application, which is all there is to do after a   *)
(* crash.  It takes itself to be online until the browser says otherwise.  *)
Reload ==
  /\ crashed
  /\ q' = Opened /\ timer' = P.interval /\ crashed' = FALSE /\ online' = TRUE
  /\ UNCHANGED <<page, flag, open, visible, shown>>

Hide ==
  /\ visible /\ visible' = FALSE
  /\ UNCHANGED <<page, flag, q, timer, open, online, shown, crashed>>

Show ==
  /\ ~visible /\ visible' = TRUE /\ shown' = 0
  /\ UNCHANGED <<page, flag, q, timer, open, online, crashed>>

(* The browser goes offline: a fetch under way is lost.  When it is online *)
(* again, what the page uses is fetched if it is stale.                    *)
GoOffline ==
  /\ ~crashed /\ online /\ online' = FALSE
  /\ q' = [x \in Queries |-> IF Fetching(x) THEN [q[x] EXCEPT !.due = Lost] ELSE q[x]]
  /\ UNCHANGED <<page, flag, timer, open, visible, shown, crashed>>

GoOnline ==
  /\ ~crashed /\ ~online /\ online' = TRUE
  /\ \E c \in MountedIn("config", TRUE), v \in MountedIn("view", TRUE) \cup {q["view"]} :
       /\ open /\ Wired => v \in MountedIn("view", TRUE)
       /\ ~(open /\ Wired) => v = q["view"]
       /\ q' = [q EXCEPT !["config"] = c, !["view"] = v]
  /\ UNCHANGED <<page, flag, timer, open, visible, shown, crashed>>

RestartServer ==
  /\ Restarts
  /\ flag' = ~flag
  /\ UNCHANGED <<page, q, timer, open, visible, online, shown, crashed>>

(* Time passes when nothing is due. *)
Tick ==
  /\ ~crashed
  /\ \A x \in Queries : (Fetching(x) => q[x].due # 0) /\ ~MayGoOn(x)
  /\ open /\ Wired => timer > 0
  /\ q' = [x \in Queries |->
             [q[x] EXCEPT !.due = IF Fetching(x) /\ ~Hangs(x) THEN @ - 1 ELSE @,
                          !.stale = @ \/ q[x].data # "none"]]
  /\ timer' = IF open /\ Wired THEN timer - 1 ELSE timer
  /\ shown' = IF Wired /\ online /\ ~Hangs("view") /\ shown <= Limit THEN shown + 1 ELSE shown
  /\ UNCHANGED <<page, flag, open, visible, online, crashed>>

Answers == ConfigSucceeds \/ ViewSucceeds \/ \E x \in Queries : Fails(x)

Next ==
  \/ Answers \/ (\E x \in Queries : Retries(x)) \/ Poll \/ Tick
  \/ Leave \/ Return \/ Reload \/ Hide \/ Show \/ GoOffline \/ GoOnline \/ RestartServer

(* Timers fire, and the handlers answer within their deadlines; a fetch    *)
(* that hangs may do so for ever.                                          *)
Fairness ==
  /\ \A x \in Queries : WF_vars(Retries(x))
  /\ WF_vars((ConfigSucceeds \/ Fails("config")) /\ ~Hangs("config"))
  /\ WF_vars((ViewSucceeds \/ Fails("view")) /\ ~Hangs("view"))
  /\ WF_vars(Poll) /\ WF_vars(Tick)

Spec == Init /\ [][Next]_vars /\ Fairness

-----------------------------------------------------------------------------
(* Every variable holds a value of its kind. *)
TypeOK ==
  /\ page \in Pages /\ flag \in BOOLEAN /\ open \in BOOLEAN
  /\ visible \in BOOLEAN /\ online \in BOOLEAN /\ crashed \in BOOLEAN
  /\ q["config"].data \in {"none", "wired", "unwired"}
  /\ q["view"].data \in {"none"} \cup P.answers
  /\ \A x \in Queries :
       /\ q[x].err \in BOOLEAN /\ q[x].fetch \in {"no", "paused", "first", "wait", "second"}
       /\ q[x].due \in Lost..P.slowest /\ q[x].stale \in BOOLEAN
  /\ timer \in 0..P.interval /\ shown \in 0..(Limit + 1)

(* Once the page knows that its source is wired, failing to ask again does
   not make it say the opposite (useConfig keeps the data of an earlier
   fetch): the notice only comes back if the server says so. *)
WiringIsNotForgotten == [][flag /\ Wired /\ ~crashed => Wired']_vars

(* The view is only fetched if the config said wired, so a page without its
   source causes no errors at the server (enabled: wired on every page). *)
NoFetchBeforeWired ==
  [][q'["view"].fetch \in {"first", "paused"} /\ q["view"].fetch = "no" => Wired']_vars

(* Data that is shown without an error is at most one polling interval, one
   failed try and its retry old, counted from its arrival or, for what was kept
   meanwhile, from when the user came back to the page or the tab or the source
   was wired again, and counting only the time with a network: react-query puts
   polls off while the browser is offline, and a fetch that hangs keeps the
   next poll from being made (getJSON has no timeout), so that time has no
   bound.  Nothing of the server or the page adds to it (refetchInterval). *)
DataAgeIsBounded == visible /\ ShowsData => shown <= Limit

(* The page heals by itself: while the server and the network are well, the
   page looked at and the config known, the data is shown in the end and stays,
   whatever failed before. *)
Heals ==
  <>[](flag /\ open /\ visible /\ online /\ Wired /\ ~Hangs("view")) /\ <>[][\A x \in Queries : ~Fails(x)]_vars
    => <>[](ShowsData \/ crashed)
=============================================================================
