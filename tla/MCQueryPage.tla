----------------------------- MODULE MCQueryPage -----------------------------
(***************************************************************************)
(* Small instances of QueryPage, and what the repository says of the pages *)
(* that they do not do.                                                    *)
(***************************************************************************)
EXTENDS QueryPage

(* "Which sources are wired ... Drives the SPA's unwired notices"
   (docs/api.md:38): the notice is for a source that is not wired.  It is also
   shown, for as long as the page stays open, if the config could not be
   fetched (!cfg.isLoading && !wired on every page). *)
NoticeMeansUnwired == ShowsNotice => ~flag

(* "one cluster's failure surfaces inline, the rest render"
   (handlers_available_capacity.go:14-15).  AvailableCapacity.tsx:37 reads
   the length of the null the failed cluster has for its items. *)
FailedRowDoesNotBreakThePage == ~(crashed /\ q["view"].data = "failedRow")

(* "Each shard's ShardSummary carries the --provider-addr it's bound to, so the
   Shard-capacity view shows which out-of-tree provider each shard dials"
   (README.md:20).  ShardReports.tsx:141-142 takes the entries of the nulls a
   shard without machines has for its counts. *)
ShardWithoutMachinesIsShown == ~(crashed /\ q["view"].data = "noMachines")
=============================================================================
