-------------------------- MODULE MCCrawlWatchdogs --------------------------
(* All jobs are of one source: what recover-stale-jobs does for the one    *)
(* reaches the others.                                                     *)
EXTENDS CrawlWatchdogs
OneSource == [j \in Jobs |-> "hc"]
=============================================================================
