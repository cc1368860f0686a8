-------------------------- MODULE MCCrawlOrchestrator --------------------------
EXTENDS CrawlOrchestrator
(* The options of the job registry (job_registry.py:250-275), those of a job that    *)
(* builds a ZIM and keeps its parts, and those of one that replaces it and cleans up.*)
Opts(s, o, c, b, r) == [skip |-> s, overwrite |-> o, cleanup |-> c, backoff |-> b, relax |-> r]
MCOptions == {Opts(TRUE, FALSE, FALSE, TRUE, TRUE), Opts(FALSE, FALSE, FALSE, FALSE, FALSE),
              Opts(FALSE, TRUE, TRUE, FALSE, FALSE)}
================================================================================
