------------------------------ MODULE JobContract ------------------------------
(* What the worker promises of the queue, without processes, sessions, locks or      *)
(* cooldowns: one job is crawled at a time; a crawl that fails is repeated while     *)
(* retries are left and then given up, one that lost its storage is repeated for     *)
(* nothing; what was crawled is indexed, maybe again, and never crawled any more.    *)
EXTENDS Naturals

CONSTANTS Jobs,      \* the rows of archive_jobs
          Budget    \* crawls a job may fail before it is given up

VARIABLES stage,     \* where each job is
          spent      \* failed crawls that were paid for with a retry

Stages == {"waiting", "crawling", "crawled", "indexed", "index_failed",
           "given_up", "misconfigured"}

Init == /\ stage = [j \in Jobs |-> "waiting"]
        /\ spent = [j \in Jobs |-> 0]

Moves(j, from, to) == stage[j] \in from /\ stage' = [stage EXCEPT ![j] = to]

\* One crawl at a time, of a job that waits.
Start(j) == /\ \A k \in Jobs : stage[k] # "crawling"
            /\ Moves(j, {"waiting"}, "crawling")
            /\ UNCHANGED spent

Succeed(j) == Moves(j, {"crawling"}, "crawled") /\ UNCHANGED spent

\* The crawl failed, and a retry pays for the next.
Retry(j) == /\ spent[j] < Budget
            /\ Moves(j, {"crawling"}, "waiting")
            /\ spent' = [spent EXCEPT ![j] = @ + 1]

\* The storage failed, not the crawl: it does not count.
Postpone(j) == Moves(j, {"crawling"}, "waiting") /\ UNCHANGED spent

\* No retry is left.
GiveUp(j) == /\ spent[j] = Budget
             /\ Moves(j, {"crawling"}, "given_up")
             /\ UNCHANGED spent

\* The crawl can never succeed as it is configured.
Abandon(j) == Moves(j, {"crawling"}, "misconfigured") /\ UNCHANGED spent

Index(j) == /\ \E verdict \in {"indexed", "index_failed"} :
                  Moves(j, {"crawled", "indexed", "index_failed"}, verdict)
            /\ UNCHANGED spent

Next == \E j \in Jobs : \/ Start(j) \/ Succeed(j) \/ Retry(j) \/ Postpone(j)
                       \/ GiveUp(j) \/ Abandon(j) \/ Index(j)

Spec == Init /\ [][Next]_<<stage, spent>>
================================================================================
