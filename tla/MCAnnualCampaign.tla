-------------------------- MODULE MCAnnualCampaign --------------------------
EXTENDS AnnualCampaign

\* What an operator may have tuned: below the floor of an annual job, and with a
\* value of his own for one of the profile's.
MCOverrides == {[DefaultOptions EXCEPT !.skipBuild = "no", !.tuning = "own",
                                       !.restarts = 1]}
=============================================================================
