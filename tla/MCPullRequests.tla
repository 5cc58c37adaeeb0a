---------------------------- MODULE MCPullRequests ----------------------------
(* Pull requests for TLC: one that is closed by its label and made again,    *)
(* with both workers; and one that is reopened, while the event job dies.    *)
EXTENDS PRLifecycle

VARIABLE part

\* PRLifecycle itself is the one that is closed by its label.
Reopened == INSTANCE PRLifecycle WITH
  MaxPRs <- 1, MaxCrashes <- 1, MaxReopens <- 1

MCInit ==
  \/ part = "rerun" /\ Init
  \/ part = "reopened" /\ Reopened!Init

MCNext ==
  /\ \/ part = "rerun" /\ Next
     \/ part = "reopened" /\ Reopened!Next
  /\ UNCHANGED part

MCVars == <<part, vars>>

\* Every job that has begun goes on, and every job begins again and again;
\* update-prs gets to every entry in the end (frac_update_pr_json), and what is
\* closed is closed for long.
MCSpec ==
  /\ MCInit /\ [][MCNext]_MCVars
  /\ WF_vars(part = "rerun" /\ (Step("prs") \/ WritePrs))
  /\ WF_vars(part = "rerun" /\ (Step("event") \/ WriteEvent))
  /\ WF_vars(part = "rerun" /\ CloneForPrs)
  /\ SF_vars(part = "rerun" /\ DeployPrs)
  /\ WF_vars(part = "rerun" /\ (PrepClone \/ PrepDeploy))
  /\ \A i \in 1..2 : SF_vars(part = "rerun" /\ SubmitPrs(i))
  /\ SF_vars(part = "rerun" /\ Issue(2))
  /\ WF_vars(part = "rerun" /\ \E i \in 1..2 : Settle(i))

-----------------------------------------------------------------------------
\* A pull request that the bot has closed, saying that it will make another one,
\* because of the label: the other one comes, whichever worker closed it, whatever
\* is overwritten by a clone that is older, collapsed or lost. (Reopened has one pull
\* request only.)
LabelPromiseKept ==
  (part = "rerun" /\ promised[1] = "label") ~> (part = "rerun" /\ gh[2].state # "none")

\* The graph repository learns of every pull request that is closed: its entry is
\* collapsed in the end, unless it was reopened.
ClosedIsRecorded ==
  \A i \in 1..2 :
    (part = "rerun" /\ gh[i].state = "closed" /\ entry[i].form = "ref")
      ~> (part = "rerun" /\ (entry[i].form = "collapsed" \/ gh[i].state = "open"))
=============================================================================
