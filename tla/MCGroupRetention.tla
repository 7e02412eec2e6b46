-------------------------- MODULE MCGroupRetention --------------------------
EXTENDS GroupRetention, TLC

CONSTANTS w1, w2

Symmetry == Permutations(Workers)

OneWindow ==
  policy.window = DefaultWindow
    /\ \A v \in Windows \ {DefaultWindow} : old[v] = {}

NoRetries == \A d \in DayOf : job[d].attempts <= 1 /\ app[d].attempts <= 1

AllShown == written = 1..maxSeq /\ hidden = {}

\* A single day is explored with every history of two messages, every quota and
\* with retries; with policies that differ in both parts, for a history of two
\* messages that are shown, no retries and no lost call; two days with histories of three
\* messages that are shown, one policy and no retries.
OneDay == job[Days].status = "none" /\ maxSeq < MaxSeq

Explored ==
  \/ OneDay /\ OneWindow
  \/ OneDay /\ NoRetries /\ AllShown /\ active /\ lapsed = {} /\ late = {}
  \/ OneWindow /\ NoRetries /\ AllShown /\ policy.quota = DefaultQuota
=============================================================================
