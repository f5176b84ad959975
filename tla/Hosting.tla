------------------------------ MODULE Hosting ------------------------------
(***************************************************************************)
(* Deployments and databases together: threads that work on one resource   *)
(* at the same time, the agent's builds, and what rows, containers and     *)
(* routes say about each other.                                            *)
(***************************************************************************)
EXTENDS Databases

HostingNext ==
    \/ DispatchBackup \/ DayPasses \/ AgentRestarts
    \/ \E a \in Actors :
          \/ ProvisionNext(a) \/ PollLost(a) \/ DeploymentNext(a)
          \/ DeploymentRequest(a) \/ DatabaseRequest(a)
          \/ BuildStarts(a) \/ BuildEnds(a)
HostingSpec == HostingInit /\ [][HostingNext]_hvars

\* Threads run to their end, builds end, the backup scheduler keeps turning
\* and its calls do not fail for ever.  No call of the agent has to fail.
HostingFairness ==
    /\ \A a \in Actors :
          /\ WF_hvars(ProvisionNext(a)) /\ WF_hvars(DeploymentNext(a))
          /\ WF_hvars(BuildStarts(a)) /\ WF_hvars(BuildEnds(a))
    /\ WF_hvars(DispatchBackup)
FairHostingSpec == HostingSpec /\ HostingFairness

-----------------------------------------------------------------------------
\* No two requests have overlapped, and no stop was lost.
Calm == upsets = 0

\* While nobody is at work and requests have not overlapped, the row tells the
\* truth: a running resource has exactly the container and the variables its
\* row names, a suspended or deleted one has none, a deleted one no volume.
RowTellsTruth ==
    Calm /\ Quiet =>
        /\ row.state = "running" =>
              /\ Cardinality(box) = 1
              /\ App => box = {[id |-> row.port, env |-> row.env]}
        /\ row.state \in {"none", "suspended", "deleted"} => box = {}
        /\ row.state = "deleted" /\ Faults = {} => ~vol

\* A domain that is gone has no route, and a route to a container belongs to
\* an active domain, unless requests overlapped.
NoStrayRoute ==
    Calm /\ Quiet => (dom = None => route = None)

\* A revision that counts as run, and so may be rolled back to, has run,
\* however the requests that made and started revisions interleave.
RanAsRecorded == \A i \in DOMAIN revs : revs[i].status = "running" => i \in ran

\* A deployment always has an active revision, and exactly one unless requests
\* overlapped (_deactivate_old_revisions, the success of a provisioning).
ActiveRevs == { i \in DOMAIN revs : revs[i].active }
OneActiveRevision ==
    App => ActiveRevs # {} /\ (Calm => Cardinality(ActiveRevs) = 1)

\* A snapshot is not taken while a container writes to the volume ("Please stop the
\* app before taking a snapshot to prevent data corruption"), unless requests
\* overlapped; except of a deployment in state error, whose container may still run.
SnapshotSound == Calm /\ snap # None /\ snap.torn => snap.of = "error"

\* Provisioning ends: a resource does not stay in building, whatever overlaps
\* and even when the agent forgets its builds.
BuildingSettles == row.state = "building" ~> row.state # "building"

\* A database whose container stays up is dumped again within a day.
BackedUpDaily == <>[](Db /\ box # {}) => []<>(saved = "recent")
=============================================================================
