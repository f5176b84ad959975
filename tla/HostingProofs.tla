--------------------------- MODULE HostingProofs ---------------------------
(***************************************************************************)
(* Proofs about hosted resources (Hosting).  Whatever requests overlap,    *)
(* the revisions that count as run have run and the deployment has an      *)
(* active one.  As long as none overlap, at most one thread is at work,    *)
(* and it knows what the row, the containers and the proxy look like.      *)
(***************************************************************************)
EXTENDS Hosting, FiniteSetTheorems, TLAPS

\* The types, by the groups of variables the actions leave alone.
RowsOK == row \in Deployment /\ revs \in Seq(Revision) /\ Len(revs) <= asked
DockerOK == box \subseteq Container /\ made \in Nat /\ vol \in BOOLEAN
BuildsOK ==
    /\ build \in {"unknown", "building", "success", "error"}
    /\ tasks \in [Actors -> {"none", "queued", "busy"}]
ProxyOK ==
    /\ dom \in {None, "pending_dns", "failed", "active"}
    /\ route \in {None, Wake} \cup Nat
DumpsOK ==
    /\ saved \in {None, "old", "recent"}
    /\ snap \in [of : DeploymentState, torn : BOOLEAN] \cup {None}
JobsOK == job \in [Actors -> Job]
HistOK == upsets \in 0..MaxUpsets /\ ran \subseteq 1..MaxRequests /\ asked \in 0..MaxRequests

HostTypes == RowsOK /\ DockerOK /\ BuildsOK /\ ProxyOK /\ DumpsOK /\ JobsOK /\ HistOK

-----------------------------------------------------------------------------
\* While no requests have overlapped, a thread that has loaded the row knows what is in
\* it, and what each thread finds and leaves in the containers and the proxy is known.
Loaded == {"post", "poll", "list", "run", "wait", "commit", "fail"}
RunsOne == (\E c \in box : box = {c}) /\ (row.kind = "app" => box = {[id |-> row.port, env |-> row.env]})

AtRest ==
    /\ row.state \in {"none", "running", "suspended", "error", "deleted"}
    /\ row.state = "running" => RunsOne
    /\ row.state \notin {"running", "error"} => box = {}
    /\ row.state = "deleted" /\ Faults = {} => ~vol

Known(a) == job[a].seen = row.state /\ job[a].env = row.env /\ job[a].rev = Len(revs)
New(a) == [id |-> job[a].new, env |-> row.env]
Phase(a) ==
    /\ job[a].pc # "idle" /\ Exists
    /\ job[a].pc \in Loaded => Known(a)
    /\ job[a].pc = "run" => job[a].old = box
    /\ job[a].pc = "wait" => New(a) \notin job[a].old /\ box = job[a].old \cup {New(a)}
    /\ job[a].pc \in {"commit", "route"} => box = {New(a)}
    /\ job[a].pc = "route" => row.state = "running" /\ row.kind = "app" /\ row.port = job[a].new
    /\ job[a].pc \in {"stop", "stopped", "tar"} => job[a].seen = row.state
    /\ job[a].pc = "sleep" => row.state = "running" /\ RunsOne
    /\ job[a].pc \in {"stopped", "slept", "deleted"} => box = {}
    /\ job[a].pc = "deleted" => route = None /\ (Faults = {} => ~vol)
    /\ job[a].pc = "tar" => job[a].old = box /\ job[a].new = made /\ row.state # "running" /\ AtRest

RouteInv == dom = None => route = None
CalmInv ==
    Calm =>
        /\ RouteInv
        /\ \A a, b \in Actors : ~Idle(a) /\ ~Idle(b) => a = b
        /\ \A a \in Actors : ~Idle(a) => Phase(a)
        /\ Quiet => AtRest

\* A thread that is about to record its revision as running has run it; containers are
\* numbered in the order they are made; the newest revision is the active one.
RanInv == RanAsRecorded /\ \A a \in Actors : At(a, "commit") => job[a].rev \in ran \cup {0}
IdsInv == \A c \in box : c.id <= made
ActiveInv ==
    App => /\ revs # <<>> /\ revs[Len(revs)].active
           /\ Calm => \A i \in DOMAIN revs : revs[i].active => i = Len(revs)
WorkInv == RanInv /\ IdsInv /\ ActiveInv /\ SnapshotSound

-----------------------------------------------------------------------------
(* Types.                                                                    *)

LEMMA Frames ==
    ASSUME HostTypes
    PROVE  /\ UNCHANGED <<rows, asked>> => RowsOK'
           /\ UNCHANGED docker => DockerOK'
           /\ UNCHANGED builds => BuildsOK'
           /\ UNCHANGED proxy => ProxyOK'
           /\ UNCHANGED dumps => DumpsOK'
           /\ UNCHANGED job => JobsOK'
           /\ UNCHANGED hist => HistOK'
BY DEF HostTypes, RowsOK, DockerOK, BuildsOK, ProxyOK, DumpsOK, JobsOK, HistOK, rows, docker, builds, proxy, dumps, hist

LEMMA NothingType == Nothing \in Job
BY HostingAssumption DEF Nothing, Job, Pc, DeploymentState, Env

LEMMA JobKinds ==
    ASSUME JobsOK, NEW a \in Actors
    PROVE  /\ \A pc \in Pc : GoesTo(a, pc) => JobsOK'
           /\ Ends(a) => JobsOK'
           /\ \A pc \in Pc, s \in DeploymentState : Begins(a, pc, s) => JobsOK'
<1>1. job[a] \in Job  BY DEF JobsOK
<1>2. ASSUME NEW pc \in Pc, GoesTo(a, pc) PROVE JobsOK'
  <2>1. [job[a] EXCEPT !.pc = pc] \in Job  BY <1>1 DEF Job
  <2>2. job' = [job EXCEPT ![a] = [job[a] EXCEPT !.pc = pc]]  BY <1>2 DEF GoesTo
  <2>. QED  BY <2>1, <2>2 DEF JobsOK
<1>3. Ends(a) => JobsOK'  BY NothingType DEF Ends, JobsOK
<1>4. ASSUME NEW pc \in Pc, NEW s \in DeploymentState, Begins(a, pc, s) PROVE JobsOK'
  <2>1. [Nothing EXCEPT !.pc = pc, !.seen = s] \in Job  BY NothingType DEF Job
  <2>. QED  BY <1>4, <2>1 DEF Begins, JobsOK
<1>. QED  BY <1>2, <1>3, <1>4

LEMMA HistKinds ==
    ASSUME HistOK
    PROVE  /\ Meanwhile => HistOK' /\ asked' = asked + 1
           /\ \A a, pc, s : Begins(a, pc, s) => HistOK' /\ asked' = asked + 1
<1>1. ASSUME Meanwhile PROVE HistOK' /\ asked' = asked + 1
  <2>1. asked \in Nat /\ asked < MaxRequests /\ asked' = asked + 1 /\ ran' = ran  BY <1>1 DEF Meanwhile, HistOK
  <2>2. upsets' \in 0..MaxUpsets
    <3>1. CASE Quiet  BY <1>1, <3>1 DEF Meanwhile, HistOK
    <3>2. CASE ~Quiet  BY <1>1, <3>2, HostingAssumption DEF Meanwhile, HistOK, Upset
    <3>. QED  BY <3>1, <3>2
  <2>. QED  BY <2>1, <2>2, HostingAssumption DEF HistOK
<1>. QED  BY <1>1 DEF Begins

LEMMA StateType ==
    ASSUME RowsOK, NEW s \in DeploymentState
    PROVE  SetState(s) \in Deployment
BY DEF RowsOK, SetState, Deployment

LEMMA RevisionKinds ==
    ASSUME RowsOK, HistOK, NEW s \in DeploymentState, NEW e \in Env, NEW t \in BOOLEAN, NewRevision(s, e, t)
    PROVE  /\ revs' \in Seq(Revision) /\ Len(revs') = Len(revs) + 1
           /\ revs'[Len(revs')] = [status |-> s, active |-> TRUE, env |-> e, tag |-> t]
           /\ \A i \in DOMAIN revs : revs'[i] = [revs[i] EXCEPT !.active = FALSE]
<1>. DEFINE r == [status |-> s, active |-> TRUE, env |-> e, tag |-> t]
<1>1. r \in Revision  BY DEF Revision
<1>2. Deactivated \in Seq(Revision) /\ Len(Deactivated) = Len(revs) /\ DOMAIN revs = 1..Len(revs)
  <2>1. revs \in Seq(Revision)  BY DEF RowsOK
  <2>2. \A i \in 1..Len(revs) : revs[i] \in Revision  BY <2>1
  <2>3. \A i \in 1..Len(revs) : [revs[i] EXCEPT !.active = FALSE] \in Revision  BY <2>2 DEF Revision
  <2>4. DOMAIN revs = 1..Len(revs)  BY <2>1
  <2>. QED  BY <2>1, <2>3, <2>4 DEF Deactivated
<1>3. revs' = Append(Deactivated, r)  BY DEF NewRevision
<1>4. \A i \in DOMAIN revs : Deactivated[i] = [revs[i] EXCEPT !.active = FALSE]  BY DEF Deactivated
<1>. HIDE DEF r, Deactivated
<1>5. revs' \in Seq(Revision) /\ Len(revs') = Len(revs) + 1 /\ revs'[Len(revs')] = r  BY <1>1, <1>2, <1>3
<1>6. \A i \in 1..Len(revs) : revs'[i] = Deactivated[i]  BY <1>1, <1>2, <1>3
<1>. QED  BY <1>2, <1>4, <1>5, <1>6 DEF r

\* A revision is replaced, if there is one of that number.
LEMMA RevisionSet ==
    ASSUME revs \in Seq(Revision), NEW n, NEW r, n \in DOMAIN revs => r \in Revision, revs' = [revs EXCEPT ![n] = r]
    PROVE  /\ revs' \in Seq(Revision) /\ Len(revs') = Len(revs) /\ DOMAIN revs' = DOMAIN revs
           /\ \A i \in DOMAIN revs : revs'[i] = IF i = n THEN r ELSE revs[i]
<1>1. DOMAIN revs = 1..Len(revs) /\ Len(revs) \in Nat /\ \A i \in 1..Len(revs) : revs[i] \in Revision  OBVIOUS
<1>2. DOMAIN revs' = 1..Len(revs) /\ \A i \in 1..Len(revs) : revs'[i] = IF i = n THEN r ELSE revs[i]  BY <1>1
<1>3. revs' = [i \in 1..Len(revs) |-> IF i = n THEN r ELSE revs[i]]  BY <1>1
<1>4. \A i \in 1..Len(revs) : (IF i = n THEN r ELSE revs[i]) \in Revision  BY <1>1
<1>5. revs' \in [1..Len(revs) -> Revision]  BY <1>3, <1>4
<1>6. \A m \in Nat : \A f \in [1..m -> Revision] : f \in Seq(Revision) /\ Len(f) = m  OBVIOUS
<1>7. revs' \in Seq(Revision) /\ Len(revs') = Len(revs)  BY <1>1, <1>5, <1>6
<1>. QED  BY <1>1, <1>2, <1>7

LEMMA ProvisionTypes ==
    ASSUME HostTypes, NEW a \in Actors, ProvisionNext(a) \/ PollLost(a)
    PROVE  HostTypes'
<1>. USE DEF HostTypes
<1>a. job[a] \in Job /\ job[a].seen \in DeploymentState /\ job[a].env \in Env /\ job[a].rev \in 0..MaxRequests
      /\ job[a].old \subseteq Container /\ job[a].new \in Nat
  BY DEF JobsOK, Job
<1>b. /\ row.state \in DeploymentState /\ row.env \in Env /\ row.kind \in {"app", "db"} /\ Len(revs) \in 0..MaxRequests
      /\ revs \in Seq(Revision) /\ \A i \in DOMAIN revs : revs[i] \in Revision
  <2>1. row.state \in DeploymentState /\ row.env \in Env /\ row.kind \in {"app", "db"}  BY DEF RowsOK, Deployment
  <2>2. revs \in Seq(Revision)  BY DEF RowsOK
  <2>3. Len(revs) \in Nat /\ \A i \in DOMAIN revs : revs[i] \in Revision  BY <2>2
  <2>4. Len(revs) \in 0..MaxRequests  BY <2>3, HostingAssumption DEF RowsOK, HistOK
  <2>. QED  BY <2>1, <2>2, <2>3, <2>4
<1>c. \A s \in DeploymentState : Written(a, s) \in DeploymentState  BY <1>b DEF Written
<1>d. \A r \in Revision : Succeeded(r) \in Revision /\ Tagged(r) \in Revision
                          /\ [r EXCEPT !.status = "error"] \in Revision
  <2>. SUFFICES ASSUME NEW r \in Revision
                PROVE  Succeeded(r) \in Revision /\ Tagged(r) \in Revision /\ [r EXCEPT !.status = "error"] \in Revision
    OBVIOUS
  <2>1. {"running", "building", "error"} \subseteq DeploymentState  BY DEF DeploymentState
  <2>2. \A s \in DeploymentState, b \in BOOLEAN : [r EXCEPT !.status = s, !.tag = TRUE, !.active = b] \in Revision
    BY DEF Revision
  <2>3. (IF row.src = "github" THEN TRUE ELSE r.active) \in BOOLEAN  BY DEF Revision
  <2>4. Succeeded(r) \in Revision  BY <2>1, <2>2, <2>3 DEF Succeeded
  <2>5. Tagged(r) \in Revision /\ [r EXCEPT !.status = "error"] \in Revision  BY <2>1 DEF Tagged, Revision
  <2>. QED  BY <2>4, <2>5
<1>1. CASE Load(a)
  <2>1. JobsOK'
    <3>. DEFINE pc == IF row.kind = "app" /\ row.src = "github" THEN "post" ELSE "list"
                j == [job[a] EXCEPT !.seen = row.state, !.env = row.env, !.rev = Len(revs), !.pc = pc]
    <3>1. pc \in Pc  BY DEF Pc
    <3>. HIDE DEF pc
    <3>2. j \in Job  BY <1>a, <1>b, <3>1 DEF Job
    <3>3. Exists => job' = [job EXCEPT ![a] = j]  BY <1>1 DEF Load, pc
    <3>. HIDE DEF j
    <3>4. CASE Exists  BY <3>2, <3>3, <3>4 DEF JobsOK
    <3>5. CASE ~Exists  BY <1>1, <3>5, JobKinds DEF Load
    <3>. QED  BY <3>4, <3>5
  <2>. QED  BY <1>1, <2>1, Frames DEF Load, hist
<1>2. CASE PostBuild(a)
  <2>1. JobsOK'  BY <1>2, JobKinds DEF PostBuild, Pc
  <2>2. BuildsOK'  BY <1>2 DEF PostBuild, BuildsOK
  <2>. QED  BY <1>2, <2>1, <2>2, Frames DEF PostBuild, hist
<1>3. CASE Poll(a)
  <2>1. row' \in Deployment /\ row'.state \in DeploymentState /\ row'.env \in Env
    <3>1. SetState("building") \in Deployment  BY StateType DEF DeploymentState
    <3>2. row' \in Deployment  BY <1>3, <3>1 DEF Poll, RowsOK
    <3>. QED  BY <3>2 DEF Deployment
  <2>2. JobsOK'
    <3>. DEFINE commits == job[a].seen # "building" \/ build = "success"
                known == IF commits THEN row' ELSE [state |-> job[a].seen, env |-> job[a].env]
                j == [job[a] EXCEPT !.pc = Polled(build), !.seen = known.state, !.env = known.env]
    <3>1. known.state \in DeploymentState /\ known.env \in Env  BY <1>a, <2>1
    <3>2. Polled(build) \in Pc  BY DEF Polled, Pc
    <3>3. job' = [job EXCEPT ![a] = j]  BY <1>3 DEF Poll
    <3>. HIDE DEF known
    <3>4. j \in Job  BY <1>a, <3>1, <3>2 DEF Job
    <3>. QED  BY <3>3, <3>4 DEF JobsOK
  <2>3. revs' \in Seq(Revision) /\ Len(revs') = Len(revs)
    <3>1. revs' = revs \/ revs' = [revs EXCEPT ![job[a].rev] = Tagged(revs[job[a].rev])]  BY <1>3 DEF Poll
    <3>2. CASE revs' = revs  BY <3>2, <1>b
    <3>3. CASE revs' = [revs EXCEPT ![job[a].rev] = Tagged(revs[job[a].rev])]
      BY <3>3, <1>b, <1>d, RevisionSet
    <3>. QED  BY <3>1, <3>2, <3>3
  <2>4. UNCHANGED asked  BY <1>3 DEF Poll, hist
  <2>5. RowsOK'  BY <2>1, <2>3, <2>4 DEF RowsOK
  <2>. QED  BY <1>3, <2>2, <2>5, Frames DEF Poll
<1>4. CASE PollLost(a)
  <2>1. JobsOK'  BY <1>4, JobKinds DEF PollLost, Pc
  <2>. QED  BY <1>4, <2>1, Frames DEF PollLost, hist
<1>5. CASE StartList(a)
  <2>1. JobsOK'
    <3>1. [job[a] EXCEPT !.pc = "run", !.old = box] \in Job  BY <1>a DEF Job, Pc, DockerOK
    <3>2. CASE job' = [job EXCEPT ![a] = [job[a] EXCEPT !.pc = "run", !.old = box]]  BY <3>1, <3>2 DEF JobsOK
    <3>3. CASE GoesTo(a, "fail")  BY <3>3, JobKinds DEF Pc
    <3>. QED  BY <1>5, <3>2, <3>3 DEF StartList
  <2>2. DockerOK'  BY <1>5 DEF StartList, DockerOK, MakeVolume
  <2>. QED  BY <1>5, <2>1, <2>2, Frames DEF StartList, hist
<1>6. CASE StartRun(a)
  <2>1. JobsOK'
    <3>1. [job[a] EXCEPT !.pc = "wait", !.new = made + 1] \in Job
      <4>1. made + 1 \in Nat /\ "wait" \in Pc  BY DEF DockerOK, Pc
      <4>. QED  BY <1>a, <4>1 DEF Job
    <3>2. CASE job' = [job EXCEPT ![a] = [job[a] EXCEPT !.pc = "wait", !.new = made + 1]]  BY <3>1, <3>2 DEF JobsOK
    <3>3. CASE GoesTo(a, "fail")  BY <3>3, JobKinds DEF Pc
    <3>. QED  BY <1>6, <3>2, <3>3 DEF StartRun
  <2>2. DockerOK'
    <3>1. [id |-> made + 1, env |-> job[a].env] \in Container  BY <1>a DEF Container, DockerOK
    <3>. QED  BY <1>6, <3>1 DEF StartRun, DockerOK
  <2>. QED  BY <1>6, <2>1, <2>2, Frames DEF StartRun, hist
<1>7. CASE StartWait(a)
  <2>1. JobsOK'  BY <1>7, JobKinds DEF StartWait, Pc
  <2>2. DockerOK'  BY <1>7 DEF StartWait, DockerOK
  <2>3. HistOK'
    <3>1. {job[a].rev} \ {0} \subseteq 1..MaxRequests  BY <1>a, HostingAssumption
    <3>2. ran' = ran \cup ({job[a].rev} \ {0}) \/ ran' = ran  BY <1>7 DEF StartWait
    <3>. QED  BY <1>7, <3>1, <3>2 DEF StartWait, HistOK
  <2>. QED  BY <1>7, <2>1, <2>2, <2>3, Frames DEF StartWait
<1>8. CASE Commit(a)
  <2>1. JobsOK'  BY <1>8, JobKinds DEF Commit, Pc
  <2>2. row' \in Deployment
    <3>1. Written(a, "running") \in DeploymentState  BY <1>c DEF DeploymentState
    <3>. QED  BY <1>8, <3>1, <1>a DEF Commit, RowsOK, Deployment
  <2>3. revs' \in Seq(Revision) /\ Len(revs') = Len(revs)
    <3>1. revs' = [revs EXCEPT ![job[a].rev] = Succeeded(revs[job[a].rev])]  BY <1>8 DEF Commit
    <3>. QED  BY <3>1, <1>b, <1>d, RevisionSet
  <2>4. RowsOK'  BY <1>8, <2>2, <2>3 DEF Commit, RowsOK, hist
  <2>. QED  BY <1>8, <2>1, <2>4, Frames DEF Commit
<1>9. CASE CommitDatabase(a)
  <2>1. JobsOK'  BY <1>9, JobKinds DEF CommitDatabase
  <2>2. row' \in Deployment  BY <1>9, <1>c, StateType DEF CommitDatabase, DeploymentState
  <2>3. RowsOK'  BY <1>9, <2>2 DEF CommitDatabase, RowsOK, hist
  <2>. QED  BY <1>9, <2>1, <2>3, Frames DEF CommitDatabase
<1>10. CASE Route(a)
  <2>1. JobsOK'  BY <1>10, JobKinds DEF Route
  <2>2. ProxyOK'  BY <1>10, <1>a DEF Route, RegisterRoute, ProxyOK
  <2>. QED  BY <1>10, <2>1, <2>2, Frames DEF Route, hist
<1>11. CASE Fail(a)
  <2>1. JobsOK'  BY <1>11, JobKinds DEF Fail
  <2>2. row' \in Deployment  BY <1>11, <1>c, StateType DEF Fail, DeploymentState
  <2>3. revs' \in Seq(Revision) /\ Len(revs') = Len(revs)
    <3>1. revs' = [revs EXCEPT ![Len(revs)] = [revs[Len(revs)] EXCEPT !.status = "error"]]  BY <1>11 DEF Fail
    <3>. QED  BY <3>1, <1>b, <1>d, RevisionSet
  <2>4. RowsOK'  BY <1>11, <2>2, <2>3 DEF Fail, RowsOK, hist
  <2>. QED  BY <1>11, <2>1, <2>4, Frames DEF Fail
<1>12. CASE RowGone(a)
  <2>1. JobsOK'  BY <1>12, JobKinds DEF RowGone
  <2>. QED  BY <1>12, <2>1, Frames DEF RowGone, hist
<1>. QED
  BY <1>1, <1>2, <1>3, <1>4, <1>5, <1>6, <1>7, <1>8, <1>9, <1>10, <1>11, <1>12 DEF ProvisionNext

\* Requests that insert a revision and provision it.
LEMMA RevisionTypes ==
    ASSUME HostTypes, NEW a \in Actors, row' \in Deployment, NEW s \in DeploymentState, NEW e \in Env, NEW t \in BOOLEAN,
           NewRevision(s, e, t), Provision(a), UNCHANGED <<docker, builds, proxy, dumps>>
    PROVE  HostTypes'
<1>1. HistOK' /\ asked' = asked + 1  BY HistKinds DEF HostTypes, Provision
<1>2. JobsOK'  BY JobKinds DEF HostTypes, Provision, Pc, DeploymentState
<1>3. revs' \in Seq(Revision) /\ Len(revs') = Len(revs) + 1  BY RevisionKinds DEF HostTypes
<1>4. Len(revs) <= asked /\ Len(revs) \in Nat /\ asked \in Nat  BY DEF HostTypes, RowsOK, HistOK
<1>5. RowsOK'  BY <1>1, <1>3, <1>4 DEF RowsOK
<1>. QED  BY <1>1, <1>2, <1>5, Frames DEF HostTypes

\* Requests that leave the revisions alone.
LEMMA RowTypes ==
    ASSUME HostTypes, row' \in Deployment, revs' = revs, JobsOK', HistOK', asked' \in {asked, asked + 1},
           DockerOK', ProxyOK', DumpsOK', UNCHANGED builds
    PROVE  HostTypes'
<1>1. Len(revs) <= asked /\ Len(revs) \in Nat /\ asked \in Nat  BY DEF HostTypes, RowsOK, HistOK
<1>2. Len(revs) <= asked'  BY <1>1
<1>3. RowsOK'  BY <1>2 DEF HostTypes, RowsOK
<1>. QED  BY <1>3, Frames DEF HostTypes

LEMMA DeploymentTypes ==
    ASSUME HostTypes, NEW a \in Actors, DeploymentRequest(a)
    PROVE  HostTypes'
<1>. USE DEF HostTypes
<1>a. row.state \in DeploymentState /\ row.env \in Env /\ row \in Deployment /\ row.port \in Nat  BY DEF RowsOK, Deployment
<1>b. \A s \in DeploymentState : SetState(s) \in Deployment  BY StateType
<1>c. {"created", "building", "suspended", "stopped", "running", "none"} \subseteq DeploymentState
  BY DEF DeploymentState
<1>d. None \in Env /\ Envs \subseteq Env  BY DEF Env
<1>e. \A e \in Env, s \in DeploymentState :
         /\ [row EXCEPT !.env = e] \in Deployment
         /\ [row EXCEPT !.env = e, !.state = s] \in Deployment /\ [row EXCEPT !.state = s, !.env = e] \in Deployment
  BY <1>a DEF Deployment
<1>f. \A pc \in {"stop", "delete", "sleep", "load", "tar"} : pc \in Pc  BY DEF Pc
<1>g. /\ Meanwhile => HistOK' /\ asked' = asked + 1
      /\ \A pc, s : Begins(a, pc, s) => HistOK' /\ asked' = asked + 1
      /\ Provision(a) => HistOK' /\ asked' = asked + 1
  BY HistKinds DEF Provision
<1>h. /\ \A pc \in Pc, s \in DeploymentState : Begins(a, pc, s) => JobsOK'
      /\ Provision(a) => JobsOK'
  BY <1>c, <1>f, JobKinds DEF Provision
<1>1. ASSUME NEW src \in Sources, NEW env \in Env, CreateDeployment(a, src, env) PROVE HostTypes'
  <2>1. row' \in Deployment  BY <1>1, <1>c, HostingAssumption DEF CreateDeployment, Deployment
  <2>. QED  BY <1>1, <1>c, <1>d, <2>1, RevisionTypes DEF CreateDeployment
<1>2. ASSUME NEW env \in Env, UpdateEnv(a, env) PROVE HostTypes'
  <2>1. CASE row.state = "running"
    <3>1. row' \in Deployment  BY <1>2, <1>c, <1>e, <2>1 DEF UpdateEnv
    <3>. QED  BY <1>2, <1>c, <2>1, <3>1, RevisionTypes DEF UpdateEnv
  <2>2. CASE row.state # "running"
    <3>1. /\ row' = [row EXCEPT !.env = env] /\ revs' = revs /\ UNCHANGED job /\ Meanwhile
          /\ UNCHANGED <<docker, builds, proxy, dumps>>
      BY <1>2, <2>2 DEF UpdateEnv
    <3>2. row' \in Deployment  BY <1>2, <1>e, <3>1, <1>c
    <3>. QED  BY <1>g, <3>1, <3>2, Frames, RowTypes
  <2>. QED  BY <2>1, <2>2
<1>3. ASSUME NEW env \in Envs, ConnectDatabase(a, env) PROVE HostTypes'
  <2>1. /\ row' = [row EXCEPT !.env = env] /\ revs' = revs /\ Provision(a)
        /\ UNCHANGED <<docker, builds, proxy, dumps>>
    BY <1>3 DEF ConnectDatabase
  <2>2. row' \in Deployment  BY <1>3, <1>c, <1>d, <1>e, <2>1
  <2>. QED  BY <1>g, <1>h, <2>1, <2>2, Frames, RowTypes
<1>4. ASSUME NEW i \in DOMAIN revs, Rollback(a, i) PROVE HostTypes'
  <2>1. revs[i] \in Revision  BY <1>4 DEF RowsOK
  <2>2. PICK e \in Env : e = IF revs[i].env = None THEN row.env ELSE revs[i].env  BY <1>a, <2>1 DEF Revision
  <2>3. /\ row' = [row EXCEPT !.state = "building", !.env = e] /\ NewRevision("building", e, TRUE) /\ Provision(a)
        /\ UNCHANGED <<docker, builds, proxy, dumps>>
    BY <1>4, <2>2 DEF Rollback
  <2>4. row' \in Deployment  BY <1>c, <1>e, <2>3
  <2>. QED  BY <1>c, <2>3, <2>4, RevisionTypes
<1>5. CASE RestartDeployment(a)  BY <1>5, <1>a, <1>b, <1>c, RevisionTypes DEF RestartDeployment
<1>6. CASE GithubWebhook(a)  BY <1>6, <1>b, <1>c, <1>d, RevisionTypes DEF GithubWebhook
<1>7. CASE StopDeployment(a)
  <2>1. row' \in Deployment /\ revs' = revs /\ Begins(a, "stop", "stopped") /\ UNCHANGED <<docker, builds, proxy, dumps>>
    BY <1>7, <1>b, <1>c DEF StopDeployment
  <2>. QED  BY <1>c, <1>f, <1>g, <1>h, <2>1, Frames, RowTypes
<1>8. CASE ForceStop(a)
  <2>1. row' \in Deployment /\ revs' = revs /\ Meanwhile /\ UNCHANGED <<builds, proxy, dumps, job>>
    BY <1>8, <1>b, <1>c DEF ForceStop
  <2>2. DockerOK'  BY <1>8 DEF ForceStop, StopContainers, DockerOK
  <2>. QED  BY <1>g, <2>1, <2>2, Frames, RowTypes
<1>9. CASE DeleteDeployment(a) \/ Sleep(a) \/ WakeProxy(a)
  <2>1. /\ UNCHANGED <<rows, docker, builds, proxy, dumps>>
        /\ Begins(a, "delete", row.state) \/ Begins(a, "sleep", row.state) \/ Provision(a)
    BY <1>9 DEF DeleteDeployment, Sleep, WakeProxy
  <2>2. JobsOK' /\ HistOK' /\ asked' = asked + 1  BY <1>a, <1>f, <1>g, <1>h, <2>1
  <2>3. row' = row /\ revs' = revs  BY <2>1 DEF rows
  <2>. QED  BY <1>a, <2>1, <2>2, <2>3, Frames, RowTypes
<1>10. CASE AttachDomain(a) \/ VerifyDomain(a) \/ DetachDomain(a)
  <2>1. UNCHANGED <<rows, docker, builds, dumps, job>> /\ Meanwhile
    BY <1>10 DEF AttachDomain, VerifyDomain, DetachDomain
  <2>2. ProxyOK'
    BY <1>10, <1>a DEF AttachDomain, VerifyDomain, DetachDomain, ProxyOK, DnsAnswer, RegisterRoute, UnregisterRoute
  <2>3. row' = row /\ revs' = revs  BY <2>1 DEF rows
  <2>. QED  BY <1>a, <1>g, <2>1, <2>2, <2>3, Frames, RowTypes
<1>11. CASE TakeSnapshot(a)
  <2>. DEFINE j == [Nothing EXCEPT !.pc = "tar", !.seen = row.state, !.old = box, !.new = made]
  <2>1. j \in Job  BY <1>a, <1>f, NothingType DEF Job, DockerOK
  <2>2. job' = [job EXCEPT ![a] = j] /\ Meanwhile /\ UNCHANGED <<rows, docker, builds, proxy, dumps>>
    BY <1>11 DEF TakeSnapshot
  <2>3. JobsOK'  BY <2>1, <2>2 DEF JobsOK
  <2>4. row' = row /\ revs' = revs  BY <2>2 DEF rows
  <2>. QED  BY <1>a, <1>g, <2>2, <2>3, <2>4, Frames, RowTypes
<1>12. CASE RestoreSnapshot(a)
  <2>1. UNCHANGED <<rows, builds, proxy, dumps, job>> /\ Meanwhile  BY <1>12 DEF RestoreSnapshot
  <2>2. DockerOK'  BY <1>12 DEF RestoreSnapshot, RestoreAgent, DockerOK
  <2>3. row' = row /\ revs' = revs  BY <2>1 DEF rows
  <2>. QED  BY <1>a, <1>g, <2>1, <2>2, <2>3, Frames, RowTypes
<1>. QED
  BY <1>1, <1>2, <1>3, <1>4, <1>5, <1>6, <1>7, <1>8, <1>9, <1>10, <1>11, <1>12, <1>d DEF DeploymentRequest

LEMMA ThreadTypes ==
    ASSUME HostTypes, NEW a \in Actors, DeploymentNext(a)
    PROVE  HostTypes'
<1>. USE DEF HostTypes
<1>a. row.state \in DeploymentState /\ row \in Deployment /\ job[a].seen \in DeploymentState
  BY DEF RowsOK, Deployment, JobsOK, Job
<1>b. \A s \in DeploymentState : SetState(s) \in Deployment  BY StateType
<1>c. {"suspended", "deleted"} \subseteq DeploymentState  BY DEF DeploymentState
<1>d. /\ \A pc \in {"stopped", "deleted", "slept"} : GoesTo(a, pc) => JobsOK'
      /\ Ends(a) => JobsOK'
  BY JobKinds DEF Pc
<1>e. AgentStop(a) => box' \subseteq Container /\ HistOK' /\ asked' = asked
  <2>1. CASE StopContainers /\ UNCHANGED hist  BY <2>1, Frames DEF StopContainers, hist
  <2>2. CASE Upset /\ UNCHANGED <<box, ran, asked>>  BY <2>2, HostingAssumption DEF Upset, HistOK, DockerOK
  <2>. QED  BY <2>1, <2>2 DEF AgentStop
<1>1. CASE StopAgent(a)
  <2>1. DockerOK'  BY <1>1, <1>e DEF StopAgent, DockerOK
  <2>2. row' = row /\ revs' = revs  BY <1>1 DEF StopAgent, rows
  <2>. QED  BY <1>1, <1>a, <1>d, <1>e, <2>1, <2>2, Frames, RowTypes DEF StopAgent
<1>2. CASE StopCommit(a)
  <2>1. row' \in Deployment  BY <1>2, <1>a, <1>b, <1>c DEF StopCommit, Written
  <2>2. asked' = asked  BY <1>2 DEF StopCommit, hist
  <2>. QED  BY <1>2, <1>d, <2>1, <2>2, Frames, RowTypes DEF StopCommit
<1>3. CASE DeleteAgent(a)
  <2>1. DockerOK'  BY <1>3, <1>e DEF DeleteAgent, DockerOK, DeleteVolume
  <2>2. ProxyOK'  BY <1>3 DEF DeleteAgent, ProxyOK, UnregisterRoute
  <2>3. row' = row /\ revs' = revs  BY <1>3 DEF DeleteAgent, rows
  <2>. QED  BY <1>3, <1>a, <1>d, <1>e, <2>1, <2>2, <2>3, Frames, RowTypes DEF DeleteAgent
<1>4. CASE DeleteCommit(a)
  <2>1. row' \in Deployment /\ revs' = <<>> /\ asked' = asked /\ UNCHANGED <<docker, builds, dumps, hist>>
    BY <1>4, <1>b, <1>c DEF DeleteCommit, hist
  <2>2. RowsOK'
    <3>1. <<>> \in Seq(Revision) /\ Len(<<>>) = 0  OBVIOUS
    <3>2. asked' >= 0  BY <2>1 DEF HistOK
    <3>. QED  BY <2>1, <3>1, <3>2 DEF RowsOK
  <2>3. ProxyOK'  BY <1>4 DEF DeleteCommit, ProxyOK
  <2>4. JobsOK'  BY <1>4, <1>d DEF DeleteCommit
  <2>. QED  BY <2>1, <2>2, <2>3, <2>4, Frames
<1>5. CASE SleepStop(a)
  <2>1. row' = row /\ revs' = revs  BY <1>5 DEF SleepStop, rows
  <2>2. JobsOK'  BY <1>5, <1>d DEF SleepStop
  <2>3. HistOK' /\ asked' = asked  BY <1>5, <1>e, Frames DEF SleepStop, hist
  <2>4. DockerOK'  BY <1>5, <1>e DEF SleepStop, DockerOK
  <2>. QED  BY <1>5, <1>a, <2>1, <2>2, <2>3, <2>4, Frames, RowTypes DEF SleepStop
<1>6. CASE SleepCommit(a)
  <2>1. row' \in Deployment  BY <1>6, <1>a, <1>b, <1>c DEF SleepCommit
  <2>2. asked' = asked  BY <1>6 DEF SleepCommit, hist
  <2>3. ProxyOK'  BY <1>6 DEF SleepCommit, ProxyOK, RegisterFallback
  <2>. QED  BY <1>6, <1>d, <2>1, <2>2, <2>3, Frames, RowTypes DEF SleepCommit
<1>7. CASE SnapshotTar(a)
  <2>1. row' = row /\ revs' = revs /\ asked' = asked  BY <1>7 DEF SnapshotTar, rows, hist
  <2>2. DumpsOK'
    <3>1. \A t \in BOOLEAN : [of |-> job[a].seen, torn |-> t] \in [of : DeploymentState, torn : BOOLEAN]  BY <1>a
    <3>2. (job[a].old # {} \/ box # {} \/ made # job[a].new) \in BOOLEAN  OBVIOUS
    <3>3. CASE snap' = snap  BY <1>7, <3>3 DEF SnapshotTar, DumpsOK
    <3>4. CASE snap' # snap
      <4>1. snap' \in [of : DeploymentState, torn : BOOLEAN]  BY <1>7, <3>1, <3>2, <3>4 DEF SnapshotTar
      <4>. QED  BY <1>7, <4>1 DEF SnapshotTar, DumpsOK
    <3>. QED  BY <3>3, <3>4
  <2>. QED  BY <1>7, <1>a, <1>d, <2>1, <2>2, Frames, RowTypes DEF SnapshotTar
<1>. QED  BY <1>1, <1>2, <1>3, <1>4, <1>5, <1>6, <1>7 DEF DeploymentNext

LEMMA DatabaseTypes ==
    ASSUME HostTypes, NEW a \in Actors, DatabaseRequest(a)
    PROVE  HostTypes'
<1>. USE DEF HostTypes
<1>a. row.state \in DeploymentState /\ row \in Deployment  BY DEF RowsOK, Deployment
<1>b. {"none", "created", "building"} \subseteq DeploymentState /\ None \in Env  BY DEF DeploymentState, Env
<1>c. /\ Provision(a) => JobsOK' /\ HistOK' /\ asked' = asked + 1
      /\ Begins(a, "stop", row.state) => JobsOK' /\ HistOK' /\ asked' = asked + 1
      /\ Begins(a, "delete", row.state) => JobsOK' /\ HistOK' /\ asked' = asked + 1
  BY <1>a, <1>b, JobKinds, HistKinds DEF Provision, Pc
<1>1. CASE CreateDatabase(a)
  <2>1. row' \in Deployment  BY <1>1, <1>b DEF CreateDatabase, Deployment
  <2>. QED  BY <1>1, <1>c, <2>1, Frames, RowTypes DEF CreateDatabase
<1>2. ASSUME NEW env \in Env, CreateDeployment(a, "image", env) PROVE HostTypes'
  <2>1. row' \in Deployment  BY <1>2, <1>b DEF CreateDeployment, Deployment
  <2>. QED  BY <1>2, <1>b, <2>1, RevisionTypes DEF CreateDeployment
<1>3. CASE StartDatabase(a) \/ RestartDatabase(a)
  <2>1. row' = SetState("building") /\ Provision(a) /\ UNCHANGED <<revs, docker, builds, proxy, dumps>>
    BY <1>3 DEF StartDatabase, RestartDatabase
  <2>2. row' \in Deployment  BY <1>b, <2>1, StateType
  <2>. QED  BY <1>c, <2>1, <2>2, Frames, RowTypes
<1>4. CASE StopDatabase(a) \/ DeleteDatabase(a)
  <2>1. /\ UNCHANGED <<rows, docker, builds, proxy, dumps>>
        /\ Begins(a, "stop", row.state) \/ Begins(a, "delete", row.state)
    BY <1>4 DEF StopDatabase, DeleteDatabase
  <2>2. row' = row /\ revs' = revs  BY <2>1 DEF rows
  <2>. QED  BY <1>a, <1>c, <2>1, <2>2, Frames, RowTypes
<1>5. CASE TriggerBackup(a)
  <2>1. DumpsOK'  BY <1>5 DEF TriggerBackup, DumpsOK
  <2>. QED  BY <1>5, <2>1, Frames DEF TriggerBackup, hist
<1>. QED  BY <1>1, <1>2, <1>3, <1>4, <1>5 DEF DatabaseRequest, DeployTemplate

\* What the agent's builds, the scheduler and time do has no part in what follows.
Apart == DispatchBackup \/ DayPasses \/ AgentRestarts \/ \E a \in Actors : BuildStarts(a) \/ BuildEnds(a)

LEMMA ApartTypes ==
    ASSUME HostTypes, Apart
    PROVE  HostTypes' /\ UNCHANGED <<rows, docker, proxy, snap, job, hist>>
<1>. USE DEF HostTypes
<1>1. UNCHANGED <<rows, docker, proxy, snap, job, hist>>
  BY DEF Apart, DispatchBackup, DayPasses, AgentRestarts, BuildStarts, BuildEnds, dumps
<1>2. DumpsOK'
  BY <1>1, Frames DEF Apart, DispatchBackup, DayPasses, AgentRestarts, BuildStarts, BuildEnds, dumps, DumpsOK
<1>3. BuildsOK'
  <2>1. CASE DispatchBackup \/ DayPasses  BY <2>1, Frames DEF DispatchBackup, DayPasses
  <2>2. CASE AgentRestarts  BY <2>2 DEF AgentRestarts, BuildsOK
  <2>3. ASSUME NEW a \in Actors, BuildStarts(a) \/ BuildEnds(a) PROVE BuildsOK'
    BY <2>3 DEF BuildStarts, BuildEnds, Built, BuildsOK
  <2>. QED  BY <2>1, <2>2, <2>3 DEF Apart
<1>. QED  BY <1>1, <1>2, <1>3, Frames DEF hist

LEMMA HostTypesInit == HostingInit => HostTypes
<1>. SUFFICES ASSUME HostingInit PROVE HostTypes  OBVIOUS
<1>1. RowsOK
  <2>1. row \in Deployment  BY DEF HostingInit, Deployment, DeploymentState, Env
  <2>2. revs = <<>> /\ asked = 0  BY DEF HostingInit
  <2>. QED  BY <2>1, <2>2 DEF RowsOK
<1>2. JobsOK  BY NothingType DEF HostingInit, JobsOK
<1>3. DockerOK /\ BuildsOK /\ ProxyOK /\ DumpsOK
  BY DEF HostingInit, DockerOK, BuildsOK, ProxyOK, DumpsOK
<1>4. HistOK  BY HostingAssumption DEF HostingInit, HistOK
<1>. QED  BY <1>1, <1>2, <1>3, <1>4 DEF HostTypes

LEMMA HostTypesStep == HostTypes /\ [HostingNext]_hvars => HostTypes'
<1>. SUFFICES ASSUME HostTypes, [HostingNext]_hvars PROVE HostTypes'  OBVIOUS
<1>1. CASE UNCHANGED hvars  BY <1>1, Frames DEF hvars, hist, HostTypes
<1>2. CASE HostingNext
  BY <1>2, ProvisionTypes, DeploymentTypes, ThreadTypes, DatabaseTypes, ApartTypes DEF HostingNext, Apart
<1>. QED  BY <1>1, <1>2

LEMMA HostTypesAlways == HostingSpec => []HostTypes
BY HostTypesInit, HostTypesStep, PTL DEF HostingSpec

\* The variables of Hosting have their types, for any number of threads, requests and
\* environments: no state is written that DeploymentState does not have.
THEOREM HostingTyped == HostingSpec => []HostingTypeOK
<1>1. HostTypes => HostingTypeOK
  <2>. SUFFICES ASSUME HostTypes PROVE HostingTypeOK  OBVIOUS
  <2>1. Len(revs) <= MaxRequests  BY HostingAssumption DEF HostTypes, RowsOK, HistOK
  <2>. QED  BY <2>1 DEF HostTypes, HostingTypeOK, RowsOK, DockerOK, BuildsOK, ProxyOK, DumpsOK, JobsOK, HistOK
<1>. QED  BY <1>1, HostTypesAlways, PTL

-----------------------------------------------------------------------------
(* One thread at a time.                                                     *)

LEMMA JobFacts ==
    ASSUME JobsOK, NEW a \in Actors
    PROVE  /\ \A pc : GoesTo(a, pc) =>
                 /\ job'[a].pc = pc /\ job'[a].seen = job[a].seen /\ job'[a].env = job[a].env
                 /\ job'[a].rev = job[a].rev /\ job'[a].old = job[a].old /\ job'[a].new = job[a].new
                 /\ \A b \in Actors \ {a} : job'[b] = job[b]
           /\ Ends(a) => job'[a] = Nothing /\ \A b \in Actors \ {a} : job'[b] = job[b]
           /\ \A pc, s : Begins(a, pc, s) =>
                 /\ job'[a].pc = pc /\ job'[a].seen = s /\ \A b \in Actors \ {a} : job'[b] = job[b]
<1>1. job[a] \in Job  BY DEF JobsOK
<1>2. ASSUME NEW pc, GoesTo(a, pc)
      PROVE  /\ job'[a].pc = pc /\ job'[a].seen = job[a].seen /\ job'[a].env = job[a].env
             /\ job'[a].rev = job[a].rev /\ job'[a].old = job[a].old /\ job'[a].new = job[a].new
             /\ \A b \in Actors \ {a} : job'[b] = job[b]
  <2>1. job'[a] = [job[a] EXCEPT !.pc = pc] /\ \A b \in Actors \ {a} : job'[b] = job[b]  BY <1>2 DEF GoesTo, JobsOK
  <2>. QED  BY <1>1, <2>1 DEF Job
<1>3. Ends(a) => job'[a] = Nothing /\ \A b \in Actors \ {a} : job'[b] = job[b]  BY DEF Ends, JobsOK
<1>4. ASSUME NEW pc, NEW s, Begins(a, pc, s)
      PROVE  job'[a].pc = pc /\ job'[a].seen = s /\ \A b \in Actors \ {a} : job'[b] = job[b]
  <2>1. job'[a] = [Nothing EXCEPT !.pc = pc, !.seen = s] /\ \A b \in Actors \ {a} : job'[b] = job[b]
    BY <1>4 DEF Begins, JobsOK
  <2>. QED  BY <2>1 DEF Nothing
<1>. QED  BY <1>2, <1>3, <1>4

LEMMA BusyPc ==
    ASSUME NEW a \in Actors, job[a].pc # "idle"
    PROVE  ~Idle(a)
BY DEF Idle, Nothing

\* What a step of a thread owes to CalmInv.
Leaves(a) == RouteInv' /\ (job'[a] = Nothing => AtRest') /\ (job'[a] # Nothing => Phase(a)')

LEMMA CalmThread ==
    ASSUME CalmInv, NEW a \in Actors, job[a].pc # "idle", Calm' => Calm, \A b \in Actors \ {a} : job'[b] = job[b],
           Calm /\ Calm' /\ RouteInv /\ Phase(a) => Leaves(a)
    PROVE  CalmInv'
<1>. SUFFICES ASSUME Calm'
              PROVE  /\ RouteInv'
                     /\ \A b, c \in Actors : ~Idle(b)' /\ ~Idle(c)' => b = c
                     /\ \A b \in Actors : ~Idle(b)' => Phase(b)'
                     /\ Quiet' => AtRest'
  BY DEF CalmInv
<1>1. Calm /\ RouteInv /\ Phase(a) /\ ~Idle(a)  BY BusyPc DEF CalmInv
<1>2. Leaves(a)  BY <1>1
<1>3. \A b \in Actors \ {a} : Idle(b)  BY <1>1 DEF CalmInv
<1>4. \A b \in Actors \ {a} : Idle(b)'  BY <1>3 DEF Idle
<1>5. Idle(a)' <=> job'[a] = Nothing  BY DEF Idle
<1>. QED  BY <1>2, <1>4, <1>5 DEF Leaves, Quiet

LEMMA CalmRequest ==
    ASSUME CalmInv, NEW a \in Actors, Calm' => Calm /\ Quiet, \A b \in Actors \ {a} : job'[b] = job[b],
           Calm /\ Calm' /\ RouteInv /\ AtRest => Leaves(a)
    PROVE  CalmInv'
<1>. SUFFICES ASSUME Calm'
              PROVE  /\ RouteInv'
                     /\ \A b, c \in Actors : ~Idle(b)' /\ ~Idle(c)' => b = c
                     /\ \A b \in Actors : ~Idle(b)' => Phase(b)'
                     /\ Quiet' => AtRest'
  BY DEF CalmInv
<1>1. Calm /\ RouteInv /\ AtRest /\ Quiet  BY DEF CalmInv
<1>2. Leaves(a)  BY <1>1
<1>3. \A b \in Actors \ {a} : Idle(b)'  BY <1>1 DEF Idle, Quiet
<1>4. Idle(a)' <=> job'[a] = Nothing  BY DEF Idle
<1>. QED  BY <1>2, <1>3, <1>4 DEF Leaves, Quiet

\* A thread's pc when it is not idle.
LEMMA Working ==
    ASSUME NEW j, j.pc # "idle"
    PROVE  j # Nothing
BY DEF Nothing

LEMMA ProvisionCalm ==
    ASSUME HostTypes, IdsInv, CalmInv, NEW a \in Actors, ProvisionNext(a) \/ PollLost(a)
    PROVE  CalmInv'
<1>. DEFINE Others == \A b \in Actors \ {a} : job'[b] = job[b]
            Owes == Calm /\ Calm' /\ RouteInv /\ Phase(a) => Leaves(a)
<1>a. JobsOK /\ row \in Deployment /\ job[a] \in Job  BY DEF HostTypes, RowsOK, JobsOK
<1>b. /\ \A pc : GoesTo(a, pc) =>
            /\ job'[a].pc = pc /\ job'[a].seen = job[a].seen /\ job'[a].env = job[a].env
            /\ job'[a].rev = job[a].rev /\ job'[a].old = job[a].old /\ job'[a].new = job[a].new
            /\ Others
      /\ Ends(a) => job'[a] = Nothing /\ Others
  BY <1>a, JobFacts
<1>c. \A s : SetState(s).state = s /\ SetState(s).kind = row.kind /\ SetState(s).env = row.env /\ SetState(s).port = row.port
  BY <1>a DEF SetState, Deployment
<1>1. CASE Load(a)
  <2>. DEFINE pc == IF row.kind = "app" /\ row.src = "github" THEN "post" ELSE "list"
              j == [job[a] EXCEPT !.seen = row.state, !.env = row.env, !.rev = Len(revs), !.pc = pc]
  <2>1. UNCHANGED <<rows, docker, proxy, hist>> /\ job[a].pc = "load"  BY <1>1 DEF Load, At
  <2>2. Exists => job' = [job EXCEPT ![a] = j]  BY <1>1 DEF Load
  <2>3. j.seen = row.state /\ j.env = row.env /\ j.rev = Len(revs) /\ j.pc \in {"post", "list"}  BY <1>a DEF Job
  <2>. HIDE DEF j
  <2>4. Others /\ (Exists => job'[a] = j)  BY <1>1, <1>a, <1>b, <2>2 DEF Load, JobsOK
  <2>5. Owes
    <3>. SUFFICES ASSUME RouteInv, Phase(a) PROVE Leaves(a)  OBVIOUS
    <3>1. Exists /\ Exists'  BY <2>1 DEF Phase, Exists, rows
    <3>2. job'[a] # Nothing  BY <2>3, <2>4, <3>1, Working
    <3>3. Phase(a)'  BY <2>1, <2>3, <2>4, <3>1 DEF Phase, Known, rows, Loaded
    <3>4. RouteInv'  BY <2>1 DEF RouteInv, proxy
    <3>. QED  BY <3>2, <3>3, <3>4 DEF Leaves
  <2>6. Calm' => Calm  BY <2>1 DEF Calm, hist
  <2>. QED  BY <2>1, <2>4, <2>5, <2>6, CalmThread
<1>2. CASE PostBuild(a) \/ PollLost(a)
  <2>1. /\ UNCHANGED <<rows, docker, proxy, hist>> /\ job[a].pc \in {"post", "poll"}
        /\ GoesTo(a, "poll") \/ GoesTo(a, "fail")
    BY <1>2 DEF PostBuild, PollLost, At
  <2>2. Owes
    <3>. SUFFICES ASSUME RouteInv, Phase(a) PROVE Leaves(a)  OBVIOUS
    <3>1. Exists'  BY <2>1 DEF Phase, Exists, rows
    <3>2. job'[a] # Nothing  BY <1>b, <2>1, Working
    <3>3. Phase(a)'  BY <1>b, <2>1, <3>1 DEF Phase, Known, rows, Loaded
    <3>4. RouteInv'  BY <2>1 DEF RouteInv, proxy
    <3>. QED  BY <3>2, <3>3, <3>4 DEF Leaves
  <2>3. Calm' => Calm  BY <2>1 DEF Calm, hist
  <2>. QED  BY <1>b, <2>1, <2>2, <2>3, CalmThread
<1>3. CASE Poll(a)
  <2>1. UNCHANGED <<docker, proxy, hist>> /\ job[a].pc = "poll" /\ Exists  BY <1>3 DEF Poll, At
  <2>2. Others  BY <1>3, <1>a DEF Poll, JobsOK
  <2>3. Owes
    <3>. SUFFICES ASSUME RouteInv, Phase(a) PROVE Leaves(a)  OBVIOUS
    <3>. DEFINE commits == job[a].seen # "building" \/ build = "success"
                known == IF commits THEN row' ELSE [state |-> job[a].seen, env |-> job[a].env]
                j == [job[a] EXCEPT !.pc = Polled(build), !.seen = known.state, !.env = known.env]
    <3>1. Known(a)  BY <2>1 DEF Phase, Loaded
    <3>2. row'.state = "building" /\ row'.env = row.env
      BY <1>3, <1>c, <3>1 DEF Poll, Known
    <3>3. known.state = row'.state /\ known.env = row'.env  BY <3>1, <3>2 DEF Known
    <3>4. job'[a] = j  BY <1>3, <1>a DEF Poll, JobsOK
    <3>. HIDE DEF known
    <3>5. j.pc \in {"list", "fail", "poll"} /\ j.seen = row'.state /\ j.env = row'.env /\ j.rev = job[a].rev
      BY <1>a, <3>3 DEF Job, Polled
    <3>. HIDE DEF j
    <3>6. Len(revs') = Len(revs)
      <4>1. revs' = revs \/ revs' = [revs EXCEPT ![job[a].rev] = Tagged(revs[job[a].rev])]  BY <1>3 DEF Poll
      <4>2. revs \in Seq(Revision)  BY DEF HostTypes, RowsOK
      <4>3. \A r \in Revision : Tagged(r) \in Revision  BY DEF Tagged, Revision, DeploymentState
      <4>4. \A i \in DOMAIN revs : revs[i] \in Revision  BY <4>2
      <4>. QED  BY <4>1, <4>2, <4>3, <4>4, RevisionSet
    <3>7. job'[a] # Nothing  BY <3>4, <3>5, Working
    <3>8. Exists'  BY <3>2 DEF Exists
    <3>9. Phase(a)'  BY <3>1, <3>4, <3>5, <3>6, <3>8 DEF Phase, Known, Loaded
    <3>10. RouteInv'  BY <2>1 DEF RouteInv, proxy
    <3>. QED  BY <3>7, <3>9, <3>10 DEF Leaves
  <2>4. Calm' => Calm  BY <2>1 DEF Calm, hist
  <2>. QED  BY <2>1, <2>2, <2>3, <2>4, CalmThread
<1>4. CASE StartList(a)
  <2>. DEFINE j == [job[a] EXCEPT !.pc = "run", !.old = box]
  <2>1. UNCHANGED <<rows, box, made, proxy, hist>> /\ job[a].pc = "list"  BY <1>4 DEF StartList, At
  <2>2. job' = [job EXCEPT ![a] = j] \/ GoesTo(a, "fail")  BY <1>4 DEF StartList
  <2>3. j.pc = "run" /\ j.old = box /\ j.seen = job[a].seen /\ j.env = job[a].env /\ j.rev = job[a].rev
    BY <1>a DEF Job
  <2>. HIDE DEF j
  <2>4. /\ Others /\ job'[a].pc \in {"run", "fail"} /\ job'[a].seen = job[a].seen /\ job'[a].env = job[a].env
        /\ job'[a].rev = job[a].rev /\ (job'[a].pc = "run" => job'[a].old = box)
    <3>1. CASE GoesTo(a, "fail")  BY <3>1, <1>b
    <3>2. CASE job' = [job EXCEPT ![a] = j]
      <4>1. job'[a] = j /\ Others  BY <1>a, <3>2 DEF JobsOK
      <4>. QED  BY <4>1, <2>3
    <3>. QED  BY <2>2, <3>1, <3>2
  <2>5. Owes
    <3>. SUFFICES ASSUME RouteInv, Phase(a) PROVE Leaves(a)  OBVIOUS
    <3>1. Exists'  BY <2>1 DEF Phase, Exists, rows
    <3>2. job'[a] # Nothing  BY <2>4, Working
    <3>3. Phase(a)'  BY <2>1, <2>4, <3>1 DEF Phase, Known, rows, Loaded
    <3>4. RouteInv'  BY <2>1 DEF RouteInv, proxy
    <3>. QED  BY <3>2, <3>3, <3>4 DEF Leaves
  <2>6. Calm' => Calm  BY <2>1 DEF Calm, hist
  <2>. QED  BY <2>1, <2>4, <2>5, <2>6, CalmThread
<1>5. CASE StartRun(a)
  <2>. DEFINE j == [job[a] EXCEPT !.pc = "wait", !.new = made + 1]
              c == [id |-> made + 1, env |-> job[a].env]
  <2>1. UNCHANGED <<rows, proxy, hist>> /\ job[a].pc = "run"  BY <1>5 DEF StartRun, At
  <2>2. \/ job' = [job EXCEPT ![a] = j] /\ box' = box \cup {c}
        \/ GoesTo(a, "fail")
    BY <1>5 DEF StartRun
  <2>3. /\ j.pc = "wait" /\ j.old = job[a].old /\ j.seen = job[a].seen /\ j.env = job[a].env /\ j.rev = job[a].rev
        /\ j.new = made + 1
    BY <1>a DEF Job
  <2>. HIDE DEF j
  <2>4. CASE GoesTo(a, "fail")
    <3>1. Owes
      <4>. SUFFICES ASSUME RouteInv, Phase(a) PROVE Leaves(a)  OBVIOUS
      <4>1. Exists'  BY <2>1 DEF Phase, Exists, rows
      <4>2. job'[a] # Nothing  BY <1>b, <2>4, Working
      <4>3. Phase(a)'  BY <1>b, <2>1, <2>4, <4>1 DEF Phase, Known, rows, Loaded
      <4>4. RouteInv'  BY <2>1 DEF RouteInv, proxy
      <4>. QED  BY <4>2, <4>3, <4>4 DEF Leaves
    <3>2. Calm' => Calm  BY <2>1 DEF Calm, hist
    <3>. QED  BY <1>b, <2>1, <2>4, <3>1, <3>2, CalmThread
  <2>5. CASE job' = [job EXCEPT ![a] = j] /\ box' = box \cup {c}
    <3>1. Others /\ job'[a] = j  BY <1>a, <2>5 DEF JobsOK
    <3>2. Owes
      <4>. SUFFICES ASSUME RouteInv, Phase(a) PROVE Leaves(a)  OBVIOUS
      <4>1. Exists' /\ row' = row /\ revs' = revs  BY <2>1 DEF Phase, Exists, rows
      <4>2. job'[a] # Nothing  BY <2>3, <3>1, Working
      <4>3. Known(a) /\ job[a].old = box  BY <2>1 DEF Phase, Loaded
      <4>4. New(a)' = c  BY <2>3, <3>1, <4>1, <4>3 DEF New, Known
      <4>5. c \notin box
        <5>1. c.id = made + 1 /\ made \in Nat  BY DEF HostTypes, DockerOK
        <5>. QED  BY <5>1 DEF IdsInv
      <4>6. Known(a)'  BY <2>3, <3>1, <4>1, <4>3 DEF Known
      <4>7. Phase(a)'  BY <2>3, <2>5, <3>1, <4>1, <4>3, <4>4, <4>5, <4>6 DEF Phase
      <4>8. RouteInv'  BY <2>1 DEF RouteInv, proxy
      <4>. QED  BY <4>2, <4>7, <4>8 DEF Leaves
    <3>3. Calm' => Calm  BY <2>1 DEF Calm, hist
    <3>. QED  BY <2>1, <3>1, <3>2, <3>3, CalmThread
  <2>. QED  BY <2>2, <2>4, <2>5
<1>6. CASE StartWait(a)
  <2>1. UNCHANGED <<rows, proxy, upsets>> /\ job[a].pc = "wait"  BY <1>6 DEF StartWait, At
  <2>2. (GoesTo(a, "commit") /\ box' = box \ job[a].old) \/ GoesTo(a, "fail")  BY <1>6 DEF StartWait
  <2>3. Owes
    <3>. SUFFICES ASSUME RouteInv, Phase(a) PROVE Leaves(a)  OBVIOUS
    <3>1. Exists' /\ row' = row /\ revs' = revs  BY <2>1 DEF Phase, Exists, rows
    <3>2. job'[a] # Nothing  BY <1>b, <2>2, Working
    <3>3. Known(a) /\ New(a) \notin job[a].old /\ box = job[a].old \cup {New(a)}  BY <2>1 DEF Phase, Loaded
    <3>4. Known(a)' /\ New(a)' = New(a)  BY <1>b, <2>2, <3>1, <3>3 DEF Known, New
    <3>5. box \ job[a].old = {New(a)}  BY <3>3
    <3>6. Phase(a)'
      <4>1. CASE GoesTo(a, "commit") /\ box' = box \ job[a].old  BY <1>b, <3>1, <3>4, <3>5, <4>1 DEF Phase
      <4>2. CASE GoesTo(a, "fail")  BY <1>b, <3>1, <3>4, <4>2 DEF Phase
      <4>. QED  BY <2>2, <4>1, <4>2
    <3>7. RouteInv'  BY <2>1 DEF RouteInv, proxy
    <3>. QED  BY <3>2, <3>6, <3>7 DEF Leaves
  <2>4. Calm' => Calm  BY <2>1 DEF Calm
  <2>. QED  BY <1>b, <2>1, <2>2, <2>3, <2>4, CalmThread
<1>7. CASE Commit(a)
  <2>1. /\ UNCHANGED <<docker, proxy, hist>> /\ job[a].pc = "commit" /\ App /\ GoesTo(a, "route")
        /\ row' = [row EXCEPT !.state = Written(a, "running"), !.port = job[a].new]
    BY <1>7 DEF Commit, At
  <2>2. Owes
    <3>. SUFFICES ASSUME RouteInv, Phase(a) PROVE Leaves(a)  OBVIOUS
    <3>1. Known(a) /\ box = {New(a)}  BY <2>1 DEF Phase, Loaded
    <3>2. Written(a, "running") = "running"  BY <3>1 DEF Written, Known
    <3>3. row'.state = "running" /\ row'.port = job[a].new /\ row'.env = row.env /\ row'.kind = "app"
      BY <1>a, <2>1, <3>2 DEF App, Deployment
    <3>4. New(a)' = New(a) /\ Exists' /\ UNCHANGED box  BY <1>b, <2>1, <3>3 DEF New, Exists, docker
    <3>5. job'[a] # Nothing  BY <1>b, <2>1, Working
    <3>6. Phase(a)'  BY <1>b, <2>1, <3>1, <3>3, <3>4 DEF Phase, Loaded
    <3>7. RouteInv'  BY <2>1 DEF RouteInv, proxy
    <3>. QED  BY <3>5, <3>6, <3>7 DEF Leaves
  <2>3. Calm' => Calm  BY <2>1 DEF Calm, hist
  <2>. QED  BY <1>b, <2>1, <2>2, <2>3, CalmThread
<1>8. CASE CommitDatabase(a)
  <2>1. /\ UNCHANGED <<docker, proxy, hist>> /\ Db /\ Ends(a)
        /\ \/ job[a].pc = "commit" /\ row' = SetState(Written(a, "running"))
           \/ job[a].pc = "fail" /\ row' = SetState(Written(a, "error"))
    BY <1>8 DEF CommitDatabase, At
  <2>2. Owes
    <3>. SUFFICES ASSUME RouteInv, Phase(a) PROVE Leaves(a)  OBVIOUS
    <3>1. Known(a) /\ (job[a].pc = "commit" => box = {New(a)})  BY <2>1 DEF Phase, Loaded
    <3>2. Written(a, "running") = "running" /\ Written(a, "error") = "error"  BY <3>1 DEF Written, Known
    <3>3. (row'.state = "running" /\ box' = {New(a)}) \/ row'.state = "error"  BY <1>c, <2>1, <3>1, <3>2 DEF docker
    <3>4. row'.kind # "app"  BY <1>c, <2>1 DEF Db
    <3>5. AtRest'  BY <3>3, <3>4 DEF AtRest, RunsOne
    <3>6. RouteInv'  BY <2>1 DEF RouteInv, proxy
    <3>. QED  BY <1>b, <2>1, <3>5, <3>6 DEF Leaves
  <2>3. Calm' => Calm  BY <2>1 DEF Calm, hist
  <2>. QED  BY <1>b, <2>1, <2>2, <2>3, CalmThread
<1>9. CASE Route(a)
  <2>1. UNCHANGED <<rows, docker, dom, hist>> /\ job[a].pc = "route" /\ Ends(a) /\ (dom # "active" => route' = route)
    BY <1>9 DEF Route, At
  <2>2. Owes
    <3>. SUFFICES ASSUME RouteInv, Phase(a) PROVE Leaves(a)  OBVIOUS
    <3>1. row.state = "running" /\ row.kind = "app" /\ row.port = job[a].new /\ box = {New(a)}  BY <2>1 DEF Phase
    <3>2. RunsOne  BY <3>1 DEF RunsOne, New
    <3>3. RunsOne' /\ row' = row  BY <2>1, <3>2 DEF RunsOne, rows, docker
    <3>4. AtRest'  BY <3>1, <3>3 DEF AtRest
    <3>5. RouteInv'
      <4>1. CASE dom = "active"
        <5>1. dom' = "active" /\ dom' # None  BY <2>1, <4>1, HostingAssumption
        <5>. QED  BY <5>1 DEF RouteInv
      <4>2. CASE dom # "active"  BY <2>1, <4>2 DEF RouteInv
      <4>. QED  BY <4>1, <4>2
    <3>. QED  BY <1>b, <2>1, <3>4, <3>5 DEF Leaves
  <2>3. Calm' => Calm  BY <2>1 DEF Calm, hist
  <2>. QED  BY <1>b, <2>1, <2>2, <2>3, CalmThread
<1>10. CASE Fail(a)
  <2>1. /\ UNCHANGED <<docker, proxy, hist>> /\ Ends(a) /\ job[a].pc = "fail" /\ row' = SetState(Written(a, "error"))
    BY <1>10 DEF Fail, At
  <2>2. Owes
    <3>. SUFFICES ASSUME RouteInv, Phase(a) PROVE Leaves(a)  OBVIOUS
    <3>1. Known(a)  BY <2>1 DEF Phase, Loaded
    <3>2. row'.state = "error"  BY <1>c, <2>1, <3>1 DEF Written, Known
    <3>3. AtRest'  BY <3>2 DEF AtRest
    <3>4. RouteInv'  BY <2>1 DEF RouteInv, proxy
    <3>. QED  BY <1>b, <2>1, <3>3, <3>4 DEF Leaves
  <2>3. Calm' => Calm  BY <2>1 DEF Calm, hist
  <2>. QED  BY <1>b, <2>1, <2>2, <2>3, CalmThread
<1>11. CASE RowGone(a)
  <2>1. UNCHANGED hist /\ job[a].pc # "idle" /\ ~Exists /\ Ends(a)  BY <1>11 DEF RowGone
  <2>2. Owes  BY <2>1 DEF Phase
  <2>3. Calm' => Calm  BY <2>1 DEF Calm, hist
  <2>. QED  BY <1>b, <2>1, <2>2, <2>3, CalmThread
<1>. QED
  BY <1>1, <1>2, <1>3, <1>4, <1>5, <1>6, <1>7, <1>8, <1>9, <1>10, <1>11 DEF ProvisionNext

\* A call of the agent's stop that is not lost.
LEMMA AgentStops ==
    ASSUME HistOK, NEW a, AgentStop(a), Calm'
    PROVE  Calm /\ box' = {}
<1>1. upsets \in Nat  BY DEF HistOK
<1>2. CASE StopContainers /\ UNCHANGED hist  BY <1>2 DEF StopContainers, hist, Calm
<1>3. CASE Upset  BY <1>1, <1>3 DEF Upset, Calm
<1>. QED  BY <1>2, <1>3 DEF AgentStop

LEMMA ThreadCalm ==
    ASSUME HostTypes, CalmInv, NEW a \in Actors, DeploymentNext(a)
    PROVE  CalmInv'
<1>. DEFINE Others == \A b \in Actors \ {a} : job'[b] = job[b]
            Owes == Calm /\ Calm' /\ RouteInv /\ Phase(a) => Leaves(a)
<1>a. JobsOK /\ row \in Deployment /\ job[a] \in Job /\ HistOK  BY DEF HostTypes, RowsOK, JobsOK
<1>b. /\ \A pc : GoesTo(a, pc) => job'[a].pc = pc /\ job'[a].seen = job[a].seen /\ Others
      /\ Ends(a) => job'[a] = Nothing /\ Others
  BY <1>a, JobFacts
<1>c. \A s : SetState(s).state = s /\ SetState(s).kind = row.kind /\ SetState(s).env = row.env /\ SetState(s).port = row.port
  BY <1>a DEF SetState, Deployment
<1>1. CASE StopAgent(a)
  <2>1. AgentStop(a) /\ GoesTo(a, "stopped") /\ UNCHANGED <<rows, proxy>> /\ job[a].pc = "stop"
    BY <1>1 DEF StopAgent, At
  <2>2. Calm' => Calm /\ box' = {}  BY <1>a, <2>1, AgentStops
  <2>3. Owes
    <3>. SUFFICES ASSUME RouteInv, Phase(a), Calm' PROVE Leaves(a)  OBVIOUS
    <3>1. Exists' /\ row' = row  BY <2>1 DEF Phase, Exists, rows
    <3>2. Phase(a)'  BY <1>b, <2>1, <2>2, <3>1 DEF Phase, Loaded
    <3>3. RouteInv' /\ job'[a] # Nothing  BY <1>b, <2>1, Working DEF RouteInv, proxy
    <3>. QED  BY <3>2, <3>3 DEF Leaves
  <2>. QED  BY <1>b, <2>1, <2>2, <2>3, CalmThread
<1>2. CASE StopCommit(a)
  <2>1. /\ row' = (IF Exists THEN SetState(Written(a, "suspended")) ELSE row) /\ Ends(a)
        /\ UNCHANGED <<docker, proxy, hist>> /\ job[a].pc = "stopped"
    BY <1>2 DEF StopCommit, At
  <2>2. Owes
    <3>. SUFFICES ASSUME RouteInv, Phase(a) PROVE Leaves(a)  OBVIOUS
    <3>1. Exists /\ job[a].seen = row.state /\ box = {}  BY <2>1 DEF Phase
    <3>2. row'.state = "suspended" /\ box' = {}  BY <1>c, <2>1, <3>1 DEF Written, docker
    <3>3. AtRest' /\ RouteInv'  BY <2>1, <3>2 DEF AtRest, RouteInv, proxy
    <3>. QED  BY <1>b, <2>1, <3>3 DEF Leaves
  <2>3. Calm' => Calm  BY <2>1 DEF Calm, hist
  <2>. QED  BY <1>b, <2>1, <2>2, <2>3, CalmThread
<1>3. CASE DeleteAgent(a)
  <2>1. /\ AgentStop(a) /\ DeleteVolume /\ GoesTo(a, "deleted") /\ UNCHANGED <<rows, dom>> /\ job[a].pc = "delete"
        /\ IF dom = None THEN UNCHANGED route ELSE UnregisterRoute
    BY <1>3 DEF DeleteAgent, At
  <2>2. Calm' => Calm /\ box' = {}  BY <1>a, <2>1, AgentStops
  <2>3. Owes
    <3>. SUFFICES ASSUME RouteInv, Phase(a), Calm' PROVE Leaves(a)  OBVIOUS
    <3>1. Exists' /\ row' = row  BY <2>1 DEF Phase, Exists, rows
    <3>2. route' = None  BY <2>1 DEF RouteInv, UnregisterRoute
    <3>3. Faults = {} => ~vol'  BY <2>1 DEF DeleteVolume
    <3>4. Phase(a)'  BY <1>b, <2>1, <2>2, <3>1, <3>2, <3>3 DEF Phase, Loaded
    <3>5. RouteInv' /\ job'[a] # Nothing  BY <1>b, <2>1, <3>2, Working DEF RouteInv
    <3>. QED  BY <3>4, <3>5 DEF Leaves
  <2>. QED  BY <1>b, <2>1, <2>2, <2>3, CalmThread
<1>4. CASE DeleteCommit(a)
  <2>1. row' = SetState("deleted") /\ Ends(a) /\ UNCHANGED <<docker, route, hist>> /\ job[a].pc = "deleted"
    BY <1>4 DEF DeleteCommit, At
  <2>2. Owes
    <3>. SUFFICES ASSUME RouteInv, Phase(a) PROVE Leaves(a)  OBVIOUS
    <3>1. box = {} /\ route = None /\ (Faults = {} => ~vol)  BY <2>1 DEF Phase
    <3>2. row'.state = "deleted" /\ box' = {} /\ route' = None /\ (Faults = {} => ~vol')  BY <1>c, <2>1, <3>1 DEF docker
    <3>3. AtRest' /\ RouteInv'  BY <3>2 DEF AtRest, RouteInv
    <3>. QED  BY <1>b, <2>1, <3>3 DEF Leaves
  <2>3. Calm' => Calm  BY <2>1 DEF Calm, hist
  <2>. QED  BY <1>b, <2>1, <2>2, <2>3, CalmThread
<1>5. CASE SleepStop(a)
  <2>1. /\ UNCHANGED <<rows, made, vol, proxy>> /\ job[a].pc = "sleep"
        /\ (AgentStop(a) /\ GoesTo(a, "slept")) \/ (Ends(a) /\ UNCHANGED <<box, hist>>)
    BY <1>5 DEF SleepStop, At
  <2>2. CASE AgentStop(a) /\ GoesTo(a, "slept")
    <3>1. Calm' => Calm /\ box' = {}  BY <1>a, <2>2, AgentStops
    <3>2. Owes
      <4>. SUFFICES ASSUME RouteInv, Phase(a), Calm' PROVE Leaves(a)  OBVIOUS
      <4>1. Exists' /\ row' = row  BY <2>1 DEF Phase, Exists, rows
      <4>2. Phase(a)'  BY <1>b, <2>2, <3>1, <4>1 DEF Phase, Loaded
      <4>3. RouteInv' /\ job'[a] # Nothing  BY <1>b, <2>1, <2>2, Working DEF RouteInv, proxy
      <4>. QED  BY <4>2, <4>3 DEF Leaves
    <3>. QED  BY <1>b, <2>1, <2>2, <3>1, <3>2, CalmThread
  <2>3. CASE Ends(a) /\ UNCHANGED <<box, hist>>
    <3>1. Owes
      <4>. SUFFICES ASSUME RouteInv, Phase(a) PROVE Leaves(a)  OBVIOUS
      <4>1. row.state = "running" /\ RunsOne /\ row' = row  BY <2>1 DEF Phase, rows
      <4>2. RunsOne'  BY <2>3, <4>1 DEF RunsOne
      <4>3. AtRest' /\ RouteInv'  BY <2>1, <4>1, <4>2 DEF AtRest, RouteInv, proxy
      <4>. QED  BY <1>b, <2>3, <4>3 DEF Leaves
    <3>2. Calm' => Calm  BY <2>3 DEF Calm, hist
    <3>. QED  BY <1>b, <2>1, <2>3, <3>1, <3>2, CalmThread
  <2>. QED  BY <2>1, <2>2, <2>3
<1>6. CASE SleepCommit(a)
  <2>1. /\ row' = (IF Exists THEN SetState("suspended") ELSE row) /\ Ends(a) /\ UNCHANGED <<docker, dom, hist>>
        /\ job[a].pc = "slept" /\ IF dom = "active" THEN RegisterFallback ELSE UNCHANGED route
    BY <1>6 DEF SleepCommit, At
  <2>2. Owes
    <3>. SUFFICES ASSUME RouteInv, Phase(a) PROVE Leaves(a)  OBVIOUS
    <3>1. Exists /\ box = {}  BY <2>1 DEF Phase
    <3>2. row'.state = "suspended" /\ box' = {}  BY <1>c, <2>1, <3>1 DEF docker
    <3>3. AtRest'  BY <3>2 DEF AtRest
    <3>4. RouteInv'
      <4>1. "active" # None  BY HostingAssumption
      <4>. QED  BY <2>1, <4>1 DEF RouteInv
    <3>. QED  BY <1>b, <2>1, <3>3, <3>4 DEF Leaves
  <2>3. Calm' => Calm  BY <2>1 DEF Calm, hist
  <2>. QED  BY <1>b, <2>1, <2>2, <2>3, CalmThread
<1>7. CASE SnapshotTar(a)
  <2>1. Ends(a) /\ UNCHANGED <<rows, docker, proxy, hist>> /\ job[a].pc = "tar"  BY <1>7 DEF SnapshotTar, At
  <2>2. Owes
    <3>. SUFFICES ASSUME RouteInv, Phase(a) PROVE Leaves(a)  OBVIOUS
    <3>1. AtRest  BY <2>1 DEF Phase
    <3>2. AtRest' /\ RouteInv'  BY <2>1, <3>1 DEF AtRest, RunsOne, RouteInv, rows, docker, proxy
    <3>. QED  BY <1>b, <2>1, <3>2 DEF Leaves
  <2>3. Calm' => Calm  BY <2>1 DEF Calm, hist
  <2>. QED  BY <1>b, <2>1, <2>2, <2>3, CalmThread
<1>. QED  BY <1>1, <1>2, <1>3, <1>4, <1>5, <1>6, <1>7 DEF DeploymentNext

\* A request that comes alone.
LEMMA ComesAlone ==
    ASSUME HistOK, Meanwhile, Calm'
    PROVE  Calm /\ Quiet
<1>1. upsets \in Nat  BY DEF HistOK
<1>. QED  BY <1>1 DEF Meanwhile, Upset, Calm

LEMMA BeginsCalm ==
    ASSUME HostTypes, CalmInv, NEW a \in Actors, NEW pc \in {"load", "stop", "delete", "sleep"}, NEW s, Begins(a, pc, s),
           Exists', UNCHANGED <<docker, proxy>>,
           pc = "stop" => s = row'.state,
           pc = "sleep" => row.state = "running" /\ UNCHANGED rows
    PROVE  CalmInv'
<1>1. JobsOK /\ HistOK  BY DEF HostTypes
<1>2. job'[a].pc = pc /\ job'[a].seen = s /\ \A b \in Actors \ {a} : job'[b] = job[b]  BY <1>1, JobFacts
<1>3. Calm' => Calm /\ Quiet  BY <1>1, ComesAlone DEF Begins
<1>4. ASSUME RouteInv, AtRest PROVE Leaves(a)
  <2>1. pc = "sleep" => row'.state = "running" /\ RunsOne'  BY <1>4 DEF AtRest, RunsOne, rows, docker
  <2>2. Phase(a)'  BY <1>2, <2>1 DEF Phase, Loaded
  <2>3. RouteInv' /\ job'[a] # Nothing  BY <1>2, <1>4, Working DEF RouteInv, proxy
  <2>. QED  BY <2>2, <2>3 DEF Leaves
<1>. QED  BY <1>2, <1>3, <1>4, CalmRequest

\* A request of one transaction.
LEMMA AtOnceCalm ==
    ASSUME HostTypes, CalmInv, NEW a \in Actors, Idle(a), Meanwhile, UNCHANGED job,
           RouteInv /\ AtRest => RouteInv' /\ AtRest'
    PROVE  CalmInv'
<1>1. Calm' => Calm /\ Quiet  BY ComesAlone DEF HostTypes
<1>2. job'[a] = Nothing /\ \A b \in Actors \ {a} : job'[b] = job[b]  BY DEF Idle
<1>3. RouteInv /\ AtRest => Leaves(a)  BY <1>2 DEF Leaves
<1>. QED  BY <1>1, <1>2, <1>3, CalmRequest

LEMMA RequestCalm ==
    ASSUME HostTypes, CalmInv, NEW a \in Actors, DeploymentRequest(a)
    PROVE  CalmInv'
<1>a. row \in Deployment  BY DEF HostTypes, RowsOK
<1>b. \A s : SetState(s).state = s /\ SetState(s).kind = row.kind  BY <1>a DEF SetState, Deployment
<1>c. \A e : [row EXCEPT !.env = e].state = row.state /\ [row EXCEPT !.env = e].kind = row.kind  BY <1>a DEF Deployment
<1>1. ASSUME NEW src, NEW env, CreateDeployment(a, src, env) PROVE CalmInv'
  <2>1. row'.state = "created" /\ Provision(a) /\ UNCHANGED <<docker, proxy>>  BY <1>1 DEF CreateDeployment
  <2>2. Exists'  BY <2>1 DEF Exists
  <2>. QED  BY <2>1, <2>2, BeginsCalm DEF Provision
<1>2. CASE RestartDeployment(a) \/ GithubWebhook(a)
  <2>1. row'.state \in {"created", "building"} /\ Provision(a) /\ UNCHANGED <<docker, proxy>>
    BY <1>2, <1>b DEF RestartDeployment, GithubWebhook
  <2>2. Exists'  BY <2>1 DEF Exists
  <2>. QED  BY <2>1, <2>2, BeginsCalm DEF Provision
<1>3. ASSUME NEW env, UpdateEnv(a, env) PROVE CalmInv'
  <2>1. CASE row.state = "running"
    <3>1. row'.state = "building" /\ Provision(a) /\ UNCHANGED <<docker, proxy>>
      BY <1>3, <1>a, <2>1 DEF UpdateEnv, Deployment
    <3>2. Exists'  BY <3>1 DEF Exists
    <3>. QED  BY <3>1, <3>2, BeginsCalm DEF Provision
  <2>2. CASE row.state # "running"
    <3>1. row' = [row EXCEPT !.env = env] /\ Meanwhile /\ UNCHANGED <<job, docker, proxy>> /\ Idle(a)
      BY <1>3, <2>2 DEF UpdateEnv, Request
    <3>2. row'.state = row.state  BY <1>c, <3>1
    <3>3. RouteInv /\ AtRest => RouteInv' /\ AtRest'  BY <2>2, <3>1, <3>2 DEF RouteInv, AtRest, docker, proxy
    <3>. QED  BY <3>1, <3>3, AtOnceCalm
  <2>. QED  BY <2>1, <2>2
<1>4. ASSUME NEW env, ConnectDatabase(a, env) PROVE CalmInv'
  <2>1. row' = [row EXCEPT !.env = env] /\ Exists /\ Provision(a) /\ UNCHANGED <<docker, proxy>>
    BY <1>4 DEF ConnectDatabase, Request, App
  <2>2. Exists'  BY <1>c, <2>1 DEF Exists
  <2>. QED  BY <2>1, <2>2, BeginsCalm DEF Provision
<1>5. ASSUME NEW i \in DOMAIN revs, Rollback(a, i) PROVE CalmInv'
  <2>1. row'.state = "building" /\ Provision(a) /\ UNCHANGED <<docker, proxy>>  BY <1>5, <1>a DEF Rollback, Deployment
  <2>2. Exists'  BY <2>1 DEF Exists
  <2>. QED  BY <2>1, <2>2, BeginsCalm DEF Provision
<1>6. CASE StopDeployment(a)
  <2>1. row'.state = "stopped" /\ Begins(a, "stop", "stopped") /\ UNCHANGED <<docker, proxy>>
    BY <1>6, <1>b DEF StopDeployment
  <2>2. Exists'  BY <2>1 DEF Exists
  <2>. QED  BY <2>1, <2>2, BeginsCalm
<1>7. CASE DeleteDeployment(a) \/ Sleep(a) \/ WakeProxy(a)
  <2>1. UNCHANGED <<rows, docker, proxy>> /\ Exists  BY <1>7 DEF DeleteDeployment, Sleep, WakeProxy, Request, App
  <2>2. Exists'  BY <2>1 DEF Exists, rows
  <2>3. \/ Begins(a, "delete", row.state) \/ Begins(a, "load", "none")
        \/ (Begins(a, "sleep", row.state) /\ row.state = "running")
    BY <1>7 DEF DeleteDeployment, Sleep, WakeProxy, Provision
  <2>. QED  BY <2>1, <2>2, <2>3, BeginsCalm
<1>8. CASE ForceStop(a)
  <2>1. Idle(a) /\ Meanwhile /\ UNCHANGED <<job, proxy>> /\ row'.state = "suspended" /\ box' = {}
    BY <1>8, <1>b DEF ForceStop, Request, StopContainers
  <2>2. RouteInv /\ AtRest => RouteInv' /\ AtRest'  BY <2>1 DEF RouteInv, AtRest, proxy
  <2>. QED  BY <2>1, <2>2, AtOnceCalm
<1>9. CASE AttachDomain(a) \/ VerifyDomain(a) \/ DetachDomain(a)
  <2>1. Idle(a) /\ Meanwhile /\ UNCHANGED <<rows, docker, job>>
    BY <1>9 DEF AttachDomain, VerifyDomain, DetachDomain, Request
  <2>2. AtRest => AtRest'  BY <2>1 DEF AtRest, RunsOne, rows, docker
  <2>3. dom' = None => route' = None
    <3>1. None \notin {"pending_dns", "failed", "active"}  BY HostingAssumption
    <3>. QED  BY <1>9, <3>1 DEF AttachDomain, VerifyDomain, DetachDomain, DnsAnswer, UnregisterRoute
  <2>. QED  BY <2>1, <2>2, <2>3, AtOnceCalm DEF RouteInv
<1>10. CASE TakeSnapshot(a)
  <2>. DEFINE j == [Nothing EXCEPT !.pc = "tar", !.seen = row.state, !.old = box, !.new = made]
  <2>1. /\ job' = [job EXCEPT ![a] = j] /\ Meanwhile /\ UNCHANGED <<rows, docker, proxy>> /\ row.state # "running"
        /\ Exists
    BY <1>10 DEF TakeSnapshot, Request, App
  <2>2. j.pc = "tar" /\ j.seen = row.state /\ j.old = box /\ j.new = made  BY DEF Nothing
  <2>3. job'[a] = j /\ \A b \in Actors \ {a} : job'[b] = job[b]  BY <2>1 DEF HostTypes, JobsOK
  <2>. HIDE DEF j
  <2>4. Calm' => Calm /\ Quiet  BY <2>1, ComesAlone DEF HostTypes
  <2>5. ASSUME RouteInv, AtRest PROVE Leaves(a)
    <3>1. AtRest' /\ RouteInv' /\ Exists'
      BY <2>1, <2>5 DEF AtRest, RunsOne, RouteInv, Exists, rows, docker, proxy
    <3>2. row' = row /\ box' = box /\ made' = made  BY <2>1 DEF rows, docker
    <3>3. Phase(a)'  BY <2>1, <2>2, <2>3, <3>1, <3>2 DEF Phase, Loaded
    <3>4. job'[a] # Nothing  BY <2>2, <2>3, Working
    <3>. QED  BY <3>1, <3>3, <3>4 DEF Leaves
  <2>. QED  BY <2>3, <2>4, <2>5, CalmRequest
<1>11. CASE RestoreSnapshot(a)
  <2>1. Idle(a) /\ Meanwhile /\ UNCHANGED <<rows, box, proxy, job>> /\ Exists
    BY <1>11 DEF RestoreSnapshot, Request, App
  <2>2. RouteInv /\ AtRest => RouteInv' /\ AtRest'  BY <2>1 DEF RouteInv, AtRest, RunsOne, Exists, rows, proxy
  <2>. QED  BY <2>1, <2>2, AtOnceCalm
<1>. QED
  BY <1>1, <1>2, <1>3, <1>4, <1>5, <1>6, <1>7, <1>8, <1>9, <1>10, <1>11 DEF DeploymentRequest

LEMMA DatabaseCalm ==
    ASSUME HostTypes, CalmInv, NEW a \in Actors, DatabaseRequest(a), ~TriggerBackup(a)
    PROVE  CalmInv'
<1>a. row \in Deployment  BY DEF HostTypes, RowsOK
<1>b. SetState("building").state = "building"  BY <1>a DEF SetState, Deployment
<1>1. CASE DeployTemplate(a) \/ StartDatabase(a) \/ RestartDatabase(a)
  <2>1. row'.state \in {"created", "building"} /\ Provision(a) /\ UNCHANGED <<docker, proxy>>
    <3>1. ASSUME NEW env, CreateDeployment(a, "image", env)
          PROVE  row'.state = "created" /\ Provision(a) /\ UNCHANGED <<docker, proxy>>
      BY <3>1 DEF CreateDeployment
    <3>2. CASE CreateDatabase(a)  BY <3>2 DEF CreateDatabase
    <3>3. CASE StartDatabase(a) \/ RestartDatabase(a)  BY <1>b, <3>3 DEF StartDatabase, RestartDatabase
    <3>. QED  BY <1>1, <3>1, <3>2, <3>3 DEF DeployTemplate
  <2>2. Exists'  BY <2>1 DEF Exists
  <2>. QED  BY <2>1, <2>2, BeginsCalm DEF Provision
<1>2. CASE StopDatabase(a) \/ DeleteDatabase(a)
  <2>1. UNCHANGED <<rows, docker, proxy>> /\ Exists  BY <1>2 DEF StopDatabase, DeleteDatabase, DbRequest, Db
  <2>2. Exists' /\ row' = row  BY <2>1 DEF Exists, rows
  <2>3. Begins(a, "stop", row.state) \/ Begins(a, "delete", row.state)  BY <1>2 DEF StopDatabase, DeleteDatabase
  <2>. QED  BY <2>1, <2>2, <2>3, BeginsCalm
<1>. QED  BY <1>1, <1>2 DEF DatabaseRequest

-----------------------------------------------------------------------------
(* Containers and revisions, whatever overlaps.                              *)

LEMMA IdsCalm ==
    ASSUME HostTypes, IdsInv, box' \subseteq box, made' = made
    PROVE  IdsInv'
BY DEF IdsInv

\* What the requests do to revisions and threads.
Asks(a) ==
    /\ UNCHANGED <<ran, made>> /\ box' \subseteq box /\ UNCHANGED snap
    /\ Calm' => Calm
    /\ \A b \in Actors : At(b, "commit")' => b # a /\ job'[b] = job[b]
    /\ \/ revs' = revs /\ (App' => App)
       \/ \E s \in {"created", "building"}, e \in Env, t \in BOOLEAN : NewRevision(s, e, t)

LEMMA AsksBegins ==
    ASSUME HostTypes, NEW a \in Actors, NEW pc \in {"load", "stop", "delete", "sleep"}, NEW s, Begins(a, pc, s)
    PROVE  /\ ran' = ran /\ (Calm' => Calm)
           /\ \A b \in Actors : At(b, "commit")' => b # a /\ job'[b] = job[b]
<1>1. JobsOK /\ HistOK  BY DEF HostTypes
<1>2. job'[a].pc = pc /\ \A b \in Actors \ {a} : job'[b] = job[b]  BY <1>1, JobFacts
<1>3. Calm' => Calm /\ Quiet  BY <1>1, ComesAlone DEF Begins
<1>. QED  BY <1>2, <1>3 DEF At, Begins, Meanwhile

LEMMA AsksAtOnce ==
    ASSUME HostTypes, NEW a \in Actors, Idle(a), Meanwhile, UNCHANGED job
    PROVE  /\ ran' = ran /\ (Calm' => Calm)
           /\ \A b \in Actors : At(b, "commit")' => b # a /\ job'[b] = job[b]
<1>1. Calm' => Calm  BY ComesAlone DEF HostTypes
<1>2. job[a].pc = "idle"  BY DEF Idle, Nothing
<1>. QED  BY <1>1, <1>2 DEF At, Meanwhile

LEMMA DeploymentAsks ==
    ASSUME HostTypes, NEW a \in Actors, DeploymentRequest(a)
    PROVE  Asks(a)
<1>a. row \in Deployment /\ row.env \in Env  BY DEF HostTypes, RowsOK, Deployment
<1>b. None \in Env /\ Envs \subseteq Env  BY DEF Env
<1>c. ASSUME Provision(a), UNCHANGED <<docker, dumps>>, NEW s \in {"created", "building"}, NEW e \in Env, NEW t \in BOOLEAN,
             NewRevision(s, e, t)
      PROVE  Asks(a)
  <2>1. Begins(a, "load", "none")  BY <1>c DEF Provision
  <2>2. /\ ran' = ran /\ (Calm' => Calm)
        /\ \A b \in Actors : At(b, "commit")' => b # a /\ job'[b] = job[b]
    BY <2>1, AsksBegins
  <2>. QED  BY <1>c, <2>2 DEF Asks, docker, dumps
<1>d. ASSUME NEW pc \in {"load", "stop", "delete", "sleep"}, NEW s, Begins(a, pc, s), UNCHANGED <<docker, dumps, revs>>, App' => App
      PROVE  Asks(a)
  <2>1. /\ ran' = ran /\ (Calm' => Calm)
        /\ \A b \in Actors : At(b, "commit")' => b # a /\ job'[b] = job[b]
    BY <1>d, AsksBegins
  <2>. QED  BY <1>d, <2>1 DEF Asks, docker, dumps
<1>e. ASSUME Idle(a), Meanwhile, UNCHANGED <<job, made, dumps, revs>>, box' \subseteq box, App' => App
      PROVE  Asks(a)
  <2>1. /\ ran' = ran /\ (Calm' => Calm)
        /\ \A b \in Actors : At(b, "commit")' => b # a /\ job'[b] = job[b]
    BY <1>e, AsksAtOnce
  <2>. QED  BY <1>e, <2>1 DEF Asks, dumps
<1>1. ASSUME NEW src, NEW env, CreateDeployment(a, src, env) PROVE Asks(a)  BY <1>1, <1>b, <1>c DEF CreateDeployment
<1>2. CASE RestartDeployment(a)  BY <1>2, <1>a, <1>c DEF RestartDeployment
<1>3. CASE GithubWebhook(a)  BY <1>3, <1>b, <1>c DEF GithubWebhook
<1>4. ASSUME NEW env \in Env, UpdateEnv(a, env) PROVE Asks(a)
  <2>1. CASE row.state = "running"  BY <1>4, <1>c, <2>1 DEF UpdateEnv
  <2>2. CASE row.state # "running"  BY <1>4, <1>e, <2>2 DEF UpdateEnv, Request, docker
  <2>. QED  BY <2>1, <2>2
<1>5. ASSUME NEW env, ConnectDatabase(a, env) PROVE Asks(a)  BY <1>5, <1>d DEF ConnectDatabase, Request, Provision
<1>6. ASSUME NEW i \in DOMAIN revs, Rollback(a, i) PROVE Asks(a)
  <2>1. revs[i] \in Revision  BY <1>6 DEF HostTypes, RowsOK
  <2>2. PICK e \in Env : e = IF revs[i].env = None THEN row.env ELSE revs[i].env  BY <1>a, <2>1 DEF Revision
  <2>3. NewRevision("building", e, TRUE) /\ Provision(a) /\ UNCHANGED <<docker, dumps>>  BY <1>6, <2>2 DEF Rollback
  <2>. QED  BY <2>3, <1>c
<1>7. CASE StopDeployment(a)  BY <1>7, <1>d DEF StopDeployment, Request
<1>8. CASE DeleteDeployment(a) \/ Sleep(a) \/ WakeProxy(a)
  <2>1. App /\ UNCHANGED <<revs, docker, dumps>>  BY <1>8 DEF DeleteDeployment, Sleep, WakeProxy, Request, rows
  <2>2. Begins(a, "delete", row.state) \/ Begins(a, "load", "none") \/ Begins(a, "sleep", row.state)
    BY <1>8 DEF DeleteDeployment, Sleep, WakeProxy, Provision
  <2>. QED  BY <2>1, <2>2, <1>d
<1>9. CASE ForceStop(a)  BY <1>9, <1>e DEF ForceStop, Request, StopContainers
<1>10. CASE AttachDomain(a) \/ VerifyDomain(a) \/ DetachDomain(a)
  <2>1. App /\ Idle(a) /\ Meanwhile /\ UNCHANGED <<rows, docker, dumps, job>>
    BY <1>10 DEF AttachDomain, VerifyDomain, DetachDomain, Request
  <2>. QED  BY <2>1, <1>e DEF rows, docker
<1>11. CASE TakeSnapshot(a)
  <2>. DEFINE j == [Nothing EXCEPT !.pc = "tar", !.seen = row.state, !.old = box, !.new = made]
  <2>1. job' = [job EXCEPT ![a] = j] /\ Meanwhile /\ UNCHANGED <<rows, docker, dumps>> /\ App
    BY <1>11 DEF TakeSnapshot, Request
  <2>2. j.pc = "tar"  BY DEF Nothing
  <2>3. job'[a] = j /\ \A b \in Actors \ {a} : job'[b] = job[b]  BY <2>1 DEF HostTypes, JobsOK
  <2>. HIDE DEF j
  <2>4. Calm' => Calm  BY <2>1, ComesAlone DEF HostTypes
  <2>5. \A b \in Actors : At(b, "commit")' => b # a /\ job'[b] = job[b]  BY <2>2, <2>3 DEF At
  <2>. QED  BY <2>1, <2>4, <2>5 DEF Asks, rows, docker, dumps, Meanwhile
<1>12. CASE RestoreSnapshot(a)  BY <1>12, <1>e DEF RestoreSnapshot, Request, rows
<1>. QED
  BY <1>1, <1>2, <1>3, <1>4, <1>5, <1>6, <1>7, <1>8, <1>9, <1>10, <1>11, <1>12, <1>b DEF DeploymentRequest

LEMMA DatabaseAsks ==
    ASSUME HostTypes, NEW a \in Actors, DatabaseRequest(a), ~TriggerBackup(a)
    PROVE  Asks(a)
<1>. DEFINE Frame == /\ ran' = ran /\ (Calm' => Calm)
                     /\ \A b \in Actors : At(b, "commit")' => b # a /\ job'[b] = job[b]
<1>1. ASSUME NEW env, CreateDeployment(a, "image", env) PROVE Asks(a)
  <2>1. Begins(a, "load", "none") /\ UNCHANGED <<docker, dumps>> /\ NewRevision("created", None, FALSE) /\ None \in Env
    BY <1>1 DEF CreateDeployment, Provision, Env
  <2>2. Frame  BY <2>1, AsksBegins
  <2>. QED  BY <2>1, <2>2 DEF Asks, docker, dumps
<1>2. CASE CreateDatabase(a) \/ StartDatabase(a) \/ RestartDatabase(a)
  <2>1. Begins(a, "load", "none") /\ UNCHANGED <<revs, docker, dumps>>
    BY <1>2 DEF CreateDatabase, StartDatabase, RestartDatabase, Provision
  <2>2. Frame  BY <2>1, AsksBegins
  <2>3. row'.kind = "db"
    <3>1. CASE CreateDatabase(a)  BY <3>1 DEF CreateDatabase
    <3>2. CASE StartDatabase(a) \/ RestartDatabase(a)
      <4>1. row' = SetState("building") /\ row.kind = "db" /\ row \in Deployment
        BY <3>2 DEF StartDatabase, RestartDatabase, DbRequest, Db, HostTypes, RowsOK
      <4>. QED  BY <4>1 DEF SetState, Deployment
    <3>. QED  BY <1>2, <3>1, <3>2
  <2>4. ~App'  BY <2>3 DEF App
  <2>. QED  BY <2>1, <2>2, <2>4 DEF Asks, docker, dumps
<1>3. CASE StopDatabase(a) \/ DeleteDatabase(a)
  <2>1. /\ UNCHANGED <<rows, docker, dumps>>
        /\ Begins(a, "stop", row.state) \/ Begins(a, "delete", row.state)
    BY <1>3 DEF StopDatabase, DeleteDatabase
  <2>2. Frame  BY <2>1, AsksBegins
  <2>3. revs' = revs /\ (App' => App)  BY <2>1 DEF rows, App, Exists
  <2>. QED  BY <2>1, <2>2, <2>3 DEF Asks, docker, dumps
<1>. QED  BY <1>1, <1>2, <1>3 DEF DatabaseRequest, DeployTemplate

LEMMA AsksInv ==
    ASSUME HostTypes, WorkInv, NEW a \in Actors, Asks(a)
    PROVE  WorkInv'
<1>1. IdsInv'  BY IdsCalm DEF Asks, WorkInv
<1>2. SnapshotSound'  BY DEF Asks, WorkInv, SnapshotSound
<1>3. \A b \in Actors : At(b, "commit")' => job'[b].rev \in ran' \cup {0}  BY DEF Asks, WorkInv, RanInv, At
<1>4. CASE revs' = revs /\ (App' => App)
  <2>1. RanAsRecorded'  BY <1>4 DEF Asks, WorkInv, RanInv, RanAsRecorded
  <2>2. ActiveInv'  BY <1>4 DEF Asks, WorkInv, ActiveInv
  <2>. QED  BY <1>1, <1>2, <1>3, <2>1, <2>2 DEF WorkInv, RanInv
<1>5. ASSUME NEW s \in {"created", "building"}, NEW e \in Env, NEW t \in BOOLEAN, NewRevision(s, e, t) PROVE WorkInv'
  <2>1. s \in DeploymentState  BY DEF DeploymentState
  <2>2. /\ revs' \in Seq(Revision) /\ Len(revs') = Len(revs) + 1
        /\ revs'[Len(revs')] = [status |-> s, active |-> TRUE, env |-> e, tag |-> t]
        /\ \A i \in DOMAIN revs : revs'[i] = [revs[i] EXCEPT !.active = FALSE]
    BY <1>5, <2>1, RevisionKinds DEF HostTypes
  <2>3. Len(revs) \in Nat /\ DOMAIN revs = 1..Len(revs) /\ \A i \in DOMAIN revs : revs[i] \in Revision
    BY DEF HostTypes, RowsOK
  <2>4. DOMAIN revs' = 1..(Len(revs) + 1)  BY <2>2
  <2>5. /\ revs'[Len(revs')].active /\ revs'[Len(revs')].status = s
        /\ \A i \in DOMAIN revs : revs'[i].status = revs[i].status /\ ~revs'[i].active
    <3>1. [status |-> s, active |-> TRUE, env |-> e, tag |-> t].active
          /\ [status |-> s, active |-> TRUE, env |-> e, tag |-> t].status = s
      OBVIOUS
    <3>2. \A r \in Revision : [r EXCEPT !.active = FALSE].status = r.status /\ [r EXCEPT !.active = FALSE].active = FALSE
      BY DEF Revision
    <3>3. revs'[Len(revs')].active /\ revs'[Len(revs')].status = s  BY <2>2, <3>1, Zenon
    <3>4. ASSUME NEW i \in DOMAIN revs PROVE revs'[i].status = revs[i].status /\ ~revs'[i].active
      BY <2>2, <2>3, <3>2
    <3>. QED  BY <3>3, <3>4
  <2>6. RanAsRecorded'  BY <2>2, <2>3, <2>4, <2>5 DEF Asks, WorkInv, RanInv, RanAsRecorded
  <2>7. ActiveInv'
    <3>1. revs' # <<>>  BY <2>2, <2>3
    <3>2. \A i \in DOMAIN revs' : revs'[i].active => i = Len(revs')  BY <2>2, <2>3, <2>4, <2>5
    <3>. QED  BY <2>5, <3>1, <3>2 DEF ActiveInv
  <2>. QED  BY <1>1, <1>2, <1>3, <2>6, <2>7 DEF WorkInv, RanInv
<1>. QED  BY <1>4, <1>5 DEF Asks

\* Steps of a thread that leave the revisions alone.
LEMMA PlainSteps ==
    ASSUME HostTypes, NEW a \in Actors,
           \/ Load(a) \/ PostBuild(a) \/ PollLost(a) \/ StartList(a) \/ CommitDatabase(a) \/ Route(a) \/ RowGone(a)
           \/ StopAgent(a) \/ StopCommit(a) \/ DeleteAgent(a) \/ SleepStop(a) \/ SleepCommit(a)
    PROVE  Asks(a)
<1>a. JobsOK /\ HistOK /\ row \in Deployment  BY DEF HostTypes, RowsOK
<1>b. ASSUME Ends(a) \/ \E pc \in Pc \ {"commit"} : GoesTo(a, pc)
      PROVE  \A b \in Actors : At(b, "commit")' => b # a /\ job'[b] = job[b]
  BY <1>a, <1>b, JobFacts DEF At, Nothing
<1>c. ASSUME UNCHANGED hist PROVE ran' = ran /\ (Calm' => Calm)  BY <1>c DEF hist, Calm
<1>d. ASSUME AgentStop(a) PROVE ran' = ran /\ (Calm' => Calm) /\ box' \subseteq box
  <2>1. Calm' => Calm  BY <1>a, <1>d, AgentStops
  <2>. QED  BY <1>d, <2>1 DEF AgentStop, StopContainers, hist
<1>1. CASE Load(a)
  <2>. DEFINE pc == IF row.kind = "app" /\ row.src = "github" THEN "post" ELSE "list"
              j == [job[a] EXCEPT !.seen = row.state, !.env = row.env, !.rev = Len(revs), !.pc = pc]
  <2>1. UNCHANGED <<rows, docker, dumps, hist>>  BY <1>1 DEF Load
  <2>2. \A b \in Actors : At(b, "commit")' => b # a /\ job'[b] = job[b]
    <3>1. CASE ~Exists  BY <1>1, <1>b, <3>1 DEF Load
    <3>2. CASE Exists
      <4>1. job' = [job EXCEPT ![a] = j]  BY <1>1, <3>2 DEF Load
      <4>2. job[a] \in Job  BY <1>a DEF JobsOK
      <4>3. j.pc # "commit"  BY <4>2 DEF Job
      <4>. HIDE DEF j
      <4>4. job'[a] = j /\ \A b \in Actors \ {a} : job'[b] = job[b]  BY <1>a, <4>1 DEF JobsOK
      <4>. QED  BY <4>3, <4>4 DEF At
    <3>. QED  BY <3>1, <3>2
  <2>3. App' => App  BY <2>1 DEF App, Exists, rows
  <2>. QED  BY <1>c, <2>1, <2>2, <2>3 DEF Asks, rows, docker, dumps
<1>2. CASE PostBuild(a) \/ PollLost(a)
  <2>1. UNCHANGED <<rows, docker, dumps, hist>> /\ (GoesTo(a, "poll") \/ GoesTo(a, "fail"))  BY <1>2 DEF PostBuild, PollLost
  <2>2. \A b \in Actors : At(b, "commit")' => b # a /\ job'[b] = job[b]  BY <1>b, <2>1 DEF Pc
  <2>3. App' => App  BY <2>1 DEF App, Exists, rows
  <2>. QED  BY <1>c, <2>1, <2>2, <2>3 DEF Asks, rows, docker, dumps
<1>3. CASE StartList(a)
  <2>. DEFINE j == [job[a] EXCEPT !.pc = "run", !.old = box]
  <2>1. UNCHANGED <<rows, box, made, dumps, hist>>  BY <1>3 DEF StartList
  <2>2. \A b \in Actors : At(b, "commit")' => b # a /\ job'[b] = job[b]
    <3>1. CASE GoesTo(a, "fail")  BY <1>b, <3>1 DEF Pc
    <3>2. CASE job' = [job EXCEPT ![a] = j]
      <4>1. job[a] \in Job  BY <1>a DEF JobsOK
      <4>2. j.pc = "run"  BY <4>1 DEF Job
      <4>. HIDE DEF j
      <4>3. job'[a] = j /\ \A b \in Actors \ {a} : job'[b] = job[b]  BY <1>a, <3>2 DEF JobsOK
      <4>. QED  BY <4>2, <4>3 DEF At
    <3>. QED  BY <1>3, <3>1, <3>2 DEF StartList
  <2>3. App' => App  BY <2>1 DEF App, Exists, rows
  <2>. QED  BY <1>c, <2>1, <2>2, <2>3 DEF Asks, rows, dumps
<1>4. CASE CommitDatabase(a)
  <2>1. UNCHANGED <<revs, docker, dumps, hist>> /\ Ends(a) /\ Db /\ \E s : row' = SetState(s)  BY <1>4 DEF CommitDatabase
  <2>2. row'.kind = "db"  BY <1>a, <2>1 DEF Db, SetState, Deployment
  <2>3. App' => App  BY <2>2 DEF App
  <2>. QED  BY <1>b, <1>c, <2>1, <2>3 DEF Asks, docker, dumps
<1>5. CASE Route(a) \/ RowGone(a)
  <2>1. UNCHANGED <<rows, docker, dumps, hist>> /\ Ends(a)  BY <1>5 DEF Route, RowGone
  <2>2. App' => App  BY <2>1 DEF App, Exists, rows
  <2>. QED  BY <1>b, <1>c, <2>1, <2>2 DEF Asks, rows, docker, dumps
<1>6. CASE StopAgent(a) \/ DeleteAgent(a)
  <2>1. UNCHANGED <<rows, made, dumps>> /\ AgentStop(a) /\ (GoesTo(a, "stopped") \/ GoesTo(a, "deleted"))
    BY <1>6 DEF StopAgent, DeleteAgent
  <2>2. \A b \in Actors : At(b, "commit")' => b # a /\ job'[b] = job[b]  BY <1>b, <2>1 DEF Pc
  <2>3. App' => App  BY <2>1 DEF App, Exists, rows
  <2>. QED  BY <1>d, <2>1, <2>2, <2>3 DEF Asks, rows, dumps
<1>7. CASE StopCommit(a) \/ SleepCommit(a)
  <2>1. UNCHANGED <<revs, docker, dumps, hist>> /\ Ends(a) /\ (row' = row \/ (Exists /\ \E s : row' = SetState(s)))
    BY <1>7 DEF StopCommit, SleepCommit
  <2>2. row'.kind = row.kind /\ (row' = row \/ Exists)  BY <1>a, <2>1 DEF SetState, Deployment
  <2>3. App' => App  BY <2>2 DEF App, Exists
  <2>. QED  BY <1>b, <1>c, <2>1, <2>3 DEF Asks, docker, dumps
<1>8. CASE SleepStop(a)
  <2>1. /\ UNCHANGED <<rows, made, dumps>>
        /\ (AgentStop(a) /\ GoesTo(a, "slept")) \/ (Ends(a) /\ UNCHANGED <<box, hist>>)
    BY <1>8 DEF SleepStop
  <2>2. App' => App  BY <2>1 DEF App, Exists, rows
  <2>3. \A b \in Actors : At(b, "commit")' => b # a /\ job'[b] = job[b]  BY <1>b, <2>1 DEF Pc
  <2>4. ran' = ran /\ (Calm' => Calm) /\ box' \subseteq box  BY <1>c, <1>d, <2>1
  <2>. QED  BY <2>1, <2>2, <2>3, <2>4 DEF Asks, rows, dumps
<1>. QED  BY <1>1, <1>2, <1>3, <1>4, <1>5, <1>6, <1>7, <1>8

LEMMA WorkSteps ==
    ASSUME HostTypes, CalmInv, WorkInv, NEW a \in Actors,
           Poll(a) \/ StartRun(a) \/ StartWait(a) \/ Commit(a) \/ Fail(a) \/ DeleteCommit(a) \/ SnapshotTar(a)
    PROVE  WorkInv'
<1>a. /\ JobsOK /\ HistOK /\ row \in Deployment /\ job[a] \in Job /\ revs \in Seq(Revision)
      /\ \A i \in DOMAIN revs : revs[i] \in Revision
  BY DEF HostTypes, RowsOK, JobsOK
<1>b. DOMAIN revs = 1..Len(revs) /\ Len(revs) \in Nat  BY <1>a
<1>c. /\ \A pc : GoesTo(a, pc) =>
            job'[a].pc = pc /\ job'[a].rev = job[a].rev /\ \A b \in Actors \ {a} : job'[b] = job[b]
      /\ Ends(a) => job'[a] = Nothing /\ \A b \in Actors \ {a} : job'[b] = job[b]
  BY <1>a, JobFacts
\* A step after which a is not about to commit.
<1>d. ASSUME ran \subseteq ran', job'[a].pc # "commit", \A b \in Actors \ {a} : job'[b] = job[b]
      PROVE  \A b \in Actors : At(b, "commit")' => job'[b].rev \in ran' \cup {0}
  BY <1>d DEF WorkInv, RanInv, At
<1>e. Nothing.pc # "commit"  BY DEF Nothing
\* A step that writes to one revision, of whatever number, and none of it the active flag.
<1>f. ASSUME NEW n, NEW r, n \in DOMAIN revs => r \in Revision /\ (r.active <=> revs[n].active) /\ r.status # "running",
             revs' = revs \/ revs' = [revs EXCEPT ![n] = r], ran' = ran, App' => App, Calm' => Calm
      PROVE  RanAsRecorded' /\ ActiveInv'
  <2>1. CASE revs' = revs
    BY <1>f, <2>1 DEF WorkInv, RanInv, RanAsRecorded, ActiveInv
  <2>2. CASE revs' = [revs EXCEPT ![n] = r]
    <3>1. /\ Len(revs') = Len(revs) /\ DOMAIN revs' = DOMAIN revs
          /\ \A i \in DOMAIN revs : revs'[i] = IF i = n THEN r ELSE revs[i]
      BY <1>a, <1>f, <2>2, RevisionSet
    <3>2. \A i \in DOMAIN revs : (revs'[i].active <=> revs[i].active) /\ (revs'[i].status = "running" => revs[i].status = "running")
      BY <1>f, <3>1
    <3>3. RanAsRecorded'  BY <1>f, <3>1, <3>2 DEF WorkInv, RanInv, RanAsRecorded
    <3>4. ActiveInv'
      <4>. SUFFICES ASSUME App' PROVE ActiveInv'  BY DEF ActiveInv
      <4>1. revs # <<>> /\ revs[Len(revs)].active  BY <1>f DEF WorkInv, ActiveInv
      <4>2. Len(revs) \in DOMAIN revs  BY <1>a, <1>b, <4>1
      <4>3. revs' # <<>> /\ revs'[Len(revs')].active  BY <3>1, <3>2, <4>1, <4>2
      <4>. QED  BY <1>f, <3>1, <3>2, <4>3 DEF WorkInv, ActiveInv
    <3>. QED  BY <3>3, <3>4
  <2>. QED  BY <1>f, <2>1, <2>2
<1>1. CASE Poll(a)
  <2>1. UNCHANGED <<docker, dumps, hist>> /\ Exists /\ (row' = row \/ row' = SetState("building"))  BY <1>1 DEF Poll
  <2>2. App' => App  BY <1>a, <2>1 DEF App, SetState, Deployment, Exists
  <2>3. revs' = revs \/ revs' = [revs EXCEPT ![job[a].rev] = Tagged(revs[job[a].rev])]  BY <1>1 DEF Poll
  <2>4. \A r \in Revision : Tagged(r) \in Revision /\ Tagged(r).active = r.active /\ Tagged(r).status = "building"
    BY DEF Tagged, Revision, DeploymentState
  <2>5. RanAsRecorded' /\ ActiveInv'  BY <1>a, <1>f, <2>1, <2>2, <2>3, <2>4 DEF hist, Calm
  <2>6. job'[a].pc # "commit" /\ \A b \in Actors \ {a} : job'[b] = job[b]
    <3>. DEFINE commits == job[a].seen # "building" \/ build = "success"
                known == IF commits THEN row' ELSE [state |-> job[a].seen, env |-> job[a].env]
                j == [job[a] EXCEPT !.pc = Polled(build), !.seen = known.state, !.env = known.env]
    <3>1. job' = [job EXCEPT ![a] = j]  BY <1>1 DEF Poll
    <3>. HIDE DEF known
    <3>2. j.pc # "commit"  BY <1>a DEF Job, Polled
    <3>. HIDE DEF j
    <3>. QED  BY <1>a, <3>1, <3>2 DEF JobsOK
  <2>7. IdsInv' /\ SnapshotSound'  BY <2>1 DEF WorkInv, IdsInv, SnapshotSound, Calm, docker, dumps, hist
  <2>8. ran' = ran  BY <2>1 DEF hist
  <2>. QED  BY <1>d, <2>5, <2>6, <2>7, <2>8 DEF WorkInv, RanInv
<1>2. CASE StartRun(a)
  <2>1. UNCHANGED <<rows, dumps, hist>>  BY <1>2 DEF StartRun
  <2>2. job'[a].pc # "commit" /\ \A b \in Actors \ {a} : job'[b] = job[b]
    <3>1. CASE GoesTo(a, "fail")  BY <1>c, <3>1
    <3>2. CASE job' = [job EXCEPT ![a] = [job[a] EXCEPT !.pc = "wait", !.new = made + 1]]  BY <1>a, <3>2 DEF JobsOK, Job
    <3>. QED  BY <1>2, <3>1, <3>2 DEF StartRun
  <2>3. IdsInv'
    <3>1. made \in Nat /\ \A c \in box : c.id \in Nat /\ c.id <= made
      BY DEF HostTypes, DockerOK, Container, WorkInv, IdsInv
    <3>2. CASE UNCHANGED <<box, made>>  BY <3>2 DEF WorkInv, IdsInv
    <3>3. CASE made' = made + 1 /\ box' = box \cup {[id |-> made + 1, env |-> job[a].env]}
      BY <3>1, <3>3 DEF IdsInv
    <3>. QED  BY <1>2, <3>2, <3>3 DEF StartRun
  <2>4. RanAsRecorded' /\ ActiveInv' /\ SnapshotSound'
    BY <2>1 DEF WorkInv, RanInv, RanAsRecorded, ActiveInv, SnapshotSound, App, Exists, Calm, rows, dumps, hist
  <2>5. ran' = ran  BY <2>1 DEF hist
  <2>. QED  BY <1>d, <2>2, <2>3, <2>4, <2>5 DEF WorkInv, RanInv
<1>3. CASE StartWait(a)
  <2>1. UNCHANGED <<rows, dumps, upsets, made>> /\ box' \subseteq box /\ ran \subseteq ran'  BY <1>3 DEF StartWait
  <2>2. RanAsRecorded' /\ ActiveInv' /\ SnapshotSound'
    BY <2>1 DEF WorkInv, RanInv, RanAsRecorded, ActiveInv, SnapshotSound, App, Exists, Calm, rows, dumps
  <2>3. \A b \in Actors : At(b, "commit")' => job'[b].rev \in ran' \cup {0}
    <3>1. CASE GoesTo(a, "fail")  BY <1>c, <1>d, <2>1, <3>1
    <3>2. CASE GoesTo(a, "commit") /\ ran' = ran \cup ({job[a].rev} \ {0})
      <4>1. job'[a].rev = job[a].rev /\ \A b \in Actors \ {a} : job'[b] = job[b]  BY <1>c, <3>2
      <4>. QED  BY <3>2, <4>1 DEF WorkInv, RanInv, At
    <3>. QED  BY <1>3, <3>1, <3>2 DEF StartWait
  <2>4. IdsInv'  BY <2>1, IdsCalm DEF WorkInv
  <2>. QED  BY <2>2, <2>3, <2>4 DEF WorkInv, RanInv
<1>4. CASE Commit(a)
  <2>. DEFINE n == job[a].rev  r == Succeeded(revs[n])
  <2>1. /\ UNCHANGED <<docker, dumps, hist>> /\ App /\ GoesTo(a, "route") /\ job[a].pc = "commit"
        /\ revs' = [revs EXCEPT ![n] = r]
    BY <1>4 DEF Commit, At
  <2>2. n \in DOMAIN revs => r \in Revision /\ (revs[n].active => r.active)
    <3>. SUFFICES ASSUME NEW v \in Revision PROVE Succeeded(v) \in Revision /\ (v.active => Succeeded(v).active)
      BY <1>a
    <3>1. "running" \in DeploymentState  BY DEF DeploymentState
    <3>2. CASE row.src = "github"  BY <3>1, <3>2 DEF Succeeded, Revision
    <3>3. CASE row.src # "github"
      <4>1. v.active \in BOOLEAN  BY DEF Revision
      <4>2. Succeeded(v) = [v EXCEPT !.status = "running", !.tag = TRUE, !.active = v.active]  BY <3>3 DEF Succeeded
      <4>. QED  BY <3>1, <4>1, <4>2 DEF Revision
    <3>. QED  BY <3>2, <3>3
  <2>. HIDE DEF r
  <2>3. /\ Len(revs') = Len(revs) /\ DOMAIN revs' = DOMAIN revs
        /\ \A i \in DOMAIN revs : revs'[i] = IF i = n THEN r ELSE revs[i]
    BY <1>a, <2>1, <2>2, RevisionSet
  <2>4. n \in ran \cup {0}  BY <2>1 DEF WorkInv, RanInv, At
  <2>5. ran' = ran /\ (Calm' => Calm)  BY <2>1 DEF hist, Calm
  <2>6. RanAsRecorded'
    <3>1. 0 \notin DOMAIN revs  BY <1>b
    <3>. QED  BY <2>3, <2>4, <2>5, <3>1 DEF WorkInv, RanInv, RanAsRecorded
  <2>7. ActiveInv'
    <3>1. revs # <<>> /\ revs[Len(revs)].active  BY <2>1 DEF WorkInv, ActiveInv
    <3>2. Len(revs) \in DOMAIN revs  BY <1>a, <1>b, <3>1
    <3>3. revs' # <<>> /\ revs'[Len(revs')].active  BY <2>2, <2>3, <3>1, <3>2
    <3>4. ASSUME Calm', NEW i \in DOMAIN revs', revs'[i].active PROVE i = Len(revs')
      <4>1. Calm  BY <2>5, <3>4
      <4>2. Phase(a)  BY <2>1, <4>1, BusyPc DEF CalmInv
      <4>3. n = Len(revs)  BY <2>1, <4>2 DEF Phase, Loaded, Known
      <4>4. CASE i = n  BY <2>3, <4>3, <4>4
      <4>5. CASE i # n
        <5>1. i \in DOMAIN revs /\ revs[i].active  BY <2>3, <3>4, <4>5
        <5>. QED  BY <2>1, <2>3, <4>1, <5>1 DEF WorkInv, ActiveInv
      <4>. QED  BY <4>4, <4>5
    <3>. QED  BY <3>3, <3>4 DEF ActiveInv
  <2>8. \A b \in Actors : At(b, "commit")' => job'[b].rev \in ran' \cup {0}  BY <1>c, <1>d, <2>1, <2>5
  <2>9. IdsInv' /\ SnapshotSound'  BY <2>1 DEF WorkInv, IdsInv, SnapshotSound, Calm, docker, dumps, hist
  <2>. QED  BY <2>6, <2>7, <2>8, <2>9 DEF WorkInv, RanInv
<1>5. CASE Fail(a)
  <2>1. UNCHANGED <<docker, dumps, hist>> /\ App /\ Ends(a)  BY <1>5 DEF Fail
  <2>2. revs' = [revs EXCEPT ![Len(revs)] = [revs[Len(revs)] EXCEPT !.status = "error"]]  BY <1>5 DEF Fail
  <2>3. \A r \in Revision : /\ [r EXCEPT !.status = "error"] \in Revision /\ [r EXCEPT !.status = "error"].active = r.active
                            /\ [r EXCEPT !.status = "error"].status = "error"
    BY DEF Revision, DeploymentState
  <2>4. RanAsRecorded' /\ ActiveInv'  BY <1>a, <1>f, <2>1, <2>2, <2>3 DEF hist, Calm
  <2>5. IdsInv' /\ SnapshotSound'  BY <2>1 DEF WorkInv, IdsInv, SnapshotSound, Calm, docker, dumps, hist
  <2>6. ran' = ran  BY <2>1 DEF hist
  <2>. QED  BY <1>c, <1>d, <1>e, <2>1, <2>4, <2>5, <2>6 DEF WorkInv, RanInv
<1>6. CASE DeleteCommit(a)
  <2>1. UNCHANGED <<docker, dumps, hist>> /\ Ends(a) /\ revs' = <<>> /\ row' = SetState("deleted")  BY <1>6 DEF DeleteCommit
  <2>2. ~App'  BY <1>a, <2>1 DEF App, Exists, SetState, Deployment
  <2>3. RanAsRecorded' /\ ActiveInv'  BY <2>1, <2>2 DEF RanAsRecorded, ActiveInv
  <2>4. IdsInv' /\ SnapshotSound'  BY <2>1 DEF WorkInv, IdsInv, SnapshotSound, Calm, docker, dumps, hist
  <2>5. ran' = ran  BY <2>1 DEF hist
  <2>. QED  BY <1>c, <1>d, <1>e, <2>1, <2>3, <2>4, <2>5 DEF WorkInv, RanInv
<1>7. CASE SnapshotTar(a)
  <2>1. UNCHANGED <<rows, docker, hist>> /\ Ends(a) /\ job[a].pc = "tar"  BY <1>7 DEF SnapshotTar, At
  <2>2. RanAsRecorded' /\ ActiveInv'
    BY <2>1 DEF WorkInv, RanInv, RanAsRecorded, ActiveInv, App, Exists, Calm, rows, hist
  <2>3. SnapshotSound'
    <3>. SUFFICES ASSUME Calm', snap' # None, snap'.torn PROVE snap'.of = "error"  BY DEF SnapshotSound
    <3>1. Calm  BY <2>1 DEF Calm, hist
    <3>2. CASE snap' = snap  BY <3>1, <3>2 DEF WorkInv, SnapshotSound
    <3>3. CASE snap' = [of |-> job[a].seen, torn |-> job[a].old # {} \/ box # {} \/ made # job[a].new]
      <4>1. Phase(a)  BY <2>1, <3>1, BusyPc DEF CalmInv
      <4>2. job[a].old = box /\ job[a].new = made /\ row.state # "running" /\ AtRest /\ job[a].seen = row.state
        BY <2>1, <4>1 DEF Phase
      <4>3. box # {}  BY <3>3, <4>2
      <4>4. row.state = "error"  BY <4>2, <4>3 DEF AtRest
      <4>. QED  BY <3>3, <4>2, <4>4
    <3>. QED  BY <1>7, <3>2, <3>3 DEF SnapshotTar
  <2>4. IdsInv'  BY <2>1 DEF WorkInv, IdsInv, docker
  <2>5. ran' = ran  BY <2>1 DEF hist
  <2>. QED  BY <1>c, <1>d, <1>e, <2>1, <2>2, <2>3, <2>4, <2>5 DEF WorkInv, RanInv
<1>. QED  BY <1>1, <1>2, <1>3, <1>4, <1>5, <1>6, <1>7

\* Steps that leave rows, containers, proxy, threads and snapshots alone.
LEMMA StillInv ==
    ASSUME CalmInv, WorkInv, UNCHANGED <<rows, docker, proxy, snap, job, hist>>
    PROVE  CalmInv' /\ WorkInv'
<1>1. UNCHANGED <<row, revs, box, made, vol, dom, route, snap, job, upsets, ran>>  BY DEF rows, docker, proxy, hist
<1>2. /\ Calm' = Calm /\ RouteInv' = RouteInv /\ AtRest' = AtRest /\ Quiet' = Quiet
      /\ \A a \in Actors : Idle(a)' = Idle(a) /\ Phase(a)' = Phase(a)
  BY <1>1 DEF Calm, RouteInv, AtRest, RunsOne, Quiet, Idle, Phase, Known, New, Exists
<1>3. CalmInv'  BY <1>2 DEF CalmInv
<1>4. RanInv' /\ IdsInv' /\ ActiveInv' /\ SnapshotSound'
  BY <1>1 DEF WorkInv, RanInv, RanAsRecorded, At, IdsInv, ActiveInv, App, Exists, Calm, SnapshotSound
<1>. QED  BY <1>3, <1>4 DEF WorkInv

LEMMA HostInvAlways == HostingSpec => [](CalmInv /\ WorkInv)
<1>1. HostingInit => CalmInv /\ WorkInv
  <2>. SUFFICES ASSUME HostingInit PROVE CalmInv /\ WorkInv  OBVIOUS
  <2>1. row.state = "none" /\ revs = <<>> /\ box = {} /\ route = None /\ snap = None
    BY DEF HostingInit
  <2>2. \A a \in Actors : Idle(a) /\ job[a].pc = "idle"  BY DEF HostingInit, Idle, Nothing
  <2>3. CalmInv  BY <2>1, <2>2 DEF CalmInv, RouteInv, AtRest
  <2>4. RanInv /\ IdsInv /\ ActiveInv /\ SnapshotSound
    BY <2>1, <2>2 DEF RanInv, RanAsRecorded, At, IdsInv, ActiveInv, App, Exists, SnapshotSound
  <2>. QED  BY <2>3, <2>4 DEF WorkInv
<1>2. HostTypes /\ CalmInv /\ WorkInv /\ [HostingNext]_hvars => CalmInv' /\ WorkInv'
  <2>. SUFFICES ASSUME HostTypes, CalmInv, WorkInv, [HostingNext]_hvars PROVE CalmInv' /\ WorkInv'  OBVIOUS
  <2>1. CASE UNCHANGED hvars  BY <2>1, StillInv DEF hvars, dumps
  <2>2. CASE Apart  BY <2>2, ApartTypes, StillInv
  <2>3. ASSUME NEW a \in Actors, TriggerBackup(a) PROVE CalmInv' /\ WorkInv'  BY <2>3, StillInv DEF TriggerBackup
  <2>4. ASSUME NEW a \in Actors, DatabaseRequest(a), ~TriggerBackup(a) PROVE CalmInv' /\ WorkInv'
    BY <2>4, DatabaseCalm, DatabaseAsks, AsksInv
  <2>5. ASSUME NEW a \in Actors, DeploymentRequest(a) PROVE CalmInv' /\ WorkInv'
    BY <2>5, RequestCalm, DeploymentAsks, AsksInv
  <2>6. ASSUME NEW a \in Actors, ProvisionNext(a) \/ PollLost(a) PROVE CalmInv' /\ WorkInv'
    <3>1. CalmInv'  BY <2>6, ProvisionCalm DEF WorkInv
    <3>2. WorkInv'  BY <2>6, PlainSteps, AsksInv, WorkSteps DEF ProvisionNext
    <3>. QED  BY <3>1, <3>2
  <2>7. ASSUME NEW a \in Actors, DeploymentNext(a) PROVE CalmInv' /\ WorkInv'
    <3>1. CalmInv'  BY <2>7, ThreadCalm
    <3>2. WorkInv'  BY <2>7, PlainSteps, AsksInv, WorkSteps DEF DeploymentNext
    <3>. QED  BY <3>1, <3>2
  <2>. QED  BY <2>1, <2>2, <2>3, <2>4, <2>5, <2>6, <2>7 DEF HostingNext, Apart
<1>. QED  BY <1>1, <1>2, HostTypesAlways, PTL DEF HostingSpec

-----------------------------------------------------------------------------
\* A revision that counts as run has run, for any number of threads whose requests, builds
\* and provisionings interleave in any way: a rollback finds only revisions that came up.
THEOREM RunsRecorded == HostingSpec => []RanAsRecorded
<1>1. WorkInv => RanAsRecorded  BY DEF WorkInv, RanInv
<1>. QED  BY <1>1, HostInvAlways, PTL

\* A deployment always has an active revision; exactly one while requests do not overlap.
THEOREM OneActive == HostingSpec => []OneActiveRevision
<1>1. HostTypes /\ WorkInv => OneActiveRevision
  <2>. SUFFICES ASSUME HostTypes, WorkInv, App PROVE ActiveRevs # {} /\ (Calm => Cardinality(ActiveRevs) = 1)
    BY DEF OneActiveRevision
  <2>1. revs \in Seq(Revision) /\ revs # <<>> /\ revs[Len(revs)].active
    BY DEF WorkInv, ActiveInv, HostTypes, RowsOK
  <2>2. Len(revs) \in DOMAIN revs  BY <2>1
  <2>3. Len(revs) \in ActiveRevs  BY <2>1, <2>2 DEF ActiveRevs
  <2>4. ASSUME Calm PROVE Cardinality(ActiveRevs) = 1
    <3>1. ActiveRevs = {Len(revs)}  BY <2>3, <2>4 DEF WorkInv, ActiveInv, ActiveRevs
    <3>. QED  BY <3>1, FS_Singleton
  <2>. QED  BY <2>3, <2>4
<1>. QED  BY <1>1, HostTypesAlways, HostInvAlways, PTL

\* At rest and as long as no requests have overlapped, the row tells the truth about the
\* containers and, where the agent does not fail, about the volume.
THEOREM TruthfulRow == HostingSpec => []RowTellsTruth
<1>1. CalmInv => RowTellsTruth
  <2>. SUFFICES ASSUME AtRest
                PROVE  /\ row.state = "running" =>
                             /\ Cardinality(box) = 1
                             /\ App => box = {[id |-> row.port, env |-> row.env]}
                       /\ row.state \in {"none", "suspended", "deleted"} => box = {}
                       /\ row.state = "deleted" /\ Faults = {} => ~vol
    BY DEF CalmInv, RowTellsTruth
  <2>1. ASSUME row.state = "running" PROVE Cardinality(box) = 1
    <3>1. PICK c \in box : box = {c}  BY <2>1 DEF AtRest, RunsOne
    <3>. QED  BY <3>1, FS_Singleton
  <2>. QED  BY <2>1 DEF AtRest, RunsOne, App
<1>. QED  BY <1>1, HostInvAlways, PTL

\* Without overlapping requests no route outlives its domain.
THEOREM RoutesEnd == HostingSpec => []NoStrayRoute
<1>1. CalmInv => NoStrayRoute  BY DEF CalmInv, RouteInv, NoStrayRoute
<1>. QED  BY <1>1, HostInvAlways, PTL

\* Without overlapping requests a snapshot is taken of a volume nobody writes to, except
\* of a deployment in state error.
THEOREM SnapshotsSound == HostingSpec => []SnapshotSound
<1>1. WorkInv => SnapshotSound  BY DEF WorkInv
<1>. QED  BY <1>1, HostInvAlways, PTL
=============================================================================
