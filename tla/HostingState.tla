---------------------------- MODULE HostingState ----------------------------
(***************************************************************************)
(* A hosted resource, an app deployment or a managed database: its rows,   *)
(* its containers on the node (runtime/docker_runtime.py), the builds the  *)
(* agent runs for it and its route in the ingress proxy.  One resource is  *)
(* enough: requests for different resources touch different rows and       *)
(* different containers.  A host port is the number of its container.      *)
(***************************************************************************)
EXTENDS Naturals, Sequences, FiniteSets

CONSTANTS
    Actors,          \* threads of the control plane: requests, background tasks, the sleeper
    Envs,            \* values of env_vars; None is the empty one
    Sources,         \* source_type of the deployment: image or github
    Pullable,        \* the sources whose image can be pulled from a registry
    Faults,          \* "agent": calls of the agent may fail, "amnesia": it restarts
    MaxRequests,     \* bound on requests, and so on revisions and containers
    MaxUpsets,       \* bound on requests that overlap another and on stops that are lost
    Wake,            \* the wake proxy, as the target of a route
    None

ASSUME HostingAssumption ==
    /\ Sources \subseteq {"image", "github"} /\ Pullable \subseteq Sources
    /\ Faults \subseteq {"agent", "amnesia"}
    /\ MaxRequests \in Nat /\ MaxUpsets \in Nat
    /\ None \notin Envs \cup {"pending_dns", "failed", "active"} /\ Wake # None

VARIABLES
    row,     \* AppDeployment or DatabaseInstance
    revs,    \* DeploymentRevision rows, oldest first
    box,     \* containers labelled with the resource's id
    made,    \* containers run so far
    build,   \* _build_status of the agent
    tasks,   \* builds queued or under way, by the request that asked for them
    vol,     \* the directory of the volume exists
    dom,     \* status of the custom domain, or None
    route,   \* where Caddy sends the domain: a port, the wake proxy, or None
    saved,   \* age of the newest database backup in S3
    snap,    \* the newest snapshot of the volume: [of, torn], or None
    job,     \* what an actor is doing
    upsets,  \* requests that came while a thread was at work, and stops that were lost
    ran,     \* the revisions a container has come up for
    asked    \* requests so far

rows   == <<row, revs>>
docker == <<box, made, vol>>
builds == <<build, tasks>>
proxy  == <<dom, route>>
hist   == <<upsets, ran, asked>>
dumps  == <<saved, snap>>
hvars == <<rows, docker, builds, proxy, dumps, job, hist>>

\* "none" and "deleted": there is no row.
DeploymentState == { "created", "building", "running", "suspended", "stopped", "error",
                     "crash_loop", "quota_exceeded", "none", "deleted" }
Env == Envs \cup {None}
Deployment ==
    [kind : {"app", "db"}, src : {"image", "github"}, state : DeploymentState,
     env : Env, port : Nat]
Revision == [status : DeploymentState, active : BOOLEAN, env : Env, tag : BOOLEAN]
Container == [id : Nat, env : Env]

Pc == { "idle", "load", "post", "poll", "list", "run", "wait", "commit", "route", "fail",
        "stop", "stopped", "sleep", "slept", "delete", "deleted", "tar" }
\* What a thread has loaded or been told: the state and the env_vars of the
\* row, its revision, the containers it replaces, the one it has started.
Job == [pc : Pc, seen : DeploymentState, env : Env, rev : 0..MaxRequests, old : SUBSET Container, new : Nat]
Nothing == [pc |-> "idle", seen |-> "none", env |-> None, rev |-> 0, old |-> {}, new |-> 0]

\* The state of rows, containers, builds, proxy and threads.
HostingTypeOK ==
    /\ row \in Deployment
    /\ revs \in Seq(Revision) /\ Len(revs) <= MaxRequests
    /\ box \subseteq Container /\ made \in Nat
    /\ build \in {"unknown", "building", "success", "error"}
    /\ tasks \in [Actors -> {"none", "queued", "busy"}]
    /\ vol \in BOOLEAN
    /\ dom \in {None, "pending_dns", "failed", "active"}
    /\ route \in {None, Wake} \cup Nat
    /\ saved \in {None, "old", "recent"}
    /\ snap \in [of : DeploymentState, torn : BOOLEAN] \cup {None}
    /\ job \in [Actors -> Job]
    /\ upsets \in 0..MaxUpsets /\ ran \subseteq 1..MaxRequests /\ asked \in 0..MaxRequests

HostingInit ==
    /\ row = [kind |-> "app", src |-> "image", state |-> "none", env |-> None, port |-> 0]
    /\ revs = <<>>
    /\ box = {} /\ made = 0 /\ vol = FALSE
    /\ build = "unknown" /\ tasks = [a \in Actors |-> "none"]
    /\ dom = None /\ route = None /\ saved = None /\ snap = None
    /\ job = [a \in Actors |-> Nothing]
    /\ upsets = 0 /\ ran = {} /\ asked = 0

-----------------------------------------------------------------------------
Exists == row.state \notin {"none", "deleted"}
App == Exists /\ row.kind = "app"
Db == Exists /\ row.kind = "db"

Idle(a) == job[a] = Nothing
Quiet == \A a \in Actors : Idle(a)
At(a, pc) == job[a].pc = pc
GoesTo(a, pc) == job' = [job EXCEPT ![a].pc = pc]
Ends(a) == job' = [job EXCEPT ![a] = Nothing]

\* A request comes, alone or while threads are at work; a thread takes it up.
Upset == upsets < MaxUpsets /\ upsets' = upsets + 1
Meanwhile ==
    /\ asked < MaxRequests /\ asked' = asked + 1
    /\ IF Quiet THEN UNCHANGED upsets ELSE Upset
    /\ UNCHANGED ran
Begins(a, pc, seen) ==
    /\ job' = [job EXCEPT ![a] = [Nothing EXCEPT !.pc = pc, !.seen = seen]]
    /\ Meanwhile

SetState(s) == [row EXCEPT !.state = s]

\* _deactivate_old_revisions and the insertion of a new, active revision.
Deactivated == [i \in DOMAIN revs |-> [revs[i] EXCEPT !.active = FALSE]]
\* Mutant: the revisions of before stay active.
NewRevision_KeepActive(status, env, tag) ==
    revs' = Append(revs, [status |-> status, active |-> TRUE, env |-> env, tag |-> tag])
NewRevision(status, env, tag) ==
    revs' = Append(Deactivated, [status |-> status, active |-> TRUE, env |-> env, tag |-> tag])

-----------------------------------------------------------------------------
\* DockerRuntime: stop_deployment removes every container of the resource.
StopContainers == box' = {}

\* Caddy refuses a second route with the @id of an existing one, as the
\* comment in register_fallback_route expects.
RegisterRoute(port) == route' = IF route = None THEN port ELSE route
RegisterFallback == route' = Wake
UnregisterRoute == route' = None

\* The agent's builds: the task sets the status when it runs, not when it is
\* queued, and the dictionary is shared by all builds of the deployment.
BuildStarts(a) ==
    /\ tasks[a] = "queued"
    /\ tasks' = [tasks EXCEPT ![a] = "busy"]
    /\ build' = "building"
    /\ UNCHANGED <<rows, docker, proxy, dumps, job, hist>>
\* build_from_github: clone and image build work or raise.
Built == {"success", "error"}
BuildEnds(a) ==
    /\ tasks[a] = "busy"
    /\ tasks' = [tasks EXCEPT ![a] = "none"]
    /\ build' \in Built
    /\ UNCHANGED <<rows, docker, proxy, dumps, job, hist>>

\* The agent restarts; Docker keeps the containers.
AgentRestarts ==
    /\ "amnesia" \in Faults
    /\ build # "unknown" \/ \E a \in Actors : tasks[a] # "none"
    /\ build' = "unknown"
    /\ tasks' = [a \in Actors |-> "none"]
    /\ UNCHANGED <<rows, docker, proxy, dumps, job, hist>>
=============================================================================
