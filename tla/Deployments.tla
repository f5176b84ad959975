---------------------------- MODULE Deployments ----------------------------
(***************************************************************************)
(* The requests on an app deployment (api/deployments.py, api/templates.py,*)
(* api/projects.py, api/volumes.py, api/domains.py, api/admin.py), the     *)
(* auto-sleeper and the wake proxy.  create_deployment picks a node; the   *)
(* placement of deployments on nodes is not part of this model.            *)
(***************************************************************************)
EXTENDS Provisioning

\* A request that a thread handles in one transaction of its own.
Request(a) == Idle(a) /\ App

CreateDeployment(a, src, env) ==
    /\ Idle(a) /\ row.state = "none"
    /\ row' = [kind |-> "app", src |-> src, state |-> "created", env |-> env, port |-> 0]
    /\ NewRevision("created", None, FALSE)
    /\ Provision(a)
    /\ UNCHANGED <<docker, builds, proxy, dumps>>

\* /deploy and /restart; the provisioning is part of the request.
RestartDeployment(a) ==
    /\ Request(a)
    /\ row' = SetState("building")
    /\ NewRevision("building", row.env, FALSE)
    /\ Provision(a)
    /\ UNCHANGED <<docker, builds, proxy, dumps>>

GithubWebhook(a) ==
    /\ Request(a)
    /\ row' = SetState("created")
    /\ NewRevision("created", None, FALSE)
    /\ Provision(a)
    /\ UNCHANGED <<docker, builds, proxy, dumps>>

\* update_env_vars and delete_env_var: a running deployment is redeployed, in
\* the background; another one keeps its new variables for its next start.
UpdateEnv(a, env) ==
    /\ Request(a)
    /\ IF row.state = "running"
          THEN /\ row' = [row EXCEPT !.env = env, !.state = "building"]
               /\ NewRevision("building", env, TRUE)
               /\ Provision(a)
          ELSE /\ row' = [row EXCEPT !.env = env]
               /\ UNCHANGED <<revs, job>> /\ Meanwhile
    /\ UNCHANGED <<docker, builds, proxy, dumps>>

\* connect_database redeploys whatever the state is, and leaves it alone.
ConnectDatabase(a, env) ==
    /\ Request(a)
    /\ row' = [row EXCEPT !.env = env]
    /\ Provision(a)
    /\ UNCHANGED <<revs, docker, builds, proxy, dumps>>

\* The target of a rollback: the one asked for, which must have an image, or
\* the last inactive one that has run.
Successful == { i \in DOMAIN revs : revs[i].status = "running" /\ ~revs[i].active }
Targets == { i \in DOMAIN revs : revs[i].tag }
           \cup { i \in Successful : \A j \in Successful : j <= i }
Rollback(a, i) ==
    LET env == IF revs[i].env = None THEN row.env ELSE revs[i].env IN
    /\ Request(a) /\ i \in Targets
    /\ row' = [row EXCEPT !.state = "building", !.env = env]
    /\ NewRevision("building", env, TRUE)
    /\ Provision(a)
    /\ UNCHANGED <<docker, builds, proxy, dumps>>

-----------------------------------------------------------------------------
\* A call of the agent's stop that may get lost: nothing looks at the answer.
AgentStop(a) ==
    \/ StopContainers /\ UNCHANGED hist
    \/ "agent" \in Faults /\ Upset /\ UNCHANGED <<box, ran, asked>>

StopDeployment(a) ==
    /\ Request(a)
    /\ row' = SetState("stopped")
    /\ Begins(a, "stop", "stopped")
    /\ UNCHANGED <<revs, docker, builds, proxy, dumps>>
StopAgent(a) ==
    /\ At(a, "stop")
    /\ AgentStop(a)
    /\ GoesTo(a, "stopped")
    /\ UNCHANGED <<rows, made, vol, builds, proxy, dumps>>
StopCommit(a) ==
    /\ At(a, "stopped")
    /\ row' = IF Exists THEN SetState(Written(a, "suspended")) ELSE row
    /\ Ends(a)
    /\ UNCHANGED <<revs, docker, builds, proxy, dumps, hist>>

\* The admin's force-stop changes nothing when the agent cannot be reached.
\* (force-start names a state that DeploymentState does not have: it raises.)
ForceStop(a) ==
    /\ Request(a)
    /\ StopContainers
    /\ row' = SetState("suspended")
    /\ Meanwhile
    /\ UNCHANGED <<revs, made, vol, builds, proxy, dumps, job>>

\* delete_deployment: stop, volume and routes, then the rows.
DeleteDeployment(a) ==
    /\ Request(a)
    /\ Begins(a, "delete", row.state)
    /\ UNCHANGED <<rows, docker, builds, proxy, dumps>>
DeleteVolume == vol' \in {FALSE} \cup (IF "agent" \in Faults THEN {vol} ELSE {})
\* Mutant: the routes of the domains stay in the proxy.
DeleteAgent_KeepRoute(a) ==
    /\ At(a, "delete")
    /\ AgentStop(a)
    /\ vol' = FALSE
    /\ GoesTo(a, "deleted")
    /\ UNCHANGED <<rows, made, builds, proxy, dumps>>
DeleteAgent(a) ==
    /\ At(a, "delete")
    /\ AgentStop(a)
    /\ DeleteVolume
    /\ IF dom = None THEN UNCHANGED route ELSE UnregisterRoute
    /\ GoesTo(a, "deleted")
    /\ UNCHANGED <<rows, made, builds, dom, dumps>>
DeleteCommit(a) ==
    /\ At(a, "deleted")
    /\ row' = SetState("deleted")
    /\ revs' = <<>> /\ dom' = None
    /\ Ends(a)
    /\ UNCHANGED <<docker, builds, route, dumps, hist>>

-----------------------------------------------------------------------------
\* The sleeper finds that a deployment has received nothing since its last
\* look: it stops it, and points its domains at the wake proxy.  A call that
\* raises ends the attempt, an error that the agent answers does not.
Sleep(a) ==
    /\ Request(a) /\ row.state = "running"
    /\ Begins(a, "sleep", row.state)
    /\ UNCHANGED <<rows, docker, builds, proxy, dumps>>
SleepStop(a) ==
    /\ At(a, "sleep")
    /\ \/ AgentStop(a) /\ GoesTo(a, "slept")
       \/ "agent" \in Faults /\ Ends(a) /\ UNCHANGED <<box, hist>>
    /\ UNCHANGED <<rows, made, vol, builds, proxy, dumps>>
SleepCommit(a) ==
    /\ At(a, "slept")
    /\ row' = IF Exists THEN SetState("suspended") ELSE row
    /\ IF dom = "active" THEN RegisterFallback ELSE UNCHANGED route
    /\ Ends(a)
    /\ UNCHANGED <<revs, docker, builds, dom, dumps, hist>>

\* A visitor of a sleeping deployment.  The state stays suspended until the
\* container is up: every refresh of the waiting page provisions once more.
WakeProxy(a) ==
    /\ Request(a) /\ dom # None /\ row.state = "suspended"
    /\ Provision(a)
    /\ UNCHANGED <<rows, docker, builds, proxy, dumps>>

-----------------------------------------------------------------------------
AttachDomain(a) ==
    /\ Request(a) /\ dom = None
    /\ dom' = "pending_dns"
    /\ Meanwhile
    /\ UNCHANGED <<rows, docker, builds, route, dumps, job>>
\* verify_custom_domain: dns_diagnostics finds one of the records, or none.
DnsAnswer == {"active", "failed"}
VerifyDomain(a) ==
    /\ Request(a) /\ dom # None
    /\ dom' \in DnsAnswer
    /\ IF dom' = "active" /\ row.state = "running"
          THEN RegisterRoute(row.port) ELSE UNCHANGED route
    /\ Meanwhile
    /\ UNCHANGED <<rows, docker, builds, dumps, job>>
DetachDomain(a) ==
    /\ Request(a) /\ dom # None
    /\ UnregisterRoute
    /\ dom' = None
    /\ Meanwhile
    /\ UNCHANGED <<rows, docker, builds, dumps, job>>

\* create_volume_snapshot: the agent packs the directory, file by file, while the
\* request waits; without a directory it answers 404.  Whoever runs a container at
\* the time writes to the files that are read.
\* Mutant: a running deployment is not refused.
TakeSnapshot_Running(a) ==
    /\ Request(a) /\ vol
    /\ job' = [job EXCEPT ![a] = [Nothing EXCEPT !.pc = "tar", !.seen = row.state,
                                                !.old = box, !.new = made]]
    /\ Meanwhile
    /\ UNCHANGED <<rows, docker, builds, proxy, dumps>>
TakeSnapshot(a) ==
    /\ Request(a) /\ row.state # "running" /\ vol
    /\ job' = [job EXCEPT ![a] = [Nothing EXCEPT !.pc = "tar", !.seen = row.state,
                                                !.old = box, !.new = made]]
    /\ Meanwhile
    /\ UNCHANGED <<rows, docker, builds, proxy, dumps>>
SnapshotTar(a) ==
    /\ At(a, "tar")
    /\ \/ snap' = [of |-> job[a].seen,
                   torn |-> job[a].old # {} \/ box # {} \/ made # job[a].new]
       \/ "agent" \in Faults /\ UNCHANGED snap
    /\ Ends(a)
    /\ UNCHANGED <<rows, docker, builds, proxy, saved, hist>>

\* restore_volume_snapshot makes the directory; then it always fails, because the
\* agent imports a function that s3_storage does not have.
RestoreAgent == vol' = TRUE
RestoreSnapshot(a) ==
    /\ Request(a) /\ row.state # "running"
    /\ RestoreAgent
    /\ Meanwhile
    /\ UNCHANGED <<rows, box, made, builds, proxy, dumps, job>>

DeploymentNext(a) ==
    \/ StopAgent(a) \/ StopCommit(a) \/ DeleteAgent(a) \/ DeleteCommit(a)
    \/ SleepStop(a) \/ SleepCommit(a) \/ SnapshotTar(a)
DeploymentRequest(a) ==
    \/ \E src \in Sources : CreateDeployment(a, src, None)
    \/ \E env \in Env : UpdateEnv(a, env)
    \/ \E env \in Envs : ConnectDatabase(a, env)
    \/ \E i \in DOMAIN revs : Rollback(a, i)
    \/ RestartDeployment(a) \/ GithubWebhook(a) \/ StopDeployment(a)
    \/ ForceStop(a) \/ DeleteDeployment(a) \/ Sleep(a) \/ WakeProxy(a)
    \/ AttachDomain(a) \/ VerifyDomain(a) \/ DetachDomain(a)
    \/ TakeSnapshot(a) \/ RestoreSnapshot(a)
=============================================================================
