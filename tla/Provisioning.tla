---------------------------- MODULE Provisioning ----------------------------
(***************************************************************************)
(* services/provisioning.py: bringing a deployment or a database up, in a  *)
(* request or in a background task, with the start of its container by the *)
(* agent.  Nothing keeps two threads from provisioning the same resource.  *)
(***************************************************************************)
EXTENDS HostingState

\* provision_resource, called by the request or queued behind its answer.
Provision(a) == Begins(a, "load", "none")

\* The rows are loaded: nothing but a commit of this thread refreshes them.
Load(a) ==
    /\ At(a, "load")
    /\ IF Exists
          THEN job' = [job EXCEPT ![a] =
                         [job[a] EXCEPT !.seen = row.state, !.env = row.env, !.rev = Len(revs),
                                        !.pc = IF row.kind = "app" /\ row.src = "github"
                                                  THEN "post" ELSE "list"]]
          ELSE Ends(a)
    /\ UNCHANGED <<rows, docker, builds, proxy, dumps, hist>>

\* POST build-github: the agent queues a task and answers.
PostBuild(a) ==
    /\ At(a, "post")
    /\ \/ /\ tasks' = [tasks EXCEPT ![a] = "queued"]
          /\ GoesTo(a, "poll")
       \/ /\ "agent" \in Faults
          /\ GoesTo(a, "fail")
          /\ UNCHANGED tasks
    /\ UNCHANGED <<rows, docker, build, proxy, dumps, hist>>

\* What the answer of build-status does; "building" is asked again later.
\* Mutant: an unknown status is asked again, too.
Polled_Patient(status) == IF status \in {"success"} THEN "list"
                          ELSE IF status = "error" THEN "fail" ELSE "poll"
Polled(status) == IF status = "success" THEN "list"
                  ELSE IF status \in {"error", "unknown"} THEN "fail" ELSE "poll"

\* The image of the revision is built.
Tagged(r) == [r EXCEPT !.tag = TRUE, !.status = "building"]

\* One round of the poll loop.  The row is set to building first, when the
\* state the thread knows is another one; what it knows is read again only
\* after a commit of its own.
Poll(a) ==
    /\ At(a, "poll") /\ Exists
    /\ row' = IF job[a].seen = "building" THEN row ELSE SetState("building")
    /\ LET commits == job[a].seen # "building" \/ build = "success"
           known == IF commits THEN row' ELSE [state |-> job[a].seen, env |-> job[a].env] IN
       job' = [job EXCEPT ![a] =
                 [job[a] EXCEPT !.pc = Polled(build), !.seen = known.state, !.env = known.env]]
    /\ revs' = IF Polled(build) = "list"
                  THEN [revs EXCEPT ![job[a].rev] = Tagged(@)]
                  ELSE revs
    /\ job' # job \/ row' # row
    /\ UNCHANGED <<docker, builds, proxy, dumps, hist>>
PollLost(a) ==
    /\ "agent" \in Faults
    /\ At(a, "poll")
    /\ GoesTo(a, "fail")
    /\ UNCHANGED <<rows, docker, builds, proxy, dumps, hist>>

-----------------------------------------------------------------------------
\* start_deployment of the runtime: list the containers to be replaced, pull,
\* run the new one, wait for it, remove the old ones.
MakeVolume == vol' = TRUE
StartList(a) ==
    /\ At(a, "list")
    /\ \/ job' = [job EXCEPT ![a] = [job[a] EXCEPT !.pc = "run", !.old = box]] /\ MakeVolume
       \/ "agent" \in Faults /\ GoesTo(a, "fail") /\ UNCHANGED vol
    /\ UNCHANGED <<rows, box, made, builds, proxy, dumps, hist>>

\* A source whose image is not in a registry cannot be pulled.
Pulls(src) == src \in Pullable
StartRun(a) ==
    /\ At(a, "run")
    /\ \/ /\ Pulls(row.src)
          /\ made' = made + 1
          /\ box' = box \cup {[id |-> made + 1, env |-> job[a].env]}
          /\ job' = [job EXCEPT ![a] = [job[a] EXCEPT !.pc = "wait", !.new = made + 1]]
       \/ GoesTo(a, "fail") /\ UNCHANGED <<box, made>>
    /\ UNCHANGED <<rows, vol, builds, proxy, dumps, hist>>

\* Running and, if there is a health_check_path, answering.  A container that
\* does not get there is left as it is.
Mine(a) == { c \in box : c.id = job[a].new }

\* Mutant: the containers of before are kept.
StartWait_KeepOld(a) ==
    /\ At(a, "wait")
    /\ \/ Mine(a) # {} /\ ran' = ran \cup ({job[a].rev} \ {0}) /\ GoesTo(a, "commit") /\ UNCHANGED box
       \/ GoesTo(a, "fail") /\ UNCHANGED <<box, ran>>
    /\ UNCHANGED <<rows, made, vol, builds, proxy, dumps, upsets, asked>>

StartWait(a) ==
    /\ At(a, "wait")
    /\ \/ /\ Mine(a) # {}
          /\ box' = box \ job[a].old
          /\ ran' = ran \cup ({job[a].rev} \ {0})
          /\ GoesTo(a, "commit")
       \/ GoesTo(a, "fail") /\ UNCHANGED <<box, ran>>
    /\ UNCHANGED <<rows, made, vol, builds, proxy, dumps, upsets, asked>>

-----------------------------------------------------------------------------
\* A column is written when it differs from the value the thread has loaded.
Written(a, s) == IF job[a].seen = s THEN row.state ELSE s

\* After the poll loop's commit is_active is written whatever it was.
Succeeded(r) == [r EXCEPT !.status = "running", !.tag = TRUE,
                          !.active = IF row.src = "github" THEN TRUE ELSE r.active]

\* Mutant: the newest revision gets the credit, not the one that was started.
Commit_Latest(a) ==
    /\ At(a, "commit") /\ App
    /\ row' = [row EXCEPT !.state = Written(a, "running"), !.port = job[a].new]
    /\ revs' = [revs EXCEPT ![Len(revs)] = Succeeded(@)]
    /\ GoesTo(a, "route")
    /\ UNCHANGED <<docker, builds, proxy, dumps, hist>>

Commit(a) ==
    /\ At(a, "commit") /\ App
    /\ row' = [row EXCEPT !.state = Written(a, "running"), !.port = job[a].new]
    /\ revs' = [revs EXCEPT ![job[a].rev] = Succeeded(@)]
    /\ GoesTo(a, "route")
    /\ UNCHANGED <<docker, builds, proxy, dumps, hist>>

\* The end of _provision_database_instance: a database has neither revisions
\* nor a recorded port.
CommitDatabase(a) ==
    /\ \/ At(a, "commit") /\ row' = SetState(Written(a, "running"))
       \/ At(a, "fail") /\ row' = SetState(Written(a, "error"))
    /\ Db
    /\ Ends(a)
    /\ UNCHANGED <<revs, docker, builds, proxy, dumps, hist>>

\* The routes of the active domains.
Route(a) ==
    /\ At(a, "route")
    /\ IF dom = "active" THEN RegisterRoute(job[a].new) ELSE UNCHANGED route
    /\ Ends(a)
    /\ UNCHANGED <<rows, docker, builds, dom, dumps, hist>>

\* The exception handler marks the newest revision, whoever inserted it.
\* Mutant: a state that DeploymentState does not have.
Fail_Failed(a) ==
    /\ At(a, "fail") /\ App
    /\ row' = SetState(Written(a, "failed"))
    /\ revs' = [revs EXCEPT ![Len(revs)].status = "failed"]
    /\ Ends(a)
    /\ UNCHANGED <<docker, builds, proxy, dumps, hist>>

Fail(a) ==
    /\ At(a, "fail") /\ App
    /\ row' = SetState(Written(a, "error"))
    /\ revs' = [revs EXCEPT ![Len(revs)].status = "error"]
    /\ Ends(a)
    /\ UNCHANGED <<docker, builds, proxy, dumps, hist>>

\* The row was deleted meanwhile: its UPDATE fails and the task ends.
RowGone(a) ==
    /\ job[a].pc \in {"poll", "commit", "fail"} /\ ~Exists
    /\ Ends(a)
    /\ UNCHANGED <<rows, docker, builds, proxy, dumps, hist>>

ProvisionNext(a) ==
    \/ Load(a) \/ PostBuild(a) \/ Poll(a) \/ StartList(a) \/ StartRun(a)
    \/ StartWait(a) \/ Commit(a) \/ CommitDatabase(a) \/ Route(a) \/ Fail(a) \/ RowGone(a)
=============================================================================
