-------------------------------- MODULE Mods --------------------------------
(***************************************************************************)
(* Mods of the Java servers (api/mods.py, services/modrinth_client.py, the *)
(* mod endpoints of agent.py).  An install takes a lease on the server,    *)
(* asks the agent which jars it has, resolves the project and its required *)
(* dependencies with Modrinth, and has the agent stream what is missing    *)
(* straight into the directory the game loads.                             *)
(***************************************************************************)
EXTENDS StoreState, FiniteSets

CONSTANTS
    Projects,        \* projects of Modrinth
    Versions,        \* version numbers of a project
    Newest,          \* the newest compatible version of a project, 0 if it has none
    Deps,            \* the required dependencies of a project
    Redis            \* FALSE: every lock is a fresh threading.Lock

ASSUME ModsAssumption ==
    /\ Versions \subseteq Nat \ {0}
    /\ Newest \in [Projects -> Versions \cup {0}]
    /\ Deps \in [Projects -> SUBSET Projects]
    /\ Redis \in BOOLEAN

VARIABLES
    mods,     \* the jars in mods/ or plugins/: "none", "whole", "part", or the download writing it
    lease,    \* lock:mods:install:{server_id}
    inst,     \* install_mod requests
    fetch,    \* agent_download_mods requests, which outlive a caller that gives up
    told,     \* projects the owner was told are installed, and has not removed since
    blurred   \* servers of which an install was cut off or interfered with

mvars == <<mods, lease, inst, fetch, told, blurred>>

Jar == Projects \X Versions
Content == {"none", "whole", "part"} \cup Requests
Install == [srv : JavaServers, root : Projects, ver : Versions \cup {0},
            pc : {"list", "resolve", "download"}, have : SUBSET Jar]
Fetch == [srv : JavaServers, left : SUBSET Jar, file : Jar \cup {None}]

ASSUME ModsNames ==
    /\ None \notin Requests \cup Jar \cup Install \cup Fetch
    /\ Requests \cap {"none", "whole", "part"} = {}

ModsInit ==
    /\ mods = [s \in Servers |-> [j \in Jar |-> "none"]]
    /\ lease = [s \in Servers |-> None]
    /\ inst = [r \in Requests |-> None]
    /\ fetch = [r \in Requests |-> None]
    /\ told = [s \in Servers |-> {}]
    /\ blurred = {}

Blur(s) == blurred' = blurred \cup {s}
\* get_loader_profile, and _require_mod_support on top of it.
Plugins(flavor) == flavor \in PluginFlavors
Managed(s) == s \in JavaServers /\ Plugins(want[s].flavor)
Busy(s) == \E r \in Requests : inst[r] # None /\ inst[r].srv = s

-----------------------------------------------------------------------------
\* resolve_install_files: the version it takes of a project, 0 when it skips it;
\* the projects it visits; the jars they stand for.
Picked(root, ver, p) == IF p = root /\ ver # 0 THEN ver ELSE Newest[p]
Visited(root, ver) ==
    LET more(P) == P \cup UNION { Deps[p] : p \in { q \in P : Picked(root, ver, q) # 0 } }
        reach[n \in 0..Cardinality(Projects)] == IF n = 0 THEN {root} ELSE more(reach[n - 1])
    IN reach[Cardinality(Projects)]
Resolved(root, ver) == { j \in Jar : j[1] \in Visited(root, ver) /\ j[2] = Picked(root, ver, j[1]) }
Wanted(i) == Resolved(i.root, i.ver)

\* A jar counts as installed when any jar of the same project does
\* (mod_slug_from_filename drops the version).
Missing(i) == { j \in Wanted(i) : \A h \in i.have : h[1] # j[1] }

\* The end of a request; the lease is released only by the one who holds it.
Released(r) == [s \in Servers |-> IF lease[s] = r THEN None ELSE lease[s]]
Release(r) == lease' = Released(r) /\ inst' = [inst EXCEPT ![r] = None]

\* Mutant: an install that fails keeps its lease.
Refuse_KeepLease(r) == inst' = [inst EXCEPT ![r] = None] /\ UNCHANGED <<lease, told>>

\* The request raises: an HTTP error.
Refuse(r) == Release(r) /\ UNCHANGED told

\* The request answers 200 with the files installed and those already present.
Answer(r) ==
    /\ Release(r)
    /\ told' = [told EXCEPT ![inst[r].srv] = @ \cup { j[1] : j \in Wanted(inst[r]) }]

-----------------------------------------------------------------------------
\* Mutant: no lock, two installs of a server run at the same time.
InstallMod_NoLock(r, s, p, v) ==
    /\ Ask /\ Managed(s) /\ inst[r] = None /\ fetch[r] = None
    /\ inst' = [inst EXCEPT ![r] = [srv |-> s, root |-> p, ver |-> v, pc |-> "list", have |-> {}]]
    /\ UNCHANGED <<mods, lease, fetch, told, blurred>>

\* install_mod: the newest version (v = 0) or the one the owner picked; 409 while
\* another install holds the lease.
InstallMod(r, s, p, v) ==
    /\ Ask /\ Managed(s) /\ inst[r] = None /\ fetch[r] = None
    /\ ~Redis \/ lease[s] = None
    /\ lease' = [lease EXCEPT ![s] = r]
    /\ inst' = [inst EXCEPT ![r] = [srv |-> s, root |-> p, ver |-> v, pc |-> "list", have |-> {}]]
    /\ UNCHANGED <<mods, fetch, told, blurred>>

At(r, pc) == inst[r] # None /\ inst[r].pc = pc

\* agent_list_mods: every jar by its name, half written or not.
Listed(s) == { j \in Jar : mods[s][j] # "none" }

ListMods(r) ==
    /\ At(r, "list")
    /\ inst' = [inst EXCEPT ![r].pc = "resolve",
                            ![r].have = Listed(inst[r].srv)]
    /\ UNCHANGED <<mods, lease, fetch, told, blurred, asked>>

\* _AgentProxy.list: an agent that does not answer counts as one without jars.
ListFails(r) ==
    /\ At(r, "list")
    /\ inst' = [inst EXCEPT ![r].pc = "resolve"]
    /\ Blur(inst[r].srv)
    /\ UNCHANGED <<mods, lease, fetch, told, asked>>

\* The resolver's result, handed to the agent.
Resolve(r) ==
    /\ At(r, "resolve") /\ Missing(inst[r]) # {}
    /\ inst' = [inst EXCEPT ![r].pc = "download"]
    /\ fetch' = [fetch EXCEPT ![r] = [srv |-> inst[r].srv, left |-> Missing(inst[r]), file |-> None]]
    /\ UNCHANGED <<mods, lease, told, blurred, asked>>

AllPresent(r) ==
    /\ At(r, "resolve") /\ Missing(inst[r]) = {} /\ Wanted(inst[r]) # {}
    /\ Answer(r)
    /\ UNCHANGED <<mods, fetch, blurred, asked>>

\* Modrinth does not answer, or has no file for the project.
ResolveFails(r) ==
    /\ At(r, "resolve")
    /\ Refuse(r)
    /\ UNCHANGED <<mods, fetch, blurred, asked>>

-----------------------------------------------------------------------------
\* agent_download_mods: the jars one after another; opening one truncates it.
Put(s, j, c) == mods' = [mods EXCEPT ![s][j] = c]

OpenJar(r) ==
    /\ fetch[r] # None /\ fetch[r].file = None
    /\ \E j \in fetch[r].left :
         /\ fetch' = [fetch EXCEPT ![r].file = j, ![r].left = @ \ {j}]
         /\ Put(fetch[r].srv, j, r)
    /\ UNCHANGED <<lease, inst, told, blurred, asked>>

\* The last chunk is written.  The file is whole unless a later download opened
\* it again or somebody unlinked it.
SaveJar(r) ==
    /\ fetch[r] # None /\ fetch[r].file # None
    /\ LET s == fetch[r].srv  j == fetch[r].file
       IN IF mods[s][j] = r THEN Put(s, j, "whole") ELSE UNCHANGED mods
    /\ IF fetch[r].left # {}
       THEN /\ fetch' = [fetch EXCEPT ![r].file = None]
            /\ UNCHANGED <<lease, inst, told>>
       ELSE /\ fetch' = [fetch EXCEPT ![r] = None]
            /\ IF inst[r] = None THEN UNCHANGED <<lease, inst, told>> ELSE Answer(r)
    /\ UNCHANGED <<blurred, asked>>

\* The jar it is at: the one it has open, or the one it is about to open.
Current(r) == IF fetch[r].file = None THEN fetch[r].left ELSE {fetch[r].file}

\* Mutant: the half written file is not unlinked.
FailJar_KeepPart(r) ==
    /\ fetch[r] # None
    /\ \E j \in Current(r) : Put(fetch[r].srv, j, "part")
    /\ fetch' = [fetch EXCEPT ![r] = None]
    /\ IF inst[r] = None THEN UNCHANGED <<lease, inst, told>> ELSE Refuse(r)
    /\ UNCHANGED <<blurred, asked>>

\* The CDN fails or the jar exceeds the size limit: the file is unlinked, whoever
\* wrote it, the jars before it stay and those after it are not fetched.
FailJar(r) ==
    /\ fetch[r] # None
    /\ \E j \in Current(r) : Put(fetch[r].srv, j, "none")
    /\ fetch' = [fetch EXCEPT ![r] = None]
    /\ IF inst[r] = None THEN UNCHANGED <<lease, inst, told>> ELSE Refuse(r)
    /\ UNCHANGED <<blurred, asked>>

\* The control plane waits 300 s for the agent, which goes on.
GiveUp(r) ==
    /\ At(r, "download")
    /\ Refuse(r)
    /\ Blur(inst[r].srv)
    /\ UNCHANGED <<mods, fetch, asked>>

\* _INSTALL_LOCK_TTL
LeaseExpires(s) ==
    /\ lease[s] # None
    /\ lease' = [lease EXCEPT ![s] = None]
    /\ Blur(s)
    /\ UNCHANGED <<mods, inst, fetch, told, asked>>

\* The owner removes a jar; neither way takes the lease.
Unlink(s, j) ==
    /\ mods[s][j] # "none"
    /\ Put(s, j, "none")
    /\ told' = [told EXCEPT ![s] = @ \ {j[1]}]
    /\ IF Busy(s) THEN Blur(s) ELSE UNCHANGED blurred
    /\ UNCHANGED <<lease, inst, fetch>>

\* delete_installed_mod
DeleteMod(s, j) == Ask /\ Managed(s) /\ Unlink(s, j)

\* The file manager reaches the jars of every Java server, managed or not: the
\* policy of a Bedrock server has neither mods/ nor plugins/.
InPolicy(s) == s \in JavaServers

\* delete_file_or_folder
DeleteFile(s, j) == Ask /\ InPolicy(s) /\ Unlink(s, j)

\* The agent is restarted: its downloads end where they are.
DownloadsLost ==
    LET cut == { r \in Requests : fetch[r] # None } IN
    /\ fetch' = [r \in Requests |-> None]
    /\ inst' = [r \in Requests |-> IF r \in cut THEN None ELSE inst[r]]
    /\ lease' = [s \in Servers |-> IF lease[s] \in cut THEN None ELSE lease[s]]
    /\ mods' = [s \in Servers |-> [j \in Jar |-> IF mods[s][j] \in Requests THEN "part" ELSE mods[s][j]]]
    /\ blurred' = blurred \cup { fetch[r].srv : r \in cut }
    /\ UNCHANGED told

ModsNext ==
    \/ \E r \in Requests :
         \/ \E s \in JavaServers, p \in Projects, v \in Versions \cup {0} : InstallMod(r, s, p, v)
         \/ ListMods(r) \/ ListFails(r) \/ Resolve(r) \/ AllPresent(r) \/ ResolveFails(r)
         \/ OpenJar(r) \/ SaveJar(r) \/ FailJar(r) \/ GiveUp(r)
    \/ \E s \in JavaServers : LeaseExpires(s) \/ \E j \in Jar : DeleteMod(s, j) \/ DeleteFile(s, j)
=============================================================================
