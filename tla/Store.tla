------------------------------- MODULE Store -------------------------------
(***************************************************************************)
(* The disk of a node: the mods of its servers and the game software they  *)
(* share, behind one agent that may be restarted at any time.              *)
(***************************************************************************)
EXTENDS Mods, Software

vars == <<mvars, svars, asked>>

StoreInit == ModsInit /\ SettingsInit /\ SoftwareInit /\ asked = 0

\* The agent's process ends and comes back.
Restart == Ask /\ DownloadsLost /\ StartsLost

\* A handler works on one request at a time.
OneRequest ==
    \A r \in Requests : inst'[r] # None \/ fetch'[r] # None => go'[r] = None /\ edit'[r] = None

StoreNext ==
    \/ ModsNext /\ UNCHANGED svars /\ OneRequest
    \/ SoftwareNext /\ UNCHANGED mvars /\ OneRequest
    \/ Restart

Spec == StoreInit /\ [][StoreNext]_vars

-----------------------------------------------------------------------------
\* Types of the disk and the requests; a lease belongs to a running install of its
\* server (install_mod releases it in its finally clause).
StoreTypeOK ==
    /\ asked \in 0..MaxRequests
    /\ want \in [Servers -> [flavor : Flavors, ver : Releases]]
    /\ mods \in [Servers -> [Jar -> Content]]
    /\ inst \in [Requests -> Install \cup {None}]
    /\ fetch \in [Requests -> Fetch \cup {None}]
    /\ told \in [Servers -> SUBSET Projects] /\ blurred \subseteq Servers
    /\ \A s \in Servers : lease[s] # None => inst[lease[s]] # None /\ inst[lease[s]].srv = s
    /\ jdk \in BOOLEAN /\ tar \in Requests \cup {None}
    /\ jar \in [Releases -> CachedJar \cup {None}]
    /\ dist \in [Releases -> {"whole", "part", None}]
    /\ temp \in [Releases -> TempDir \cup {None}]
    /\ link \in [Servers -> Releases \cup {None}]
    /\ go \in [Requests -> Start \cup {None}]
    /\ run \in [Servers -> Process \cup {None}]
    /\ clash \subseteq Releases
    /\ props \in [Tuned -> File \cup {None}] /\ part \in [Tuned -> File \cup {None}]
    /\ conf \in [Tuned -> [Keys -> Value]] /\ mine \in [Tuned -> [Keys -> Value]]
    /\ port \in [Tuned -> Ports] /\ draft \in [Tuned -> File \cup {None}]
    /\ edit \in [Requests -> Edit \cup {None}] /\ mixed \subseteq Tuned

\* A mod the owner was told is installed is on the disk, whole, with every required
\* dependency that has a compatible version, and stays until the owner removes it:
\* failed downloads, retries and further installs included.  Interference that
\* install_mod does not guard against is left out (blurred).
ToldIsInstalled ==
    \A s \in Servers \ blurred : \A p \in told[s] :
        \E v \in Versions : mods[s][<<p, v>>] = "whole"

\* No two versions of one mod in the directory the game loads, which the lease and
\* the comparison of slugs are for; not on servers where it was interfered with.
OneVersionPerMod ==
    \A s \in Servers \ blurred, i, j \in Jar :
        i[1] = j[1] /\ mods[s][i] # "none" /\ mods[s][j] # "none" => i = j

\* Jars that a restart of the agent cut off: they stay in the cache.
Torn == { v \in Releases : jar[v] # None /\ jar[v].state = "part" }

\* A server is launched from a complete program, whatever downloads failed or were
\* cut off before, for Bedrock even by a restart of the agent in mid-install; not
\* from a version that two starts fetched at the same time, and not from a Java
\* version a restart cut off.
LaunchedWhole ==
    \A s \in Servers : run[s] # None /\ ~run[s].whole =>
        run[s].ver \in clash \cup (IF s \in JavaServers THEN Torn ELSE {})

\* A server listens on the port the control plane gave it when it started it, where
\* the proxy and the firewall expect it, whatever its owner wrote into the file
\* before; not when the file was written while the server was starting.
ListensWhereTold == \A s \in Tuned \ mixed : run[s] # None => run[s].there
=============================================================================
