------------------------------ MODULE Software ------------------------------
(***************************************************************************)
(* Game software on a node (agent.py, orchestrator/server_lifecycle.py,    *)
(* minecraft/software_provider.py).  A start fetches what the node does    *)
(* not have: the JDK and the server jar for a Java server, both cached for *)
(* the node, or the distribution of a Bedrock version, unpacked in a       *)
(* temporary directory and renamed.  Starts of different servers share     *)
(* these caches without a lock.                                            *)
(***************************************************************************)
EXTENDS Settings

CONSTANTS
    Unbuilt,         \* pairs of a Java flavor and a version its provider does not have
    Unavailable,     \* Bedrock versions the download site does not have
    Latest           \* the Bedrock version the download site calls latest

ASSUME SoftwareAssumption ==
    /\ Unbuilt \subseteq Flavors \X Releases
    /\ Unavailable \subseteq Releases /\ Latest \in Releases \ Unavailable

VARIABLES
    jdk,      \* the JDK is installed on the node
    tar,      \* the start whose archive {java_version}.tar.gz is, or None
    jar,      \* java-jars/{version}.jar: [by, state], or None
    dist,     \* the directory of a Bedrock version: "whole", "part", or None
    temp,     \* .tmp-{version}: [by, full], or None
    link,     \* the version a Bedrock server's bedrock_server points to
    clash     \* versions that two starts have fetched at the same time

caches == <<jdk, tar, jar, dist, temp>>
svars == <<want, jdk, tar, jar, dist, temp, link, go, run, clash, setvars>>

JavaPc == {"jdk", "unpack", "jar", "get", "save"}
BedrockPc == {"dist", "zip", "clear", "move", "copy", "copied", "nested"}
Start == [srv : Servers, flavor : Flavors, ver : Releases, pc : JavaPc \cup BedrockPc,
          port : Ports \cup {None}]
CachedJar == [by : Flavors, state : {"whole", "part"} \cup Requests]
TempDir == [by : Requests \cup {None}, full : BOOLEAN]
Process == [flavor : Flavors, ver : Releases, whole : BOOLEAN, there : BOOLEAN]

ASSUME SoftwareNames ==
    /\ None \notin Requests \cup Start \cup CachedJar \cup TempDir \cup Process \cup {"whole", "part"}
    /\ Requests \cap {"whole", "part"} = {}

SoftwareInit ==
    /\ want = Stock
    /\ jdk = FALSE /\ tar = None
    /\ jar = [v \in Releases |-> None]
    /\ dist = [v \in Releases |-> None]
    /\ temp = [v \in Releases |-> None]
    /\ link = [s \in Servers |-> None]
    /\ go = [r \in Requests |-> None]
    /\ run = [s \in Servers |-> None]
    /\ clash = {}

Pc(r, pc) == go[r] # None /\ go[r].pc = pc
Goto(r, pc) == go' = [go EXCEPT ![r].pc = pc]
Ends(r) == go' = [go EXCEPT ![r] = None]
Clash(r) ==
    clash' = clash \cup
        { v \in {go[r].ver} : \E q \in Requests \ {r} :
            /\ go[q] # None /\ go[q].ver = v
            /\ (go[q].srv \in JavaServers) = (go[r].srv \in JavaServers) }

\* The runtime starts the process from the program it is given; the process reads
\* its port from server.properties.
Listens(r) == go[r].srv \in Tuned => props[go[r].srv]["port"] = go[r].port
Launch(r, f, v, w) ==
    /\ run' = [run EXCEPT ![go[r].srv] = [flavor |-> f, ver |-> v, whole |-> w,
                                         there |-> Listens(r)]]
    /\ Ends(r)

-----------------------------------------------------------------------------
\* resolve_jar_url: the provider of the flavor knows a jar of the version.
HasJarUrl(w) == <<w.flavor, w.ver>> \notin Unbuilt

\* start_server on the control plane, up to its call of the agent.
StartServer(r, s) ==
    /\ Ask
    /\ go[r] = None /\ edit[r] = None /\ run[s] = None
    /\ s \in JavaServers => HasJarUrl(want[s])
    /\ go' = [go EXCEPT ![r] = [srv |-> s, flavor |-> want[s].flavor, ver |-> want[s].ver,
                                pc |-> IF s \in JavaServers THEN "jdk" ELSE "dist",
                                port |-> IF s \in Tuned THEN port[s] ELSE None]]
    /\ StartProps(r, s)
    /\ UNCHANGED <<want, caches, link, run, clash, conf, port, props, part, draft, mine, mixed>>

StopServer(s) ==
    /\ Ask
    /\ run[s] # None
    /\ run' = [run EXCEPT ![s] = None]
    /\ UNCHANGED <<want, caches, link, go, clash>>

\* switch_server_software: stops the server and writes the row.  clear_jars removes
\* the links in the server's directory, which the next start makes anew.
SwitchSoftware(s, f, v) ==
    /\ Ask
    /\ want' = [want EXCEPT ![s] = [flavor |-> f, ver |-> v]]
    /\ run' = [run EXCEPT ![s] = None]
    /\ UNCHANGED <<caches, link, go, clash>>

-----------------------------------------------------------------------------
\* ensure_jdk: one archive per version, shared by every request.
JdkPresent(r) ==
    /\ Pc(r, "jdk") /\ jdk
    /\ Goto(r, "jar")
    /\ UNCHANGED <<want, caches, link, run, clash, asked>>

JdkOpen(r) ==
    /\ Pc(r, "jdk") /\ ~jdk
    /\ tar' = r
    /\ Goto(r, "unpack")
    /\ UNCHANGED <<want, jdk, jar, dist, temp, link, run, clash, asked>>

\* The archive is complete; it is unpacked, renamed and removed.  One that another
\* request has opened again or removed does not unpack.
JdkUnpack(r) ==
    /\ Pc(r, "unpack")
    /\ tar' = None
    /\ IF tar = r THEN jdk' = TRUE /\ Goto(r, "jar") ELSE Ends(r) /\ UNCHANGED jdk
    /\ UNCHANGED <<want, jar, dist, temp, link, run, clash, asked>>

JdkFails(r) ==
    /\ Pc(r, "unpack")
    /\ tar' = None
    /\ Ends(r)
    /\ UNCHANGED <<want, jdk, jar, dist, temp, link, run, clash, asked>>

-----------------------------------------------------------------------------
\* agent start_server, Java: the jar of the version, whatever its flavor.
LaunchJar(r, c) == Launch(r, c.by, go[r].ver, c.state = "whole")

JarPresent(r) ==
    /\ Pc(r, "jar") /\ edit[r] = None /\ jar[go[r].ver] # None
    /\ LaunchJar(r, jar[go[r].ver])
    /\ Clash(r)
    /\ UNCHANGED <<want, caches, link, asked>>

JarAbsent(r) ==
    /\ Pc(r, "jar") /\ edit[r] = None /\ jar[go[r].ver] = None
    /\ Goto(r, "get")
    /\ Clash(r)
    /\ UNCHANGED <<want, caches, link, run, asked>>

\* The jar is opened under its final name, which truncates it.
JarOpen(r) ==
    /\ Pc(r, "get")
    /\ jar' = [jar EXCEPT ![go[r].ver] = [by |-> go[r].flavor, state |-> r]]
    /\ Goto(r, "save")
    /\ UNCHANGED <<want, jdk, tar, dist, temp, link, run, clash, asked>>

\* The last chunk is written, the link made, the server launched; a jar that
\* another start has removed cannot be launched.
JarSave(r) ==
    /\ Pc(r, "save")
    /\ LET c == jar[go[r].ver] IN
       IF c = None THEN Ends(r) /\ UNCHANGED <<jar, run>>
       ELSE LET d == IF c.state = r THEN [c EXCEPT !.state = "whole"] ELSE c IN
            /\ jar' = [jar EXCEPT ![go[r].ver] = d]
            /\ LaunchJar(r, d)
    /\ UNCHANGED <<want, jdk, tar, dist, temp, link, clash, asked>>

\* The download fails: the jar is removed from the cache, whoever wrote it.
JarFails(r) ==
    /\ Pc(r, "get") \/ Pc(r, "save")
    /\ jar' = [jar EXCEPT ![go[r].ver] = None]
    /\ Ends(r)
    /\ UNCHANGED <<want, jdk, tar, dist, temp, link, run, clash, asked>>

-----------------------------------------------------------------------------
\* _ensure_server_layout: files the server's directory already has are kept, its
\* link to bedrock_server among them.
LaunchDist(r, whole) ==
    LET s == go[r].srv
        v == IF link[s] = None THEN go[r].ver ELSE link[s]
    IN /\ link' = [link EXCEPT ![s] = v]
       /\ Launch(r, go[r].flavor, v, IF link[s] = None THEN whole ELSE dist[v] = "whole")

DistPresent(r) ==
    /\ Pc(r, "dist") /\ edit[r] = None /\ dist[go[r].ver] # None
    /\ LaunchDist(r, dist[go[r].ver] = "whole")
    /\ Clash(r)
    /\ UNCHANGED <<want, caches, asked>>

\* _download_bedrock_version; a version the site does not have is replaced by the
\* latest one.
DistAbsent(r) ==
    /\ Pc(r, "dist") /\ edit[r] = None /\ dist[go[r].ver] = None
    /\ IF go[r].ver \in Unavailable
       THEN go' = [go EXCEPT ![r].ver = Latest] /\ UNCHANGED clash
       ELSE Goto(r, "zip") /\ Clash(r)
    /\ UNCHANGED <<want, caches, link, run, asked>>

ZipFails(r) ==
    /\ Pc(r, "zip")
    /\ Ends(r)
    /\ UNCHANGED <<want, caches, link, run, clash, asked>>

\* The archive is complete and unpacked in a private directory.  A .tmp-{version}
\* left behind, or in use by another start, is removed.
ClearTemp(r) ==
    /\ Pc(r, "zip")
    /\ temp' = [temp EXCEPT ![go[r].ver] = None]
    /\ Goto(r, "move")
    /\ UNCHANGED <<want, jdk, tar, jar, dist, link, run, clash, asked>>

\* Mutant: the files are moved to the version's directory itself.
MoveBegins_Direct(r) ==
    /\ Pc(r, "move")
    /\ dist' = [dist EXCEPT ![go[r].ver] = "part"]
    /\ temp' = [temp EXCEPT ![go[r].ver] = [by |-> r, full |-> FALSE]]
    /\ Goto(r, "copy")
    /\ UNCHANGED <<want, jdk, tar, jar, link, run, clash, asked>>

\* shutil.move copies the files into .tmp-{version}, or, if that exists by now,
\* moves them below it.
MoveBegins(r) ==
    /\ Pc(r, "move")
    /\ IF temp[go[r].ver] = None
       THEN /\ temp' = [temp EXCEPT ![go[r].ver] = [by |-> r, full |-> FALSE]]
            /\ Goto(r, "copy")
       ELSE Goto(r, "nested") /\ UNCHANGED temp
    /\ UNCHANGED <<want, jdk, tar, jar, dist, link, run, clash, asked>>

\* The copy is complete, or fails because its directory is gone.
CopyEnds(r) ==
    /\ Pc(r, "copy")
    /\ LET t == temp[go[r].ver] IN
       IF t # None /\ t.by = r
       THEN temp' = [temp EXCEPT ![go[r].ver].full = TRUE] /\ Goto(r, "copied")
       ELSE Ends(r) /\ UNCHANGED temp
    /\ UNCHANGED <<want, jdk, tar, jar, dist, link, run, clash, asked>>

\* .tmp-{version} is renamed; that fails when it is gone or the version is there.
RenameTemp(r) ==
    /\ Pc(r, "copied") \/ Pc(r, "nested")
    /\ LET v == go[r].ver IN
       IF temp[v] = None \/ dist[v] # None
       THEN Ends(r) /\ UNCHANGED <<dist, temp, link, run>>
       ELSE /\ dist' = [dist EXCEPT ![v] = IF temp[v].full THEN "whole" ELSE "part"]
            /\ temp' = [temp EXCEPT ![v] = None]
            /\ LaunchDist(r, temp[v].full)
    /\ UNCHANGED <<want, jdk, tar, jar, clash, asked>>

-----------------------------------------------------------------------------
\* The agent is restarted: starts end where they are; game processes, which are
\* services of their own, go on.
StartsLost ==
    /\ go' = [r \in Requests |-> None]
    /\ tar' = None
    /\ jar' = [v \in Releases |->
                 IF jar[v] # None /\ jar[v].state \in Requests
                 THEN [jar[v] EXCEPT !.state = "part"] ELSE jar[v]]
    /\ temp' = [v \in Releases |-> IF temp[v] = None THEN None ELSE [temp[v] EXCEPT !.by = None]]
    /\ EditsLost
    /\ UNCHANGED <<want, jdk, dist, link, run, clash>>

Fetching(r) ==
    \/ JdkPresent(r) \/ JdkOpen(r) \/ JdkUnpack(r) \/ JdkFails(r)
    \/ JarPresent(r) \/ JarAbsent(r) \/ JarOpen(r) \/ JarSave(r) \/ JarFails(r)
    \/ DistPresent(r) \/ DistAbsent(r) \/ ZipFails(r) \/ ClearTemp(r) \/ MoveBegins(r)
    \/ CopyEnds(r) \/ RenameTemp(r)
SoftwareNext ==
    \/ \E r \in Requests :
         \/ \E s \in Servers : StartServer(r, s)
         \/ Fetching(r) /\ DropEdit(r)
    \/ /\ \/ \E s \in Servers : StopServer(s)
          \/ \E s \in JavaServers, f \in Flavors, v \in Releases : SwitchSoftware(s, f, v)
          \/ \E s \in Servers \ JavaServers, v \in Releases : SwitchSoftware(s, want[s].flavor, v)
       /\ UNCHANGED setvars
    \/ SettingsNext /\ UNCHANGED <<caches, link, clash>>
=============================================================================
