---------------------------- MODULE StoreProofs ----------------------------
(***************************************************************************)
(* Proofs about the disk of a node (Store).  The mods, the settings and    *)
(* the software have an inductive invariant each; the three share little   *)
(* more than the requests that work on them.                               *)
(***************************************************************************)
EXTENDS Store, TLAPS

\* The types, by component.
ModsTypes ==
    /\ mods \in [Servers -> [Jar -> Content]]
    /\ lease \in [Servers -> Requests \cup {None}]
    /\ inst \in [Requests -> Install \cup {None}]
    /\ fetch \in [Requests -> Fetch \cup {None}]
    /\ told \in [Servers -> SUBSET Projects]
    /\ blurred \subseteq Servers
    /\ \A s \in Servers : lease[s] # None => inst[lease[s]] # None /\ inst[lease[s]].srv = s

RowTypes ==
    /\ want \in [Servers -> [flavor : Flavors, ver : Releases]]
    /\ go \in [Requests -> Start \cup {None}]
    /\ run \in [Servers -> Process \cup {None}]

CacheTypes ==
    /\ jdk \in BOOLEAN /\ tar \in Requests \cup {None}
    /\ jar \in [Releases -> CachedJar \cup {None}]
    /\ dist \in [Releases -> {"whole", "part", None}]
    /\ temp \in [Releases -> TempDir \cup {None}]
    /\ link \in [Servers -> Releases \cup {None}]
    /\ clash \subseteq Releases

FileTypes ==
    /\ props \in [Tuned -> File \cup {None}] /\ part \in [Tuned -> File \cup {None}]
    /\ conf \in [Tuned -> [Keys -> Value]] /\ mine \in [Tuned -> [Keys -> Value]]
    /\ port \in [Tuned -> Ports] /\ draft \in [Tuned -> File \cup {None}]
    /\ edit \in [Requests -> Edit \cup {None}] /\ mixed \subseteq Tuned

\* An edit asks for a setting unless a start makes it, which asks for its port;
\* it writes nothing but what it asks for and what /config always writes.
EditShape(r) ==
    edit[r] # None =>
        /\ edit[r].kind = "start" => 
              /\ edit[r].ask = <<"port", edit[r].full["port"]>>
              /\ edit[r].key = edit[r].ask /\ edit[r].todo \subseteq {edit[r].ask}
              /\ go[r] # None /\ go[r].srv = edit[r].srv /\ go[r].port = edit[r].full["port"]
        /\ edit[r].kind # "start" =>
              /\ go[r] = None /\ edit[r].pc # "look"
              /\ edit[r].ask \in Keys \X Values
              /\ edit[r].key[1] \in Always(edit[r].srv) \/ edit[r].key = edit[r].ask
              /\ \A d \in edit[r].todo : d[1] \in Always(edit[r].srv) \/ d = edit[r].ask

EditsOK == \A r \in Requests : EditShape(r)

\* A start that is past the file finds the port there, unless writers overlapped.
PortWritten ==
    \A r \in Requests :
        go[r] # None /\ go[r].srv \in Tuned \ mixed /\ edit[r] = None =>
            props[go[r].srv] # None /\ props[go[r].srv]["port"] = go[r].port

ListenInv == PortWritten /\ ListensWhereTold

\* While a setting is being written nothing is promised about it; once it is, the
\* file has it.
Pending(r, s, k) == edit[r] # None /\ edit[r].kind # "start" /\ edit[r].srv = s /\ edit[r].ask[1] = k
KeptInv ==
    \A s \in Tuned \ mixed : \A k \in Keys \ Always(s) :
        /\ mine[s][k] # None => props[s] # None /\ props[s][k] = mine[s][k]
        /\ \A r \in Requests : Pending(r, s, k) =>
              /\ mine[s][k] = None
              /\ edit[r].ask \notin edit[r].todo =>
                    props[s] # None /\ props[s][k] = edit[r].ask[2]

-----------------------------------------------------------------------------
\* The Java starts that write a jar, and the Bedrock starts that unpack a version.
WritingPc == {"get", "save"}
UnpackPc == {"zip", "move", "copy", "copied", "nested"}
Writing(r, v) == go[r] # None /\ go[r].ver = v /\ go[r].pc \in WritingPc
Unpacking(r, v) == go[r] # None /\ go[r].ver = v /\ go[r].pc \in UnpackPc

\* Java starts and Bedrock starts go their own ways, and write the file before they fetch.
EarlyPc == {"jdk", "unpack", "jar", "dist"}
Lanes == \A r \in Requests : go[r] # None =>
    /\ go[r].pc \in JavaPc <=> go[r].srv \in JavaServers
    /\ edit[r] # None => go[r].pc \in EarlyPc

JarInv ==
    /\ \A v \in Torn, r \in Requests : ~Writing(r, v)
    /\ \A v \in Releases : jar[v] # None /\ jar[v].state \in Requests =>
          Writing(jar[v].state, v) /\ go[jar[v].state].pc = "save"
    /\ \A v \in Releases \ clash : \A q, r \in Requests : Writing(q, v) /\ Writing(r, v) => q = r

TempInv ==
    /\ \A v \in Releases, r \in Requests :
          temp[v] # None /\ temp[v].by = None /\ Unpacking(r, v) => go[r].pc = "zip"
    /\ \A v \in Releases, r \in Requests :
          temp[v] # None /\ temp[v].by = r /\ ~temp[v].full =>
             Unpacking(r, v) /\ go[r].pc = "copy"
    /\ \A v \in Releases \ clash : \A q, r \in Requests : Unpacking(q, v) /\ Unpacking(r, v) => q = r

DistInv ==
    /\ \A v \in Releases : dist[v] = "part" => v \in clash
    /\ \A s \in Servers : link[s] # None => dist[link[s]] # None

SoftInv == Lanes /\ JarInv /\ TempInv /\ DistInv /\ LaunchedWhole

-----------------------------------------------------------------------------
\* Servers whose installs were not interfered with.
Clear == Servers \ blurred
InstallOf(r, s) == inst[r] # None /\ inst[r].srv = s
FetchOf(r, s) == fetch[r] # None /\ fetch[r].srv = s

LeaseInv ==
    \A s \in Clear, r \in Requests :
        /\ InstallOf(r, s) => lease[s] = r
        /\ FetchOf(r, s) => InstallOf(r, s) /\ inst[r].pc = "download"
        /\ InstallOf(r, s) /\ inst[r].pc = "download" => FetchOf(r, s)

\* What an install knows of the directory, and what its download has done so far.
Knows(r) == inst[r].pc = "resolve" => inst[r].have = Listed(inst[r].srv)
Progress(r) ==
    /\ fetch[r].left \subseteq Missing(inst[r])
    /\ Listed(fetch[r].srv) = inst[r].have \cup (Missing(inst[r]) \ fetch[r].left)
    /\ fetch[r].file # None =>
          fetch[r].file \in Missing(inst[r]) \ fetch[r].left /\ mods[fetch[r].srv][fetch[r].file] = r

DiskInv ==
    /\ \A s \in Clear, r \in Requests :
          /\ InstallOf(r, s) => Knows(r)
          /\ FetchOf(r, s) => Progress(r)
    /\ \A s \in Clear, j \in Jar : mods[s][j] \notin {"none", "whole"} =>
          \E r \in Requests : FetchOf(r, s) /\ fetch[r].file = j

Paired == \A r \in Requests : inst[r] # None /\ fetch[r] # None =>
    inst[r].srv = fetch[r].srv /\ inst[r].pc = "download"

InstallInv == Paired /\ LeaseInv /\ DiskInv /\ OneVersionPerMod /\ ToldIsInstalled

-----------------------------------------------------------------------------
(* Types.                                                                    *)

USE StoreAssumption, ModsAssumption, ModsNames

LEMMA JarsWanted ==
    ASSUME NEW i
    PROVE  /\ Wanted(i) \subseteq Jar /\ Missing(i) \subseteq Wanted(i)
           /\ \A a, b \in Wanted(i) : a[1] = b[1] => a = b
           /\ { j[1] : j \in Wanted(i) } \subseteq Projects
           /\ \A j \in Wanted(i) : j \notin Missing(i) => \E h \in i.have : h[1] = j[1]
           /\ \A j \in Missing(i), h \in i.have : h[1] # j[1]
<1>1. Wanted(i) \subseteq Jar /\ \A a, b \in Wanted(i) : a[1] = b[1] => a = b
  BY DEF Wanted, Resolved, Jar
<1>. QED  BY <1>1 DEF Missing, Jar

\* The frame of a step of the mods.
LeasesOK == \A s \in Servers : lease[s] # None => inst[lease[s]] # None /\ inst[lease[s]].srv = s

\* What the end of a request does to the types.
LEMMA ReleaseTypes ==
    ASSUME ModsTypes, NEW r \in Requests, Release(r)
    PROVE  /\ lease' \in [Servers -> Requests \cup {None}]
           /\ inst' \in [Requests -> Install \cup {None}]
           /\ LeasesOK'
BY DEF ModsTypes, Release, Released, LeasesOK

LEMMA AnswerTypes ==
    ASSUME ModsTypes, NEW r \in Requests, Answer(r), inst[r] # None
    PROVE  told' \in [Servers -> SUBSET Projects]
<1>1. inst[r].srv \in Servers  BY DEF ModsTypes, Install
<1>2. { j[1] : j \in Wanted(inst[r]) } \subseteq Projects  BY JarsWanted
<1>. QED  BY <1>1, <1>2 DEF ModsTypes, Answer

\* A step that moves an install on.
LEMMA MovedInstall ==
    ASSUME ModsTypes, NEW r \in Requests, NEW i \in Install, inst[r] # None,
           i.srv = inst[r].srv, inst' = [inst EXCEPT ![r] = i], UNCHANGED lease
    PROVE  inst' \in [Requests -> Install \cup {None}] /\ LeasesOK'
BY DEF ModsTypes, LeasesOK

LEMMA PutTypes ==
    ASSUME ModsTypes, NEW s \in Servers, NEW j \in Jar, NEW c \in Content, Put(s, j, c)
    PROVE  mods' \in [Servers -> [Jar -> Content]]
BY DEF ModsTypes, Put

LEMMA ModsStepTypes ==
    ASSUME ModsTypes, ModsNext
    PROVE  ModsTypes'
<1>. USE DEF ModsTypes
<1>l. LeasesOK  BY DEF LeasesOK
<1>q. ASSUME LeasesOK' PROVE (\A s \in Servers : lease[s] # None => inst[lease[s]] # None /\ inst[lease[s]].srv = s)'
  BY <1>q DEF LeasesOK
<1>1. ASSUME NEW r \in Requests, NEW s \in JavaServers, NEW p \in Projects, NEW v \in Versions \cup {0},
             InstallMod(r, s, p, v)
      PROVE  ModsTypes'
  <2>. DEFINE i == [srv |-> s, root |-> p, ver |-> v, pc |-> "list", have |-> {}]
  <2>1. i \in Install  BY DEF Install
  <2>2. i # None /\ i.srv = s  BY <2>1
  <2>3. inst' = [inst EXCEPT ![r] = i] /\ lease' = [lease EXCEPT ![s] = r] /\ inst[r] = None
    BY <1>1 DEF InstallMod
  <2>. HIDE DEF i
  <2>4. LeasesOK'  BY <2>1, <2>2, <2>3 DEF LeasesOK
  <2>5. lease' \in [Servers -> Requests \cup {None}]  BY <2>3
  <2>6. inst' \in [Requests -> Install \cup {None}]  BY <2>1, <2>3
  <2>7. UNCHANGED <<mods, fetch, told, blurred>>  BY <1>1 DEF InstallMod
  <2>. QED  BY <2>4, <2>5, <2>6, <2>7 DEF LeasesOK
<1>2. ASSUME NEW r \in Requests, ListMods(r) \/ ListFails(r) PROVE ModsTypes'
  <2>. DEFINE i == IF ListMods(r) THEN [inst[r] EXCEPT !.pc = "resolve", !.have = Listed(inst[r].srv)]
                                  ELSE [inst[r] EXCEPT !.pc = "resolve"]
  <2>1. inst[r] \in Install  BY <1>2 DEF ListMods, ListFails, At
  <2>2. Listed(inst[r].srv) \subseteq Jar  BY DEF Listed
  <2>3. i \in Install /\ i.srv = inst[r].srv  BY <2>1, <2>2 DEF Install
  <2>4. inst' = [inst EXCEPT ![r] = i]
    <3>1. CASE ListMods(r)  BY <3>1, <2>1 DEF ListMods
    <3>2. CASE ~ListMods(r)  BY <1>2, <3>2, <2>1 DEF ListFails
    <3>. QED  BY <3>1, <3>2
  <2>. HIDE DEF i
  <2>5. UNCHANGED lease /\ inst[r] # None  BY <1>2 DEF ListMods, ListFails, At
  <2>6. inst' \in [Requests -> Install \cup {None}] /\ LeasesOK'  BY <2>3, <2>4, <2>5, MovedInstall
  <2>. QED  BY <1>2, <2>1, <2>6, <1>q DEF ListMods, ListFails, Blur, Install
<1>3. ASSUME NEW r \in Requests, Resolve(r) PROVE ModsTypes'
  <2>. DEFINE i == [inst[r] EXCEPT !.pc = "download"]
              f == [srv |-> inst[r].srv, left |-> Missing(inst[r]), file |-> None]
  <2>1. inst[r] \in Install  BY <1>3 DEF Resolve, At
  <2>2. Missing(inst[r]) \subseteq Jar  BY JarsWanted
  <2>3. i \in Install /\ i.srv = inst[r].srv /\ f \in Fetch  BY <2>1, <2>2 DEF Install, Fetch
  <2>4. inst' = [inst EXCEPT ![r] = i] /\ fetch' = [fetch EXCEPT ![r] = f]  BY <1>3, <2>1 DEF Resolve, Install
  <2>. HIDE DEF i, f
  <2>5. UNCHANGED lease /\ inst[r] # None  BY <1>3 DEF Resolve, At
  <2>6. inst' \in [Requests -> Install \cup {None}] /\ LeasesOK'  BY <2>3, <2>4, <2>5, MovedInstall
  <2>. QED  BY <1>3, <2>3, <2>4, <2>6, <1>q DEF Resolve
<1>4. ASSUME NEW r \in Requests, AllPresent(r) PROVE ModsTypes'
  <2>1. Answer(r) /\ inst[r] # None  BY <1>4 DEF AllPresent, At
  <2>. QED  BY <1>4, <2>1, ReleaseTypes, AnswerTypes, <1>q DEF AllPresent, Answer
<1>5. ASSUME NEW r \in Requests, ResolveFails(r) \/ GiveUp(r) PROVE ModsTypes'
  <2>1. inst[r] \in Install /\ Release(r) /\ UNCHANGED told  BY <1>5 DEF ResolveFails, GiveUp, At, Refuse
  <2>. QED  BY <1>5, <2>1, ReleaseTypes, <1>q DEF ResolveFails, GiveUp, Blur, Install
<1>6. ASSUME NEW r \in Requests, OpenJar(r) PROVE ModsTypes'
  <2>1. PICK j \in fetch[r].left : /\ fetch' = [fetch EXCEPT ![r].file = j, ![r].left = @ \ {j}]
                                   /\ Put(fetch[r].srv, j, r)
    BY <1>6 DEF OpenJar
  <2>2. fetch[r] \in Fetch  BY <1>6 DEF OpenJar
  <2>. DEFINE f == [fetch[r] EXCEPT !.file = j, !.left = fetch[r].left \ {j}]
  <2>3. j \in Jar /\ fetch[r].srv \in Servers /\ r \in Content /\ f \in Fetch  BY <2>1, <2>2 DEF Fetch, Content
  <2>4. fetch' = [fetch EXCEPT ![r] = f]  BY <2>1, <2>2 DEF Fetch
  <2>. HIDE DEF f
  <2>5. mods' \in [Servers -> [Jar -> Content]]  BY <2>1, <2>3, PutTypes
  <2>. QED  BY <1>6, <2>3, <2>4, <2>5 DEF OpenJar
<1>7. ASSUME NEW r \in Requests, SaveJar(r) PROVE ModsTypes'
  <2>1. fetch[r] \in Fetch /\ fetch[r].srv \in Servers /\ fetch[r].file \in Jar
    BY <1>7 DEF SaveJar, Fetch
  <2>2. mods' \in [Servers -> [Jar -> Content]]
    <3>1. "whole" \in Content  BY DEF Content
    <3>. QED  BY <1>7, <2>1, <3>1, PutTypes DEF SaveJar
  <2>3. fetch' \in [Requests -> Fetch \cup {None}]
    <3>1. [fetch[r] EXCEPT !.file = None] \in Fetch  BY <2>1 DEF Fetch
    <3>2. [fetch EXCEPT ![r].file = None] = [fetch EXCEPT ![r] = [fetch[r] EXCEPT !.file = None]]
      BY <2>1
    <3>. QED  BY ZenonT(60), <1>7, <3>1, <3>2 DEF SaveJar
  <2>4. CASE UNCHANGED <<lease, inst, told>>
    BY <1>7, <2>2, <2>3, <2>4 DEF SaveJar
  <2>5. CASE inst[r] # None /\ Answer(r)
    BY <1>7, <2>2, <2>3, <2>5, ReleaseTypes, AnswerTypes, <1>q DEF SaveJar, Answer
  <2>. QED  BY <1>7, <2>4, <2>5 DEF SaveJar
<1>8. ASSUME NEW r \in Requests, FailJar(r) PROVE ModsTypes'
  <2>1. fetch[r] \in Fetch /\ fetch[r].srv \in Servers  BY <1>8 DEF FailJar, Fetch
  <2>2. PICK j \in Current(r) : Put(fetch[r].srv, j, "none")  BY <1>8 DEF FailJar
  <2>3. j \in Jar /\ "none" \in Content  BY <2>1, <2>2 DEF Current, Fetch, Content
  <2>4. mods' \in [Servers -> [Jar -> Content]]  BY <2>1, <2>2, <2>3, PutTypes
  <2>5. fetch' \in [Requests -> Fetch \cup {None}]  BY <1>8 DEF FailJar
  <2>6. CASE UNCHANGED <<lease, inst, told>>
    BY <1>8, <2>4, <2>5, <2>6 DEF FailJar
  <2>7. CASE Refuse(r)
    BY <1>8, <2>4, <2>5, <2>7, ReleaseTypes, <1>q DEF FailJar, Refuse
  <2>. QED  BY <1>8, <2>6, <2>7 DEF FailJar
<1>9. ASSUME NEW s \in JavaServers, LeaseExpires(s) PROVE ModsTypes'
  <2>1. LeasesOK'  BY <1>9, <1>l DEF LeasesOK, LeaseExpires
  <2>. QED  BY <1>9, <2>1, <1>q DEF LeaseExpires, Blur
<1>10. ASSUME NEW s \in JavaServers, NEW j \in Jar, Unlink(s, j) PROVE ModsTypes'
  <2>1. "none" \in Content  BY DEF Content
  <2>2. mods' \in [Servers -> [Jar -> Content]]  BY <1>10, <2>1, PutTypes DEF Unlink
  <2>3. told' \in [Servers -> SUBSET Projects]
    BY <1>10 DEF Unlink
  <2>4. blurred' \subseteq Servers /\ UNCHANGED <<lease, inst, fetch>>  BY <1>10 DEF Unlink, Blur
  <2>. QED  BY <2>2, <2>3, <2>4
<1>. QED  BY <1>1, <1>2, <1>3, <1>4, <1>5, <1>6, <1>7, <1>8, <1>9, <1>10 DEF ModsNext, DeleteMod, DeleteFile

LEMMA ModsLostTypes ==
    ASSUME ModsTypes, DownloadsLost
    PROVE  ModsTypes'
<1>. DEFINE cut == { r \in Requests : fetch[r] # None }
<1>1. \A r \in cut : fetch[r].srv \in Servers  BY DEF ModsTypes, Fetch
<1>2. mods' \in [Servers -> [Jar -> Content]]  BY DEF ModsTypes, DownloadsLost, Content
<1>3. lease' \in [Servers -> Requests \cup {None}]  BY DEF ModsTypes, DownloadsLost
<1>4. inst' \in [Requests -> Install \cup {None}]  BY DEF ModsTypes, DownloadsLost
<1>5. \A s \in Servers : lease'[s] # None => inst'[lease'[s]] # None /\ inst'[lease'[s]].srv = s
  BY DEF ModsTypes, DownloadsLost
<1>6. blurred' \subseteq Servers  BY <1>1 DEF ModsTypes, DownloadsLost
<1>. QED  BY <1>2, <1>3, <1>4, <1>5, <1>6 DEF ModsTypes, DownloadsLost

-----------------------------------------------------------------------------
USE SettingsAssumption, SettingsNames, SoftwareAssumption, SoftwareNames

\* A start that goes on is the same start at another place.
Same(a, b) == a.srv = b.srv /\ a.flavor = b.flavor /\ a.port = b.port
Moves(r) ==
    /\ go[r] \in Start
    /\ go' \in [Requests -> Start \cup {None}]
    /\ \A q \in Requests \ {r} : go'[q] = go[q]
    /\ go'[r] # None => Same(go'[r], go[r])

LEMMA GotoMoves ==
    ASSUME RowTypes, NEW r \in Requests, go[r] # None, NEW pc \in JavaPc \cup BedrockPc, Goto(r, pc)
    PROVE  Moves(r) /\ go'[r] # None /\ go'[r].pc = pc /\ go'[r].ver = go[r].ver
<1>1. go[r] \in Start  BY DEF RowTypes
<1>2. [go[r] EXCEPT !.pc = pc] \in Start  BY <1>1 DEF Start
<1>3. go' = [go EXCEPT ![r] = [go[r] EXCEPT !.pc = pc]]  BY DEF Goto
<1>4. go'[r] = [go[r] EXCEPT !.pc = pc]  BY <1>3 DEF RowTypes
<1>. QED  BY <1>1, <1>2, <1>3, <1>4 DEF Moves, Same, RowTypes, Start

LEMMA EndsMoves ==
    ASSUME RowTypes, NEW r \in Requests, go[r] # None, Ends(r)
    PROVE  Moves(r) /\ go'[r] = None
BY DEF Moves, Ends, RowTypes

LEMMA LaunchTypes ==
    ASSUME RowTypes, NEW r \in Requests, go[r] # None, NEW f \in Flavors, NEW v \in Releases,
           NEW w \in BOOLEAN, Launch(r, f, v, w)
    PROVE  /\ Moves(r) /\ go'[r] = None /\ run' \in [Servers -> Process \cup {None}]
           /\ \A s \in Servers : run'[s] # run[s] => 
                 s = go[r].srv /\ run'[s] = [flavor |-> f, ver |-> v, whole |-> w, there |-> Listens(r)]
<1>1. go[r] \in Start /\ go[r].srv \in Servers  BY DEF RowTypes, Start
<1>. DEFINE p == [flavor |-> f, ver |-> v, whole |-> w, there |-> Listens(r)]
<1>2. Listens(r) \in BOOLEAN  BY DEF Listens
<1>3. p \in Process  BY <1>2 DEF Process
<1>4. run' = [run EXCEPT ![go[r].srv] = p]  BY DEF Launch
<1>. HIDE DEF p
<1>5. /\ run' \in [Servers -> Process \cup {None}]
      /\ \A s \in Servers : run'[s] # run[s] => s = go[r].srv /\ run'[s] = p
  BY <1>1, <1>3, <1>4 DEF RowTypes
<1>. QED  BY <1>5, EndsMoves DEF Launch, p

LEMMA ClashTypes ==
    ASSUME RowTypes, CacheTypes, NEW r \in Requests, go[r] # None, Clash(r)
    PROVE  clash \subseteq clash' /\ clash' \subseteq Releases
<1>1. go[r].ver \in Releases  BY DEF RowTypes, Start
<1>. QED  BY <1>1 DEF Clash, CacheTypes

LEMMA LaunchDistTypes ==
    ASSUME RowTypes, CacheTypes, NEW r \in Requests, go[r] # None, NEW w \in BOOLEAN, LaunchDist(r, w)
    PROVE  /\ Moves(r) /\ go'[r] = None /\ run' \in [Servers -> Process \cup {None}]
           /\ link' \in [Servers -> Releases \cup {None}]
<1>1. go[r] \in Start /\ go[r].srv \in Servers /\ go[r].ver \in Releases /\ go[r].flavor \in Flavors
  BY DEF RowTypes, Start
<1>. DEFINE v == IF link[go[r].srv] = None THEN go[r].ver ELSE link[go[r].srv]
            u == IF link[go[r].srv] = None THEN w ELSE dist[v] = "whole"
<1>2. v \in Releases /\ u \in BOOLEAN  BY <1>1 DEF CacheTypes
<1>3. link' = [link EXCEPT ![go[r].srv] = v] /\ Launch(r, go[r].flavor, v, u)  BY DEF LaunchDist
<1>. HIDE DEF v, u
<1>4. Moves(r) /\ go'[r] = None /\ run' \in [Servers -> Process \cup {None}]
  <2>1. CASE link[go[r].srv] = None
    <3>1. v = go[r].ver /\ u = w  BY <2>1 DEF v, u
    <3>2. Launch(r, go[r].flavor, v, TRUE) \/ Launch(r, go[r].flavor, v, FALSE)  BY <3>1, <1>3, Zenon
    <3>. QED  BY <3>2, <1>1, <1>2, LaunchTypes
  <2>2. CASE link[go[r].srv] # None
    <3>1. v = link[go[r].srv] /\ u = (dist[v] = "whole")  BY <2>2 DEF v, u
    <3>2. Launch(r, go[r].flavor, v, dist[v] = "whole")  BY <3>1, <1>3
    <3>. QED  BY <3>2, <1>1, <1>2, LaunchTypes
  <2>. QED  BY <2>1, <2>2
<1>5. link' \in [Servers -> Releases \cup {None}]  BY <1>1, <1>2, <1>3 DEF CacheTypes
<1>. QED  BY <1>4, <1>5

LEMMA Fetched ==
    ASSUME RowTypes, CacheTypes, NEW r \in Requests, Fetching(r)
    PROVE  Moves(r) /\ RowTypes' /\ CacheTypes' /\ UNCHANGED want
<1>. DEFINE v == go[r].ver
<1>a. go[r] # None  BY DEF Fetching, JdkPresent, JdkOpen, JdkUnpack, JdkFails, JarPresent, JarAbsent,
        JarOpen, JarSave, JarFails, DistPresent, DistAbsent, ZipFails, ClearTemp, MoveBegins, CopyEnds,
        RenameTemp, Pc
<1>b. go[r] \in Start /\ v \in Releases /\ go[r].flavor \in Flavors  BY <1>a DEF RowTypes, Start
<1>c. ASSUME Moves(r), UNCHANGED <<want, run>> PROVE RowTypes'  BY <1>c DEF Moves, RowTypes
<1>d. ASSUME Moves(r), UNCHANGED want, run' \in [Servers -> Process \cup {None}] PROVE RowTypes'
  BY <1>d DEF Moves, RowTypes
<1>. HIDE DEF v
<1>. USE DEF JavaPc, BedrockPc
<1>1. CASE JdkPresent(r)
  <2>1. Moves(r)  BY <1>1, <1>a, GotoMoves DEF JdkPresent
  <2>. QED  BY <1>1, <2>1, <1>c DEF JdkPresent, caches, CacheTypes
<1>2. CASE JdkOpen(r)
  <2>1. Moves(r)  BY <1>2, <1>a, GotoMoves DEF JdkOpen
  <2>. QED  BY <1>2, <2>1, <1>c DEF JdkOpen, CacheTypes
<1>3. CASE JdkUnpack(r)
  <2>1. Moves(r)  BY <1>3, <1>a, GotoMoves, EndsMoves DEF JdkUnpack
  <2>. QED  BY <1>3, <2>1, <1>c DEF JdkUnpack, CacheTypes
<1>4. CASE JdkFails(r)
  <2>1. Moves(r)  BY <1>4, <1>a, EndsMoves DEF JdkFails
  <2>. QED  BY <1>4, <2>1, <1>c DEF JdkFails, CacheTypes
<1>5. CASE JarPresent(r)
  <2>1. jar[go[r].ver] \in CachedJar  BY <1>5, <1>b DEF JarPresent, CacheTypes, v
  <2>2. jar[go[r].ver].by \in Flavors  BY <2>1 DEF CachedJar
  <2>3. Launch(r, jar[go[r].ver].by, go[r].ver, jar[go[r].ver].state = "whole")
    BY <1>5 DEF JarPresent, LaunchJar
  <2>4. Moves(r) /\ run' \in [Servers -> Process \cup {None}]
    BY <1>a, <1>b, <2>2, <2>3, LaunchTypes DEF v
  <2>5. clash' \subseteq Releases  BY <1>5, <1>a, ClashTypes DEF JarPresent
  <2>. QED  BY <1>5, <2>4, <2>5, <1>d DEF JarPresent, caches, CacheTypes
<1>6. CASE JarAbsent(r)
  <2>1. Moves(r)  BY <1>6, <1>a, GotoMoves DEF JarAbsent
  <2>2. clash' \subseteq Releases  BY <1>6, <1>a, ClashTypes DEF JarAbsent
  <2>. QED  BY <1>6, <2>1, <2>2, <1>c DEF JarAbsent, caches, CacheTypes
<1>7. CASE JarOpen(r)
  <2>1. Moves(r)  BY <1>7, <1>a, GotoMoves DEF JarOpen
  <2>2. [by |-> go[r].flavor, state |-> r] \in CachedJar  BY <1>b DEF CachedJar
  <2>3. jar' \in [Releases -> CachedJar \cup {None}]  BY <1>7, <2>2 DEF JarOpen, CacheTypes
  <2>. QED  BY <1>7, <2>1, <2>3, <1>c DEF JarOpen, CacheTypes
<1>8. CASE JarSave(r)
  <2>1. CASE jar[go[r].ver] = None
    <3>1. Moves(r) /\ UNCHANGED <<jar, run>>  BY <1>8, <2>1, <1>a, EndsMoves DEF JarSave
    <3>. QED  BY <1>8, <3>1, <1>c DEF JarSave, CacheTypes
  <2>2. CASE jar[go[r].ver] # None
    <3>. DEFINE c == jar[go[r].ver]
                d == IF c.state = r THEN [c EXCEPT !.state = "whole"] ELSE c
    <3>1. c \in CachedJar  BY <2>2, <1>b DEF CacheTypes, v
    <3>2. d \in CachedJar /\ d.by \in Flavors  BY <3>1 DEF CachedJar
    <3>3. jar' = [jar EXCEPT ![go[r].ver] = d] /\ Launch(r, d.by, go[r].ver, d.state = "whole")
      BY <1>8, <2>2 DEF JarSave, LaunchJar
    <3>. HIDE DEF d, c
    <3>4. Moves(r) /\ run' \in [Servers -> Process \cup {None}]
      BY <1>a, <1>b, <3>2, <3>3, LaunchTypes DEF v
    <3>5. jar' \in [Releases -> CachedJar \cup {None}]  BY <3>2, <3>3 DEF CacheTypes
    <3>. QED  BY <1>8, <3>4, <3>5, <1>d DEF JarSave, CacheTypes
  <2>. QED  BY <2>1, <2>2
<1>9. CASE JarFails(r)
  <2>1. Moves(r)  BY <1>9, <1>a, EndsMoves DEF JarFails
  <2>2. jar' \in [Releases -> CachedJar \cup {None}]  BY <1>9 DEF JarFails, CacheTypes
  <2>. QED  BY <1>9, <2>1, <2>2, <1>c DEF JarFails, CacheTypes
<1>10. CASE DistPresent(r)
  <2>1. LaunchDist(r, dist[go[r].ver] = "whole") /\ Clash(r)  BY <1>10 DEF DistPresent
  <2>2. /\ Moves(r) /\ run' \in [Servers -> Process \cup {None}]
        /\ link' \in [Servers -> Releases \cup {None}]
    BY <2>1, <1>a, LaunchDistTypes
  <2>3. clash' \subseteq Releases  BY <2>1, <1>a, ClashTypes
  <2>. QED  BY <1>10, <2>2, <2>3, <1>d DEF DistPresent, caches, CacheTypes
<1>11. CASE DistAbsent(r)
  <2>1. CASE go[r].ver \in Unavailable
    <3>1. go' = [go EXCEPT ![r] = [go[r] EXCEPT !.ver = Latest]] /\ UNCHANGED clash
      BY <1>11, <2>1 DEF DistAbsent
    <3>2. [go[r] EXCEPT !.ver = Latest] \in Start  BY <1>b DEF Start
    <3>3. Moves(r)  BY <3>1, <3>2, <1>b DEF Moves, Same, RowTypes, Start
    <3>. QED  BY <1>11, <3>1, <3>3, <1>c DEF DistAbsent, caches, CacheTypes
  <2>2. CASE go[r].ver \notin Unavailable
    <3>1. Moves(r)  BY <1>11, <2>2, <1>a, GotoMoves DEF DistAbsent
    <3>2. clash' \subseteq Releases  BY <1>11, <2>2, <1>a, ClashTypes DEF DistAbsent
    <3>. QED  BY <1>11, <3>1, <3>2, <1>c DEF DistAbsent, caches, CacheTypes
  <2>. QED  BY <2>1, <2>2
<1>12. CASE ZipFails(r)
  <2>1. Moves(r)  BY <1>12, <1>a, EndsMoves DEF ZipFails
  <2>. QED  BY <1>12, <2>1, <1>c DEF ZipFails, caches, CacheTypes
<1>13. CASE ClearTemp(r)
  <2>1. Moves(r)  BY <1>13, <1>a, GotoMoves DEF ClearTemp
  <2>2. temp' \in [Releases -> TempDir \cup {None}]  BY <1>13 DEF ClearTemp, CacheTypes
  <2>. QED  BY <1>13, <2>1, <2>2, <1>c DEF ClearTemp, CacheTypes
<1>14. CASE MoveBegins(r)
  <2>1. Moves(r)  BY <1>14, <1>a, GotoMoves DEF MoveBegins
  <2>2. [by |-> r, full |-> FALSE] \in TempDir  BY DEF TempDir
  <2>3. temp' \in [Releases -> TempDir \cup {None}]  BY <1>14, <2>2 DEF MoveBegins, CacheTypes
  <2>. QED  BY <1>14, <2>1, <2>3, <1>c DEF MoveBegins, CacheTypes
<1>15. CASE CopyEnds(r)
  <2>1. Moves(r)  BY <1>15, <1>a, GotoMoves, EndsMoves DEF CopyEnds
  <2>2. temp' \in [Releases -> TempDir \cup {None}]
    <3>1. CASE temp[v] # None /\ temp[v].by = r
      <4>1. temp[v] \in TempDir  BY <3>1, <1>b DEF CacheTypes
      <4>2. [temp[v] EXCEPT !.full = TRUE] \in TempDir  BY <4>1 DEF TempDir
      <4>3. temp' = [temp EXCEPT ![v] = [temp[v] EXCEPT !.full = TRUE]]  BY <1>15, <3>1 DEF CopyEnds, v
      <4>. QED  BY <4>2, <4>3 DEF CacheTypes
    <3>2. CASE ~(temp[v] # None /\ temp[v].by = r)
      BY <1>15, <3>2 DEF CopyEnds, CacheTypes, v
    <3>. QED  BY <3>1, <3>2
  <2>. QED  BY <1>15, <2>1, <2>2, <1>c DEF CopyEnds, CacheTypes
<1>16. CASE RenameTemp(r)
  <2>1. CASE temp[go[r].ver] = None \/ dist[go[r].ver] # None
    <3>1. Moves(r) /\ UNCHANGED <<dist, temp, link, run>>  BY <1>16, <2>1, <1>a, EndsMoves DEF RenameTemp
    <3>. QED  BY <1>16, <3>1, <1>c DEF RenameTemp, CacheTypes
  <2>2. CASE ~(temp[go[r].ver] = None \/ dist[go[r].ver] # None)
    <3>1. temp[go[r].ver] \in TempDir  BY <2>2, <1>b DEF CacheTypes, v
    <3>2. temp[go[r].ver].full \in BOOLEAN  BY <3>1 DEF TempDir
    <3>3. /\ dist' = [dist EXCEPT ![go[r].ver] = IF temp[go[r].ver].full THEN "whole" ELSE "part"]
          /\ temp' = [temp EXCEPT ![go[r].ver] = None]
          /\ LaunchDist(r, temp[go[r].ver].full)
      BY <1>16, <2>2 DEF RenameTemp
    <3>4. /\ Moves(r) /\ run' \in [Servers -> Process \cup {None}]
          /\ link' \in [Servers -> Releases \cup {None}]
      BY <3>2, <3>3, <1>a, LaunchDistTypes
    <3>5. dist' \in [Releases -> {"whole", "part", None}] /\ temp' \in [Releases -> TempDir \cup {None}]
      BY <3>3 DEF CacheTypes
    <3>. QED  BY <1>16, <3>4, <3>5, <1>d DEF RenameTemp, CacheTypes
  <2>. QED  BY <2>1, <2>2
<1>. QED  BY <1>1, <1>2, <1>3, <1>4, <1>5, <1>6, <1>7, <1>8, <1>9, <1>10, <1>11, <1>12, <1>13, <1>14,
             <1>15, <1>16 DEF Fetching

-----------------------------------------------------------------------------
\* The edit of r is at another place, or over; those of the others are not touched.
LEMMA EditStep ==
    ASSUME FileTypes, EditsOK, NEW r \in Requests, NEW e \in Edit \cup {None},
           edit' = [edit EXCEPT ![r] = e], \A q \in Requests \ {r} : go'[q] = go[q],
           e # None => EditShape(r)'
    PROVE  edit' \in [Requests -> Edit \cup {None}] /\ EditsOK'
<1>1. edit' \in [Requests -> Edit \cup {None}]  BY DEF FileTypes
<1>2. EditShape(r)'
  <2>1. edit'[r] = e  BY DEF FileTypes
  <2>. QED  BY <2>1 DEF EditShape
<1>3. ASSUME NEW q \in Requests \ {r} PROVE EditShape(q)'
  <2>1. edit'[q] = edit[q] /\ go'[q] = go[q] /\ EditShape(q)  BY <1>3 DEF FileTypes, EditsOK
  <2>. QED  BY <2>1 DEF EditShape, Always
<1>. QED  BY <1>1, <1>2, <1>3 DEF EditsOK

LEMMA TellTypes ==
    ASSUME FileTypes, NEW s \in Tuned, NEW k, NEW v, k \in Keys => v \in Value, Tell(s, k, v)
    PROVE  mine' \in [Tuned -> [Keys -> Value]]
BY DEF FileTypes, Tell

LEMMA FromConfigType ==
    ASSUME FileTypes, NEW s \in Tuned
    PROVE  FromConfig(s) \in File /\ FromConfig(s)["port"] = port[s]
<1>1. port[s] \in Ports /\ conf[s] \in [Keys -> Value]  BY DEF FileTypes
<1>2. "port" \notin Keys  BY DEF Keys
<1>. QED  BY <1>1, <1>2 DEF FromConfig, File, Value

LEMMA StartPropsTypes ==
    ASSUME FileTypes, EditsOK, NEW r \in Requests, NEW s \in Servers, StartProps(r, s), edit[r] = None,
           go' \in [Requests -> Start \cup {None}], \A q \in Requests \ {r} : go'[q] = go[q],
           go'[r] # None, go'[r].srv = s, s \in Tuned => go'[r].port = port[s]
    PROVE  edit' \in [Requests -> Edit \cup {None}] /\ EditsOK'
<1>1. CASE s \in Tuned
  <2>. DEFINE e == Begun(s, "start", "look", <<"port", port[s]>>, {}, FromConfig(s))
  <2>1. edit' = [edit EXCEPT ![r] = e]  BY <1>1 DEF StartProps
  <2>2. FromConfig(s) \in File /\ FromConfig(s)["port"] = port[s] /\ port[s] \in Ports
    BY <1>1, FromConfigType DEF FileTypes
  <2>3. Empty \in File  BY DEF Empty, File, Value
  <2>4. e \in Edit  BY <1>1, <2>2, <2>3 DEF Begun, Edit
  <2>5. e # None /\ edit'[r] = e  BY <2>1, <2>4 DEF FileTypes
  <2>6. /\ e.kind = "start" /\ e.ask = <<"port", port[s]>> /\ e.full = FromConfig(s) /\ e.key = e.ask
        /\ e.todo = {} /\ e.srv = s
    BY DEF Begun
  <2>. HIDE DEF e
  <2>7. EditShape(r)'  BY <1>1, <2>2, <2>5, <2>6 DEF EditShape
  <2>. QED  BY <2>1, <2>4, <2>7, EditStep
<1>2. CASE s \notin Tuned
  <2>1. edit' = edit  BY <1>2 DEF StartProps
  <2>2. edit' = [edit EXCEPT ![r] = None]  BY <2>1 DEF FileTypes
  <2>. QED  BY <2>2, EditStep
<1>. QED  BY <1>1, <1>2

\* A new request of the owner.
LEMMA BegunTypes ==
    ASSUME FileTypes, EditsOK, NEW r \in Requests, NEW s \in Tuned, NEW k \in Keys, NEW v \in Values,
           NEW kind \in {"patch", "put"}, NEW todo \in SUBSET PatchKeys(s, k, v),
           go[r] = None, UNCHANGED go, edit' = [edit EXCEPT ![r] = Begun(s, kind, "read", <<k, v>>, todo, Empty)]
    PROVE  /\ edit' \in [Requests -> Edit \cup {None}] /\ EditsOK'
<1>. DEFINE e == Begun(s, kind, "read", <<k, v>>, todo, Empty)
<1>1. Empty \in File  BY DEF Empty, File, Value
<1>2. todo \subseteq (Keys \cup {"port"}) \X (Value \cup Ports)
  BY DEF PatchKeys, Always, Keys, Value
<1>3. e \in Edit  BY <1>1, <1>2 DEF Begun, Edit, Value
<1>4. e # None /\ edit'[r] = e  BY <1>3 DEF FileTypes
<1>5. e.kind # "start" /\ e.pc = "read" /\ e.ask = <<k, v>> /\ e.key = <<k, v>> /\ e.todo = todo /\ e.srv = s
  BY DEF Begun
<1>. HIDE DEF e
<1>6. \A d \in todo : d[1] \in Always(s) \/ d = <<k, v>>  BY DEF PatchKeys
<1>7. EditShape(r)'  BY <1>4, <1>5, <1>6 DEF EditShape
<1>. QED  BY <1>3, <1>7, EditStep DEF e

LEMMA SettingsStepTypes ==
    ASSUME RowTypes, FileTypes, EditsOK, SettingsNext
    PROVE  RowTypes' /\ FileTypes' /\ EditsOK'
<1>1. ASSUME NEW r \in Requests, Look(r) PROVE RowTypes' /\ FileTypes' /\ EditsOK'
  <2>. DEFINE e == edit[r]
  <2>1. e \in Edit /\ e # None  BY <1>1 DEF Look, Editing, FileTypes
  <2>2. e.srv \in Tuned /\ e.full \in File  BY <2>1 DEF Edit
  <2>3. EditShape(r) /\ e.pc = "look"  BY <1>1 DEF Look, Editing, EditsOK
  <2>4. e.kind = "start"  BY <2>1, <2>3 DEF EditShape
  <2>5. UNCHANGED <<conf, port, part, draft, mine, want, go, run>>  BY <1>1 DEF Look
  <2>6. edit' \in [Requests -> Edit \cup {None}] /\ EditsOK'
    <3>1. CASE edit' = [edit EXCEPT ![r] = None]  BY <3>1, <2>5, EditStep
    <3>2. CASE edit' = [edit EXCEPT ![r] = [e EXCEPT !.pc = "read", !.todo = StartKeys(e)]]
      <4>. DEFINE f == [e EXCEPT !.pc = "read", !.todo = StartKeys(e)]
      <4>1. e.full["port"] \in Value \cup Ports  BY <2>2 DEF File
      <4>2. StartKeys(e) \subseteq (Keys \cup {"port"}) \X (Value \cup Ports)  BY <4>1 DEF StartKeys
      <4>3. f \in Edit  BY <2>1, <4>2 DEF Edit
      <4>4. edit'[r] = f /\ f # None  BY <3>2, <4>3 DEF FileTypes
      <4>5. f.kind = e.kind /\ f.ask = e.ask /\ f.full = e.full /\ f.key = e.key /\ f.srv = e.srv
            /\ f.todo = StartKeys(e)
        BY <2>1 DEF Edit
      <4>. HIDE DEF f
      <4>6. EditShape(r)'  BY <2>1, <2>3, <2>4, <2>5, <4>4, <4>5 DEF EditShape, StartKeys
      <4>. QED  BY <2>5, <3>2, <4>3, <4>6, EditStep DEF f
    <3>. QED  BY <1>1, <3>1, <3>2 DEF Look
  <2>7. props' \in [Tuned -> File \cup {None}] /\ mixed' \subseteq Tuned
    <3>1. CASE props[e.srv] = None
      <4>1. props' = [props EXCEPT ![e.srv] = e.full]  BY <1>1, <3>1 DEF Look
      <4>2. mixed' = mixed \/ mixed' = mixed \cup {e.srv}  BY <1>1, <3>1 DEF Look, Mix
      <4>. QED  BY <2>2, <4>1, <4>2 DEF FileTypes
    <3>2. CASE props[e.srv] # None  BY <1>1, <3>2 DEF Look, FileTypes
    <3>. QED  BY <3>1, <3>2
  <2>. QED  BY <2>5, <2>6, <2>7 DEF RowTypes, FileTypes
<1>2. ASSUME NEW r \in Requests, NEW s \in Tuned, NEW k \in Keys, NEW v \in Values,
             PutProperties(r, s, k, v) \/ PatchConfig(r, s, k, v)
      PROVE  RowTypes' /\ FileTypes' /\ EditsOK'
  <2>1. UNCHANGED <<port, props, part, draft, mixed, want, go, run>> /\ go[r] = None /\ edit[r] = None
    BY <1>2 DEF PutProperties, PatchConfig
  <2>2. mine' \in [Tuned -> [Keys -> Value]]
    <3>1. None \in Value  BY DEF Value
    <3>2. Tell(s, k, None) \/ UNCHANGED mine  BY <1>2 DEF PutProperties, PatchConfig
    <3>. QED  BY <3>1, <3>2, TellTypes DEF FileTypes
  <2>3. conf' \in [Tuned -> [Keys -> Value]]
    <3>1. conf' = conf \/ conf' = [conf EXCEPT ![s][k] = v]  BY <1>2 DEF PutProperties, PatchConfig
    <3>2. v \in Value  BY DEF Value
    <3>3. CASE conf' = [conf EXCEPT ![s][k] = v]  BY <3>2, <3>3 DEF FileTypes
    <3>. QED  BY <3>1, <3>3 DEF FileTypes
  <2>4. edit' \in [Requests -> Edit \cup {None}] /\ EditsOK'
    <3>1. CASE edit' = [edit EXCEPT ![r] = Begun(s, "put", "read", <<k, v>>, {<<k, v>>}, Empty)]
      <4>1. {<<k, v>>} \in SUBSET PatchKeys(s, k, v)  BY DEF PatchKeys
      <4>2. "put" \in {"patch", "put"}  OBVIOUS
      <4>3. go[r] = None /\ UNCHANGED go  BY <2>1
      <4>. QED  BY <3>1, <4>1, <4>2, <4>3, BegunTypes
    <3>2. CASE edit' = [edit EXCEPT ![r] = Begun(s, "patch", "read", <<k, v>>, PatchKeys(s, k, v), Empty)]
      <4>1. PatchKeys(s, k, v) \in SUBSET PatchKeys(s, k, v)  OBVIOUS
      <4>2. "patch" \in {"patch", "put"}  OBVIOUS
      <4>3. go[r] = None /\ UNCHANGED go  BY <2>1
      <4>. QED  BY <3>2, <4>1, <4>2, <4>3, BegunTypes
    <3>3. CASE UNCHANGED edit
      <4>1. edit' = [edit EXCEPT ![r] = None]  BY <3>3, <2>1 DEF FileTypes
      <4>. QED  BY <2>1, <4>1, EditStep
    <3>. QED  BY <1>2, <3>1, <3>2, <3>3 DEF PutProperties, PatchConfig
  <2>. QED  BY <2>1, <2>2, <2>3, <2>4 DEF RowTypes, FileTypes
<1>3. ASSUME NEW r \in Requests, SetRead(r) PROVE RowTypes' /\ FileTypes' /\ EditsOK'
  <2>. DEFINE e == edit[r]
              c == IF props[e.srv] = None THEN Empty ELSE props[e.srv]
  <2>1. e \in Edit /\ e # None /\ EditShape(r) /\ e.pc = "read"  BY <1>3 DEF SetRead, Editing, FileTypes, EditsOK
  <2>2. e.srv \in Tuned /\ e.todo \subseteq (Keys \cup {"port"}) \X (Value \cup Ports)  BY <2>1 DEF Edit
  <2>3. Empty \in File  BY DEF Empty, File, Value
  <2>4. c \in File  BY <2>2, <2>3 DEF FileTypes
  <2>5. props' = [props EXCEPT ![e.srv] = c]  BY <1>3 DEF SetRead
  <2>6. PICK k \in e.todo : edit' = [edit EXCEPT ![r] = [e EXCEPT !.pc = "write", !.seen = c, !.key = k]]
    BY <1>3 DEF SetRead
  <2>. HIDE DEF c
  <2>. DEFINE f == [e EXCEPT !.pc = "write", !.seen = c, !.key = k]
  <2>7. f \in Edit  BY <2>1, <2>2, <2>4, <2>6 DEF Edit
  <2>8. edit'[r] = f /\ f # None  BY <2>6, <2>7 DEF FileTypes
  <2>9. f.kind = e.kind /\ f.ask = e.ask /\ f.full = e.full /\ f.key = k /\ f.srv = e.srv /\ f.todo = e.todo
        /\ f.pc = "write"
    BY <2>1 DEF Edit
  <2>. HIDE DEF f
  <2>10. UNCHANGED <<conf, port, part, draft, mine, mixed, want, go, run>>  BY <1>3 DEF SetRead
  <2>11. EditShape(r)'  BY <2>1, <2>6, <2>8, <2>9, <2>10 DEF EditShape, Always
  <2>12. edit' \in [Requests -> Edit \cup {None}] /\ EditsOK'  BY <2>6, <2>7, <2>10, <2>11, EditStep DEF f
  <2>. QED  BY <2>2, <2>4, <2>5, <2>10, <2>12 DEF RowTypes, FileTypes
<1>4. ASSUME NEW r \in Requests, SetWrite(r) PROVE RowTypes' /\ FileTypes' /\ EditsOK'
  <2>. DEFINE e == edit[r]  f == [e EXCEPT !.pc = "replace"]
  <2>1. e \in Edit /\ e # None /\ EditShape(r)  BY <1>4 DEF SetWrite, Editing, FileTypes, EditsOK
  <2>2. e.srv \in Tuned /\ e.seen \in File /\ e.key \in (Keys \cup {"port"}) \X (Value \cup Ports)
    BY <2>1 DEF Edit
  <2>3. New(e) \in File  BY <2>2 DEF New, File
  <2>4. f \in Edit  BY <2>1 DEF Edit
  <2>5. edit' = [edit EXCEPT ![r] = f]  BY <1>4 DEF SetWrite
  <2>6. edit'[r] = f /\ f # None  BY <2>4, <2>5 DEF FileTypes
  <2>7. f.kind = e.kind /\ f.ask = e.ask /\ f.full = e.full /\ f.key = e.key /\ f.srv = e.srv /\ f.todo = e.todo
        /\ f.pc = "replace"
    BY <2>1 DEF Edit
  <2>. HIDE DEF f
  <2>8. UNCHANGED <<conf, port, props, draft, mine, mixed, want, go, run>>  BY <1>4 DEF SetWrite
  <2>9. EditShape(r)'  BY <2>1, <2>6, <2>7, <2>8 DEF EditShape, Always
  <2>10. edit' \in [Requests -> Edit \cup {None}] /\ EditsOK'  BY <2>4, <2>5, <2>8, <2>9, EditStep
  <2>11. part' \in [Tuned -> File \cup {None}]  BY <1>4, <2>2, <2>3 DEF SetWrite, FileTypes
  <2>. QED  BY <2>8, <2>10, <2>11 DEF RowTypes, FileTypes
<1>5. ASSUME NEW r \in Requests, SetReplace(r) PROVE RowTypes' /\ FileTypes' /\ EditsOK'
  <2>. DEFINE e == edit[r]  left == e.todo \ {e.key}  f == [e EXCEPT !.pc = "read", !.todo = left]
  <2>1. e \in Edit /\ e # None /\ EditShape(r)  BY <1>5 DEF SetReplace, Editing, FileTypes, EditsOK
  <2>2. e.srv \in Tuned /\ e.kind \in {"start", "patch", "put"}  BY <2>1 DEF Edit
  <2>3. e.kind # "start" => e.ask[1] \in Keys /\ e.ask[2] \in Value  BY <2>1 DEF EditShape, Value
  <2>4. UNCHANGED <<port, draft, want, run, go>>  BY <1>5 DEF SetReplace, Finish
  <2>5. props' \in [Tuned -> File \cup {None}] /\ part' \in [Tuned -> File \cup {None}] /\ mixed' \subseteq Tuned
    BY <1>5, <2>2 DEF SetReplace, FileTypes, Mix
  <2>6. CASE left = {}
    <3>1. Finish(r, e)  BY <1>5, <2>6 DEF SetReplace
    <3>2. edit' = [edit EXCEPT ![r] = None]  BY <3>1 DEF Finish
    <3>3. edit' \in [Requests -> Edit \cup {None}] /\ EditsOK'  BY <3>2, <2>4, EditStep
    <3>4. conf' \in [Tuned -> [Keys -> Value]]  BY <3>1, <2>2, <2>3 DEF Finish, FileTypes
    <3>5. mine' \in [Tuned -> [Keys -> Value]]  BY <3>1, <2>2, <2>3, TellTypes DEF Finish, FileTypes
    <3>. QED  BY <2>4, <2>5, <3>3, <3>4, <3>5 DEF RowTypes, FileTypes
  <2>7. CASE left # {}
    <3>1. edit' = [edit EXCEPT ![r] = f] /\ UNCHANGED <<conf, mine>>  BY ZenonT(60), <1>5, <2>7 DEF SetReplace
    <3>2. f \in Edit  BY <2>1 DEF Edit
    <3>3. edit'[r] = f /\ f # None  BY <3>1, <3>2 DEF FileTypes
    <3>4. f.kind = e.kind /\ f.ask = e.ask /\ f.full = e.full /\ f.key = e.key /\ f.srv = e.srv /\ f.todo = left
        /\ f.pc = "read"
      BY <2>1 DEF Edit
    <3>. HIDE DEF f
    <3>5. EditShape(r)'  BY <2>1, <2>4, <3>3, <3>4 DEF EditShape, Always
    <3>6. edit' \in [Requests -> Edit \cup {None}] /\ EditsOK'  BY <2>4, <3>1, <3>2, <3>5, EditStep
    <3>. QED  BY <2>4, <2>5, <3>1, <3>6 DEF RowTypes, FileTypes
  <2>. QED  BY <2>6, <2>7
<1>6. ASSUME NEW r \in Requests, SetFails(r) PROVE RowTypes' /\ FileTypes' /\ EditsOK'
  <2>1. edit[r] \in Edit  BY <1>6 DEF SetFails, Editing, FileTypes
  <2>2. edit[r].srv \in Tuned  BY <2>1 DEF Edit
  <2>3. go' \in [Requests -> Start \cup {None}] /\ \A q \in Requests \ {r} : go'[q] = go[q]
    BY <1>6 DEF SetFails, RowTypes
  <2>4. edit' = [edit EXCEPT ![r] = None]  BY <1>6 DEF SetFails
  <2>5. edit' \in [Requests -> Edit \cup {None}] /\ EditsOK'  BY <2>3, <2>4, EditStep
  <2>. QED  BY <1>6, <2>2, <2>3, <2>5 DEF SetFails, Mix, RowTypes, FileTypes
<1>7. ASSUME NEW s \in Tuned, OpenFile(s) PROVE RowTypes' /\ FileTypes' /\ EditsOK'
  <2>1. props[s] \in File  BY <1>7 DEF OpenFile, FileTypes
  <2>2. draft' \in [Tuned -> File \cup {None}]  BY <1>7, <2>1 DEF OpenFile, Shown, FileTypes
  <2>3. UNCHANGED <<conf, port, props, part, edit, mine, mixed, want, go, run>>  BY <1>7 DEF OpenFile
  <2>. QED  BY <2>2, <2>3 DEF RowTypes, FileTypes, EditsOK, EditShape, Always
<1>8. ASSUME NEW s \in Tuned, NEW k \in Keys \cup {"port"}, NEW v \in Values \cup Ports, SaveFile(s, k, v),
             k \in Keys => v \in Values
      PROVE  RowTypes' /\ FileTypes' /\ EditsOK'
  <2>1. draft[s] \in File  BY <1>8 DEF SaveFile, FileTypes
  <2>2. Edited(s, k, v) \in File  BY <1>8, <2>1 DEF Edited, File, Value
  <2>3. UNCHANGED <<conf, port, part, edit, want, go, run>>  BY <1>8 DEF SaveFile
  <2>4. mine' \in [Tuned -> [Keys -> Value]]  BY <1>8, TellTypes DEF SaveFile, Value
  <2>5. props' \in [Tuned -> File \cup {None}] /\ draft' \in [Tuned -> File \cup {None}]
    BY <1>8, <2>2 DEF SaveFile, FileTypes
  <2>6. mixed' \subseteq Tuned  BY <1>8 DEF SaveFile, Mix, FileTypes
  <2>. QED  BY <2>3, <2>4, <2>5, <2>6 DEF RowTypes, FileTypes, EditsOK, EditShape, Always
<1>9. ASSUME NEW s \in Tuned, NEW p \in Ports, MovePort(s, p) PROVE RowTypes' /\ FileTypes' /\ EditsOK'
  <2>1. UNCHANGED <<conf, props, part, draft, edit, mine, mixed, want, go, run>>  BY <1>9 DEF MovePort
  <2>2. port' \in [Tuned -> Ports]  BY <1>9 DEF MovePort, FileTypes
  <2>. QED  BY <2>1, <2>2 DEF RowTypes, FileTypes, EditsOK, EditShape, Always
<1>. QED
  <2>1. ASSUME NEW s \in Tuned, NEW k \in Keys, NEW v \in Values, SaveFile(s, k, v)
        PROVE  RowTypes' /\ FileTypes' /\ EditsOK'
    BY <2>1, <1>8
  <2>2. ASSUME NEW s \in Tuned, NEW p \in Ports, SaveFile(s, "port", p) PROVE RowTypes' /\ FileTypes' /\ EditsOK'
    <3>1. "port" \notin Keys  BY DEF Keys
    <3>. QED  BY <2>2, <3>1, <1>8
  <2>. QED  BY <1>1, <1>2, <1>3, <1>4, <1>5, <1>6, <1>7, <1>9, <2>1, <2>2 DEF SettingsNext

SoftTypes == RowTypes /\ CacheTypes /\ FileTypes /\ EditsOK

\* A start the control plane sends.
Sent(s) == [srv |-> s, flavor |-> want[s].flavor, ver |-> want[s].ver,
            pc |-> IF s \in JavaServers THEN "jdk" ELSE "dist",
            port |-> IF s \in Tuned THEN port[s] ELSE None]

LEMMA SentTypes ==
    ASSUME RowTypes, FileTypes, NEW r \in Requests, NEW s \in Servers, StartServer(r, s)
    PROVE  /\ Sent(s) \in Start /\ go' = [go EXCEPT ![r] = Sent(s)] /\ go'[r] = Sent(s)
           /\ go' \in [Requests -> Start \cup {None}] /\ \A q \in Requests \ {r} : go'[q] = go[q]
<1>1. want[s].flavor \in Flavors /\ want[s].ver \in Releases  BY DEF RowTypes
<1>2. (IF s \in JavaServers THEN "jdk" ELSE "dist") \in JavaPc \cup BedrockPc  BY DEF JavaPc, BedrockPc
<1>3. (IF s \in Tuned THEN port[s] ELSE None) \in Ports \cup {None}  BY DEF FileTypes
<1>4. Sent(s) \in Start  BY <1>1, <1>2, <1>3 DEF Sent, Start
<1>5. go' = [go EXCEPT ![r] = Sent(s)]  BY DEF StartServer, Sent
<1>. QED  BY <1>4, <1>5 DEF RowTypes

\* A step of a start, seen from the settings.
LEMMA DropEditTypes ==
    ASSUME FileTypes, EditsOK, NEW r \in Requests, Moves(r), DropEdit(r)
    PROVE  FileTypes' /\ EditsOK'
<1>. DEFINE e == IF go'[r] = None THEN None ELSE edit[r]
<1>1. edit' = [edit EXCEPT ![r] = e]  BY DEF DropEdit
<1>2. e \in Edit \cup {None}  BY DEF FileTypes
<1>3. e # None => EditShape(r)'
  <2>. SUFFICES ASSUME e # None PROVE EditShape(r)'  OBVIOUS
  <2>1. go'[r] # None /\ edit'[r] = edit[r] /\ EditShape(r)  BY <1>1 DEF FileTypes, EditsOK
  <2>. QED  BY <2>1 DEF EditShape, Always, Moves, Same
<1>. HIDE DEF e
<1>4. edit' \in [Requests -> Edit \cup {None}] /\ EditsOK'  BY <1>1, <1>2, <1>3, EditStep DEF Moves
<1>. QED  BY <1>4 DEF DropEdit, FileTypes

LEMMA SoftwareStepTypes ==
    ASSUME SoftTypes, SoftwareNext
    PROVE  SoftTypes'
<1>. USE DEF SoftTypes
<1>1. ASSUME NEW r \in Requests, NEW s \in Servers, StartServer(r, s) PROVE SoftTypes'
  <2>1. /\ Sent(s) \in Start /\ go'[r] = Sent(s)
        /\ go' \in [Requests -> Start \cup {None}] /\ \A q \in Requests \ {r} : go'[q] = go[q]
    BY <1>1, SentTypes
  <2>2. go'[r] # None /\ go'[r].srv = s /\ (s \in Tuned => go'[r].port = port[s])
    <3>1. Sent(s).srv = s /\ (s \in Tuned => Sent(s).port = port[s])  BY DEF Sent
    <3>2. Sent(s) # None  BY <2>1
    <3>. QED  BY <2>1, <3>1, <3>2
  <2>3. StartProps(r, s) /\ edit[r] = None  BY <1>1 DEF StartServer
  <2>4. edit' \in [Requests -> Edit \cup {None}] /\ EditsOK'  BY <2>1, <2>2, <2>3, StartPropsTypes
  <2>5. UNCHANGED <<want, jdk, tar, jar, dist, temp, link, run, clash, conf, port, props, part, draft, mine, mixed>>
    BY <1>1 DEF StartServer, caches
  <2>. QED  BY <2>1, <2>4, <2>5 DEF RowTypes, CacheTypes, FileTypes
<1>2. ASSUME NEW r \in Requests, Fetching(r), DropEdit(r) PROVE SoftTypes'
  BY <1>2, Fetched, DropEditTypes
<1>3. ASSUME UNCHANGED <<go, caches, link, clash, setvars>>,
             want' \in [Servers -> [flavor : Flavors, ver : Releases]],
             run' \in [Servers -> Process \cup {None}]
      PROVE  SoftTypes'
  <2>1. UNCHANGED <<conf, port, props, part, draft, edit, mine, mixed>>  BY <1>3 DEF setvars
  <2>2. UNCHANGED <<jdk, tar, jar, dist, temp, link, clash, go>>  BY <1>3 DEF caches
  <2>3. FileTypes' /\ CacheTypes'  BY <2>1, <2>2 DEF FileTypes, CacheTypes
  <2>4. EditsOK'  BY <2>1, <2>2 DEF EditsOK, EditShape, Always
  <2>5. RowTypes'  BY <1>3, <2>2 DEF RowTypes
  <2>. QED  BY <2>3, <2>4, <2>5
<1>4. ASSUME NEW s \in Servers, StopServer(s), UNCHANGED setvars PROVE SoftTypes'
  <2>1. want' \in [Servers -> [flavor : Flavors, ver : Releases]] /\ run' \in [Servers -> Process \cup {None}]
    BY <1>4 DEF StopServer, RowTypes
  <2>. QED  BY <1>3, <1>4, <2>1 DEF StopServer
<1>5. ASSUME NEW s \in Servers, NEW f \in Flavors, NEW v \in Releases, SwitchSoftware(s, f, v), UNCHANGED setvars
      PROVE  SoftTypes'
  <2>1. want' \in [Servers -> [flavor : Flavors, ver : Releases]] /\ run' \in [Servers -> Process \cup {None}]
    BY <1>5 DEF SwitchSoftware, RowTypes
  <2>. QED  BY <1>3, <1>5, <2>1 DEF SwitchSoftware
<1>6. ASSUME SettingsNext, UNCHANGED <<caches, link, clash>> PROVE SoftTypes'
  <2>1. CacheTypes'  BY <1>6 DEF caches, CacheTypes
  <2>. QED  BY <1>6, <2>1, SettingsStepTypes
<1>7. \A s \in Servers \ JavaServers : want[s].flavor \in Flavors  BY DEF RowTypes
<1>. QED  BY <1>1, <1>2, <1>4, <1>5, <1>6, <1>7 DEF SoftwareNext

LEMMA SoftLostTypes ==
    ASSUME SoftTypes, StartsLost
    PROVE  SoftTypes'
<1>. USE DEF SoftTypes
<1>1. \A v \in Releases : jar[v] \in CachedJar => [jar[v] EXCEPT !.state = "part"] \in CachedJar
  BY DEF CachedJar
<1>2. \A v \in Releases : temp[v] \in TempDir => [temp[v] EXCEPT !.by = None] \in TempDir
  BY DEF TempDir
<1>3. jar' \in [Releases -> CachedJar \cup {None}]  BY <1>1 DEF StartsLost, CacheTypes
<1>4. temp' \in [Releases -> TempDir \cup {None}]  BY <1>2 DEF StartsLost, CacheTypes
<1>5. CacheTypes'  BY <1>3, <1>4 DEF StartsLost, CacheTypes
<1>6. RowTypes' /\ FileTypes'  BY DEF StartsLost, EditsLost, RowTypes, FileTypes
<1>7. EditsOK'  BY DEF StartsLost, EditsLost, EditsOK, EditShape
<1>. QED  BY <1>5, <1>6, <1>7

LEMMA AskedStep ==
    ASSUME asked \in 0..MaxRequests, StoreNext
    PROVE  asked' \in 0..MaxRequests
<1>1. ASSUME ModsNext PROVE asked' = asked \/ Ask
  BY <1>1 DEF ModsNext, InstallMod, ListMods, ListFails, Resolve, AllPresent, ResolveFails, OpenJar, SaveJar,
        FailJar, GiveUp, LeaseExpires, DeleteMod, DeleteFile
<1>2. ASSUME SettingsNext PROVE asked' = asked \/ Ask
  <2>1. ASSUME NEW r, Look(r) \/ SetRead(r) \/ SetWrite(r) \/ SetReplace(r) \/ SetFails(r) PROVE asked' = asked
    BY <2>1 DEF Look, SetRead, SetWrite, SetReplace, SetFails
  <2>2. ASSUME NEW r, NEW s, NEW k, NEW v, \/ PutProperties(r, s, k, v) \/ PatchConfig(r, s, k, v)
                                           \/ SaveFile(s, k, v) \/ MovePort(s, v)
        PROVE  Ask
    BY <2>2 DEF PutProperties, PatchConfig, SaveFile, MovePort
  <2>3. ASSUME NEW s, OpenFile(s) PROVE asked' = asked  BY <2>3 DEF OpenFile
  <2>. QED  BY <1>2, <2>1, <2>2, <2>3 DEF SettingsNext
<1>3. ASSUME NEW r \in Requests, Fetching(r) PROVE asked' = asked
  BY <1>3 DEF Fetching, JdkPresent, JdkOpen, JdkUnpack, JdkFails, JarPresent, JarAbsent,
        JarOpen, JarSave, JarFails, DistPresent, DistAbsent, ZipFails, ClearTemp, MoveBegins, CopyEnds, RenameTemp
<1>6. ASSUME NEW r, NEW s, NEW f, NEW v, StartServer(r, s) \/ StopServer(s) \/ SwitchSoftware(s, f, v) PROVE Ask
  BY <1>6 DEF StartServer, StopServer, SwitchSoftware
<1>4. ASSUME SoftwareNext PROVE asked' = asked \/ Ask
  BY <1>2, <1>3, <1>4, <1>6 DEF SoftwareNext
<1>5. asked' = asked \/ Ask  BY <1>1, <1>4 DEF StoreNext, Restart
<1>. QED  BY <1>5 DEF Ask

StoreTypes == asked \in 0..MaxRequests /\ ModsTypes /\ SoftTypes

LEMMA StoreTypesInit ==
    ASSUME StoreInit
    PROVE  StoreTypes
<1>1. ModsTypes  BY DEF StoreInit, ModsInit, ModsTypes, Content
<1>2. RowTypes /\ CacheTypes  BY DEF StoreInit, SoftwareInit, RowTypes, CacheTypes
<1>3. port \in [Tuned -> Ports]  BY DEF StoreInit, SettingsInit
<1>4. FileTypes  BY <1>3 DEF StoreInit, SettingsInit, FileTypes, Value
<1>5. EditsOK  BY DEF StoreInit, SettingsInit, EditsOK, EditShape
<1>. QED  BY <1>1, <1>2, <1>4, <1>5 DEF StoreTypes, SoftTypes, StoreInit

LEMMA StoreTypesStep ==
    ASSUME StoreTypes, [StoreNext]_vars
    PROVE  StoreTypes'
<1>. USE DEF StoreTypes
<1>1. CASE StoreNext
  <2>1. asked' \in 0..MaxRequests  BY <1>1, AskedStep
  <2>2. CASE ModsNext /\ UNCHANGED svars
    <3>1. ModsTypes'  BY <2>2, ModsStepTypes
    <3>2. SoftTypes'  BY <2>2 DEF SoftTypes, svars, setvars, RowTypes, CacheTypes, FileTypes, EditsOK, EditShape, Always
    <3>. QED  BY <2>1, <3>1, <3>2
  <2>3. CASE SoftwareNext /\ UNCHANGED mvars
    <3>1. SoftTypes'  BY <2>3, SoftwareStepTypes
    <3>2. ModsTypes'  BY <2>3 DEF mvars, ModsTypes
    <3>. QED  BY <2>1, <3>1, <3>2
  <2>4. CASE Restart  BY <2>1, <2>4, ModsLostTypes, SoftLostTypes DEF Restart
  <2>. QED  BY <1>1, <2>2, <2>3, <2>4 DEF StoreNext
<1>2. CASE UNCHANGED vars
  <2>1. UNCHANGED mvars /\ UNCHANGED svars /\ UNCHANGED asked  BY <1>2 DEF vars
  <2>2. ModsTypes'  BY <2>1 DEF mvars, ModsTypes
  <2>3. SoftTypes'  BY <2>1 DEF SoftTypes, svars, setvars, RowTypes, CacheTypes, FileTypes, EditsOK, EditShape, Always
  <2>. QED  BY <2>1, <2>2, <2>3
<1>. QED  BY <1>1, <1>2

\* Types of a running store.
THEOREM StoreTypesAlways == Spec => []StoreTypes
<1>1. StoreInit => StoreTypes  BY StoreTypesInit
<1>2. StoreTypes /\ [StoreNext]_vars => StoreTypes'  BY StoreTypesStep
<1>. QED  BY <1>1, <1>2, PTL DEF Spec

\* Every variable has its type, and a lease belongs to a running install of its server.
THEOREM StoreTyped == Spec => []StoreTypeOK
<1>1. StoreTypes => StoreTypeOK
  BY DEF StoreTypes, StoreTypeOK, ModsTypes, SoftTypes, RowTypes, CacheTypes, FileTypes
<1>. QED  BY <1>1, StoreTypesAlways, PTL

-----------------------------------------------------------------------------
(* Programs are complete when they are launched.                             *)

\* The frame of a step of one start: the other starts are where they were.
Alone(r) == \A q \in Requests \ {r} : go'[q] = go[q]
Grows == clash \subseteq clash' /\ clash' \subseteq Releases
Out(r, P) == go'[r] = None \/ go'[r].pc \notin P
Left(r, pc) == go[r] = None \/ go[r].pc # pc

LEMMA JarCalm ==
    ASSUME JarInv, NEW r \in Requests, Alone(r), UNCHANGED jar, Grows, Left(r, "save"), Out(r, WritingPc)
    PROVE  JarInv'
<1>1. ASSUME NEW q \in Requests, NEW v, Writing(q, v)' PROVE q # r /\ Writing(q, v) /\ go'[q] = go[q]
  BY <1>1 DEF Alone, Out, Writing
<1>2. Torn' = Torn  BY DEF Torn
<1>3. ASSUME NEW v \in Releases, jar[v] # None, jar[v].state \in Requests
      PROVE  Writing(jar[v].state, v)' /\ go'[jar[v].state].pc = "save"
  <2>1. Writing(jar[v].state, v) /\ go[jar[v].state].pc = "save"  BY <1>3 DEF JarInv
  <2>2. jar[v].state # r  BY <2>1 DEF Left, Writing
  <2>3. go'[jar[v].state] = go[jar[v].state]  BY <1>3, <2>2 DEF Alone
  <2>. QED  BY <2>1, <2>3 DEF Writing
<1>4. (\A v \in Torn, q \in Requests : ~Writing(q, v))'  BY <1>1, <1>2 DEF JarInv
<1>5. (\A v \in Releases \ clash : \A p, q \in Requests : Writing(p, v) /\ Writing(q, v) => p = q)'
  BY <1>1 DEF JarInv, Grows
<1>. QED  BY <1>3, <1>4, <1>5 DEF JarInv

LEMMA TempCalm ==
    ASSUME TempInv, NEW r \in Requests, Alone(r), UNCHANGED temp, Grows, Left(r, "copy"), Out(r, UnpackPc)
    PROVE  TempInv'
<1>1. ASSUME NEW q \in Requests, NEW v, Unpacking(q, v)' PROVE q # r /\ Unpacking(q, v) /\ go'[q] = go[q]
  BY <1>1 DEF Alone, Out, Unpacking
<1>2. (\A v \in Releases, q \in Requests :
          temp[v] # None /\ temp[v].by = None /\ Unpacking(q, v) => go[q].pc = "zip")'
  BY <1>1 DEF TempInv
<1>3. ASSUME NEW v \in Releases, NEW q \in Requests, temp[v] # None, temp[v].by = q, ~temp[v].full
      PROVE  Unpacking(q, v)' /\ go'[q].pc = "copy"
  <2>1. Unpacking(q, v) /\ go[q].pc = "copy"  BY <1>3 DEF TempInv
  <2>2. go'[q] = go[q]  BY <2>1 DEF Left, Unpacking, Alone
  <2>. QED  BY <2>1, <2>2 DEF Unpacking
<1>4. (\A v \in Releases \ clash : \A p, q \in Requests : Unpacking(p, v) /\ Unpacking(q, v) => p = q)'
  BY <1>1 DEF TempInv, Grows
<1>. QED  BY <1>2, <1>3, <1>4 DEF TempInv

LEMMA DistCalm ==
    ASSUME DistInv, UNCHANGED <<dist, link>>, Grows
    PROVE  DistInv'
BY DEF DistInv, Grows

LEMMA RunCalm ==
    ASSUME LaunchedWhole, Grows, Torn \subseteq Torn',
           \A s \in Servers : run'[s] = run[s] \/ run'[s] = None
    PROVE  LaunchedWhole'
BY DEF LaunchedWhole, Grows

\* A start that goes on stays in its lane.
LEMMA LaneKept ==
    ASSUME Lanes, NEW r \in Requests, Moves(r), DropEdit(r), FileTypes,
           go'[r] # None => (go'[r].pc \in JavaPc <=> go[r].pc \in JavaPc),
           go'[r] # None => go'[r].pc \in EarlyPc \/ edit[r] = None
    PROVE  Lanes'
<1>1. \A q \in Requests : edit'[q] # None => edit'[q] = edit[q]  BY DEF DropEdit, FileTypes
<1>2. \A q \in Requests \ {r} : go'[q] = go[q]  BY DEF Moves
<1>3. go'[r] # None => go'[r].srv = go[r].srv /\ go[r] # None  BY DEF Moves, Same
<1>. QED  BY <1>1, <1>2, <1>3 DEF Lanes

LEMMA ClashAdds ==
    ASSUME Lanes, NEW r \in Requests, NEW q \in Requests \ {r}, go[r] # None, go[q] # None,
           go[q].ver = go[r].ver, go[q].pc \in JavaPc <=> go[r].pc \in JavaPc, Clash(r)
    PROVE  go[r].ver \in clash'
<1>1. (go[q].srv \in JavaServers) = (go[r].srv \in JavaServers)  BY DEF Lanes
<1>. QED  BY <1>1 DEF Clash

\* The process of a jar: complete, or its version is torn or was fetched twice.
LEMMA RunLaunch ==
    ASSUME SoftTypes, LaunchedWhole, Grows, Torn \subseteq Torn', NEW r \in Requests, go[r] # None,
           NEW f \in Flavors, NEW v \in Releases, NEW w \in BOOLEAN, Launch(r, f, v, w),
           w \/ v \in clash' \/ (go[r].srv \in JavaServers /\ v \in Torn')
    PROVE  LaunchedWhole'
<1>1. ASSUME NEW s \in Servers, run'[s] # run[s], ~run'[s].whole
      PROVE  run'[s].ver \in clash' \cup (IF s \in JavaServers THEN Torn' ELSE {})
  <2>1. s = go[r].srv /\ run'[s] = [flavor |-> f, ver |-> v, whole |-> w, there |-> Listens(r)]
    BY <1>1, LaunchTypes DEF SoftTypes
  <2>2. run'[s].ver = v /\ run'[s].whole = w  BY <2>1
  <2>. QED  BY <1>1, <2>1, <2>2
<1>. QED  BY <1>1 DEF LaunchedWhole, Grows

\* Starts that neither write a jar nor unpack anything.
LEMMA EarlySteps ==
    ASSUME SoftTypes, SoftInv, NEW r \in Requests, DropEdit(r),
           JdkPresent(r) \/ JdkOpen(r) \/ JdkUnpack(r) \/ JdkFails(r) \/ ZipFails(r)
    PROVE  SoftInv'
<1>. USE DEF SoftInv
<1>1. Moves(r)  BY Fetched DEF SoftTypes, Fetching
<1>2. go[r] # None /\ go[r].pc \in {"jdk", "unpack", "zip"}
  BY DEF JdkPresent, JdkOpen, JdkUnpack, JdkFails, ZipFails, Pc
<1>3. UNCHANGED <<jar, dist, temp, link, run, clash>>
  BY DEF JdkPresent, JdkOpen, JdkUnpack, JdkFails, ZipFails, caches
<1>4. go'[r] = None \/ (go[r].pc \in {"jdk", "unpack"} /\ go'[r].pc \in {"jar", "unpack"})
  BY <1>2, GotoMoves, EndsMoves DEF SoftTypes, JdkPresent, JdkOpen, JdkUnpack, JdkFails, ZipFails, Pc, JavaPc, BedrockPc
<1>5. Alone(r) /\ Grows  BY <1>1, <1>3 DEF Moves, Alone, Grows, SoftTypes, CacheTypes
<1>6. Left(r, "save") /\ Left(r, "copy") /\ Out(r, WritingPc) /\ Out(r, UnpackPc)
  BY <1>2, <1>4 DEF Left, Out, WritingPc, UnpackPc
<1>7. Lanes'  BY <1>1, <1>4, LaneKept DEF SoftTypes, JavaPc, EarlyPc
<1>8. Torn' = Torn  BY <1>3 DEF Torn
<1>. QED  BY <1>3, <1>5, <1>6, <1>7, <1>8, JarCalm, TempCalm, DistCalm, RunCalm

LEMMA JarPresentStep ==
    ASSUME SoftTypes, SoftInv, NEW r \in Requests, DropEdit(r), JarPresent(r)
    PROVE  SoftInv'
<1>. USE DEF SoftInv
<1>. DEFINE v == go[r].ver  c == jar[v]
<1>1. Moves(r)  BY Fetched DEF SoftTypes, Fetching
<1>2. go[r] # None /\ go[r].pc = "jar" /\ c # None /\ Clash(r)  BY DEF JarPresent, Pc
<1>3. v \in Releases /\ go[r].srv \in JavaServers  BY <1>2 DEF SoftTypes, RowTypes, Start, Lanes, JavaPc
<1>4. c \in CachedJar  BY <1>2, <1>3 DEF SoftTypes, CacheTypes
<1>5. c.by \in Flavors /\ c.state \in {"whole", "part"} \cup Requests  BY <1>4 DEF CachedJar
<1>6. Launch(r, c.by, v, c.state = "whole")  BY DEF JarPresent, LaunchJar
<1>7. UNCHANGED <<jar, dist, temp, link>>  BY DEF JarPresent, caches
<1>8. go'[r] = None  BY <1>6, <1>2, EndsMoves DEF Launch, SoftTypes
<1>9. Grows  BY <1>2, ClashTypes DEF SoftTypes, Grows
<1>10. Torn' = Torn  BY <1>7 DEF Torn
<1>11. c.state = "whole" \/ v \in clash' \/ v \in Torn'
  <2>1. CASE c.state \in Requests
    <3>. DEFINE q == c.state
    <3>1. Writing(q, v) /\ go[q].pc = "save"  BY <2>1, <1>2, <1>3 DEF JarInv
    <3>2. q # r /\ go[q] # None /\ go[q].ver = v  BY <3>1, <1>2 DEF Writing
    <3>. HIDE DEF q, v, c
    <3>3. go[q].pc \in JavaPc <=> go[r].pc \in JavaPc  BY <3>1, <1>2 DEF JavaPc
    <3>4. q \in Requests \ {r}  BY <2>1, <3>2 DEF q
    <3>. QED  BY <1>2, <3>2, <3>3, <3>4, ClashAdds DEF v
  <2>2. CASE c.state = "part"  BY <2>2, <1>2, <1>3, <1>10 DEF Torn
  <2>. QED  BY <1>5, <2>1, <2>2
<1>. HIDE DEF v, c
<1>12. LaunchedWhole'  BY <1>2, <1>3, <1>5, <1>6, <1>9, <1>10, <1>11, RunLaunch
<1>13. Alone(r)  BY <1>1 DEF Moves, Alone
<1>14. Left(r, "save") /\ Left(r, "copy") /\ Out(r, WritingPc) /\ Out(r, UnpackPc)
  BY <1>2, <1>8 DEF Left, Out
<1>15. Lanes'  BY <1>1, <1>8, LaneKept DEF SoftTypes
<1>. QED  BY <1>7, <1>9, <1>12, <1>13, <1>14, <1>15, JarCalm, TempCalm, DistCalm

LEMMA JarAbsentStep ==
    ASSUME SoftTypes, SoftInv, NEW r \in Requests, DropEdit(r), JarAbsent(r)
    PROVE  SoftInv'
<1>. USE DEF SoftInv
<1>. DEFINE v == go[r].ver
<1>1. Moves(r)  BY Fetched DEF SoftTypes, Fetching
<1>2. go[r] # None /\ go[r].pc = "jar" /\ jar[v] = None /\ Clash(r) /\ edit[r] = None  BY DEF JarAbsent, Pc
<1>3. go'[r] # None /\ go'[r].pc = "get" /\ go'[r].ver = v
  BY <1>2, GotoMoves DEF SoftTypes, JarAbsent, JavaPc, BedrockPc
<1>4. UNCHANGED <<jar, dist, temp, link, run>>  BY DEF JarAbsent, caches
<1>5. Grows  BY <1>2, ClashTypes DEF SoftTypes, Grows
<1>6. Alone(r)  BY <1>1 DEF Moves, Alone
<1>7. Lanes'  BY <1>1, <1>2, <1>3, LaneKept DEF SoftTypes, JavaPc
<1>8. Torn' = Torn  BY <1>4 DEF Torn
<1>9. \A q \in Requests \ {r} : Writing(q, v) => v \in clash'
  BY <1>2, ClashAdds DEF Writing, WritingPc, JavaPc
<1>10. \A q \in Requests \ {r} : \A u : Writing(q, u)' <=> Writing(q, u)  BY <1>6 DEF Alone, Writing
<1>11. \A u : Writing(r, u)' <=> u = v  BY <1>3 DEF Writing, WritingPc
<1>. HIDE DEF v
<1>12. JarInv'
  <2>1. (\A u \in Torn, q \in Requests : ~Writing(q, u))'
    <3>1. v \notin Torn  BY <1>2 DEF Torn, v
    <3>. QED  BY <3>1, <1>8, <1>10, <1>11 DEF JarInv
  <2>2. ASSUME NEW u \in Releases, jar[u] # None, jar[u].state \in Requests
        PROVE  Writing(jar[u].state, u)' /\ go'[jar[u].state].pc = "save"
    <3>1. Writing(jar[u].state, u) /\ go[jar[u].state].pc = "save"  BY <2>2 DEF JarInv
    <3>2. jar[u].state # r  BY <3>1, <1>2
    <3>. QED  BY <2>2, <3>1, <3>2, <1>4, <1>6, <1>10 DEF Alone
  <2>3. ASSUME NEW u \in Releases \ clash', NEW p \in Requests, NEW q \in Requests, Writing(p, u)', Writing(q, u)'
        PROVE  p = q
    <3>1. u \notin clash  BY <2>3, <1>5 DEF Grows
    <3>. QED  BY <2>3, <3>1, <1>9, <1>10, <1>11 DEF JarInv
  <2>. QED  BY <2>1, <2>2, <2>3, <1>4 DEF JarInv
<1>13. Left(r, "copy") /\ Out(r, UnpackPc)  BY <1>2, <1>3 DEF Left, Out, UnpackPc
<1>. QED  BY <1>4, <1>5, <1>6, <1>7, <1>8, <1>12, <1>13, TempCalm, DistCalm, RunCalm

\* The start that writes a jar, opening it, completing it or removing it.
LEMMA JarWriteStep ==
    ASSUME SoftTypes, SoftInv, NEW r \in Requests, DropEdit(r), JarOpen(r) \/ JarSave(r) \/ JarFails(r)
    PROVE  SoftInv'
<1>. USE DEF SoftInv
<1>. DEFINE v == go[r].ver
<1>1. Moves(r)  BY Fetched DEF SoftTypes, Fetching
<1>2. go[r] # None /\ go[r].pc \in {"get", "save"}  BY DEF JarOpen, JarSave, JarFails, Pc
<1>3. v \in Releases /\ go[r].flavor \in Flavors /\ go[r].srv \in JavaServers
  BY <1>2 DEF SoftTypes, RowTypes, Start, Lanes, JavaPc
<1>4. Writing(r, v) /\ v \notin Torn  BY <1>2, <1>3 DEF Writing, WritingPc, JarInv
<1>5. UNCHANGED <<dist, temp, link, clash>>  BY DEF JarOpen, JarSave, JarFails
<1>6. Grows /\ Alone(r)  BY <1>1, <1>5 DEF Moves, Alone, Grows, SoftTypes, CacheTypes
<1>7. go'[r] = None \/ (JarOpen(r) /\ go'[r].pc = "save" /\ go'[r].ver = v /\ go'[r] # None)
  BY <1>2, GotoMoves, EndsMoves DEF SoftTypes, JarOpen, JarSave, JarFails, LaunchJar, Launch, JavaPc, BedrockPc
<1>8. edit[r] = None  BY <1>2 DEF Lanes, EarlyPc
<1>9. Lanes'  BY <1>1, <1>2, <1>7, <1>8, LaneKept DEF SoftTypes, JavaPc
<1>10. Left(r, "copy") /\ Out(r, UnpackPc)  BY <1>2, <1>7 DEF Left, Out, UnpackPc
<1>11. TempInv' /\ DistInv'  BY <1>5, <1>6, <1>10, TempCalm, DistCalm
<1>12. \A u \in Releases \ {v} : jar'[u] = jar[u]
  BY <1>3 DEF JarOpen, JarSave, JarFails, SoftTypes, CacheTypes
<1>13. jar'[v] # None => \/ jar'[v].state = "whole"
                         \/ jar'[v].state = r /\ go'[r] # None
                         \/ jar[v] # None /\ jar'[v] = jar[v] /\ jar[v].state # r
  <2>. USE <1>3 DEF SoftTypes, CacheTypes
  <2>1. CASE JarOpen(r)
    <3>1. jar'[v] = [by |-> go[r].flavor, state |-> r]  BY <2>1 DEF JarOpen
    <3>2. Goto(r, "save")  BY <2>1 DEF JarOpen
    <3>3. go'[r] # None  BY <3>2, <1>2, GotoMoves DEF JavaPc
    <3>. QED  BY <3>1, <3>3
  <2>2. CASE JarSave(r)
    <3>1. CASE jar[v] = None  BY <2>2, <3>1 DEF JarSave
    <3>2. CASE jar[v] # None /\ jar[v].state = r
      <4>1. jar[v] \in CachedJar  BY <3>2
      <4>2. jar'[v] = [jar[v] EXCEPT !.state = "whole"]  BY <2>2, <3>2 DEF JarSave
      <4>. QED  BY <4>1, <4>2 DEF CachedJar
    <3>3. CASE jar[v] # None /\ jar[v].state # r  BY <2>2, <3>3 DEF JarSave
    <3>. QED  BY <3>1, <3>2, <3>3
  <2>3. CASE JarFails(r)  BY <2>3 DEF JarFails
  <2>. QED  BY <2>1, <2>2, <2>3
<1>14. \A q \in Requests \ {r} : \A u : Writing(q, u)' <=> Writing(q, u)  BY <1>6 DEF Alone, Writing
<1>15. \A u : Writing(r, u)' => u = v  BY <1>7 DEF Writing
<1>16. jar[v] # None /\ jar[v].state # "whole" /\ jar[v].state # r =>
          jar[v].state \in Requests \ {r} /\ Writing(jar[v].state, v) /\ v \in clash
  <2>. SUFFICES ASSUME jar[v] # None, jar[v].state # "whole", jar[v].state # r
                PROVE  jar[v].state \in Requests \ {r} /\ Writing(jar[v].state, v) /\ v \in clash
    OBVIOUS
  <2>1. jar[v] \in CachedJar  BY <1>3 DEF SoftTypes, CacheTypes
  <2>2. jar[v].state \in {"whole", "part"} \cup Requests  BY <2>1 DEF CachedJar
  <2>3. jar[v].state # "part"  BY <1>3, <1>4 DEF Torn
  <2>4. jar[v].state \in Requests \ {r}  BY <2>2, <2>3
  <2>5. Writing(jar[v].state, v)  BY <1>3, <2>4 DEF JarInv
  <2>. QED  BY <2>4, <2>5, <1>3, <1>4 DEF JarInv
<1>17. JarInv'
  <2>1. (\A u \in Torn, q \in Requests : ~Writing(q, u))'
    <3>1. ASSUME NEW u \in Torn' PROVE u \in Torn
      <4>1. u \in Releases /\ jar'[u] # None /\ jar'[u].state = "part"  BY <3>1 DEF Torn
      <4>2. CASE u = v  BY <4>1, <4>2, <1>13 DEF Torn
      <4>3. CASE u # v  BY <4>1, <4>3, <1>12 DEF Torn
      <4>. QED  BY <4>2, <4>3
    <3>. QED  BY <3>1, <1>4, <1>14, <1>15 DEF JarInv
  <2>2. ASSUME NEW u \in Releases, NEW q \in Requests, jar'[u] # None, jar'[u].state = q
        PROVE  Writing(q, u)' /\ go'[q].pc = "save"
    <3>1. CASE jar'[u] = jar[u] /\ q # r
      <4>1. Writing(q, u) /\ go[q].pc = "save"  BY <2>2, <3>1 DEF JarInv
      <4>2. go'[q] = go[q]  BY <3>1, <1>6 DEF Alone
      <4>. QED  BY <4>1, <4>2 DEF Writing
    <3>2. CASE u = v /\ q = r /\ go'[r] # None
      BY <3>2, <1>7 DEF Writing, WritingPc
    <3>3. CASE u # v
      <4>1. Writing(q, u)  BY <2>2, <3>3, <1>12 DEF JarInv
      <4>2. q # r  BY <3>3, <4>1 DEF Writing
      <4>. QED  BY <3>1, <3>3, <4>2, <1>12
    <3>. QED  BY <2>2, <3>1, <3>2, <3>3, <1>13
  <2>3. ASSUME NEW u \in Releases \ clash', NEW p \in Requests, NEW q \in Requests, Writing(p, u)', Writing(q, u)'
        PROVE  p = q
    <3>1. Writing(p, u) /\ Writing(q, u)  BY <2>3, <1>4, <1>14, <1>15
    <3>. QED  BY <2>3, <3>1, <1>5 DEF JarInv
  <2>4. (\A u \in Releases : jar[u] # None /\ jar[u].state \in Requests =>
          Writing(jar[u].state, u) /\ go[jar[u].state].pc = "save")'
    BY <2>2
  <2>. QED  BY <2>1, <2>3, <2>4 DEF JarInv
<1>18. Torn \subseteq Torn'  BY <1>4, <1>12 DEF Torn
<1>19. LaunchedWhole'
  <2>1. CASE UNCHANGED run  BY <2>1, <1>6, <1>18, RunCalm
  <2>2. CASE run' # run
    <3>1. JarSave(r) /\ jar[v] # None  BY <2>2 DEF JarOpen, JarFails, JarSave
    <3>. DEFINE c == jar[v]
                d == IF c.state = r THEN [c EXCEPT !.state = "whole"] ELSE c
    <3>2. Launch(r, d.by, v, d.state = "whole")  BY <3>1 DEF JarSave, LaunchJar
    <3>3. c \in CachedJar  BY <3>1, <1>3 DEF SoftTypes, CacheTypes
    <3>4. d.by \in Flavors /\ (d.state = "whole" \/ v \in clash)  BY <3>1, <3>3, <1>16 DEF CachedJar
    <3>. HIDE DEF d, v, c
    <3>. QED  BY <3>2, <3>4, <1>2, <1>3, <1>5, <1>6, <1>18, RunLaunch
  <2>. QED  BY <2>1, <2>2
<1>. QED  BY <1>9, <1>11, <1>17, <1>19

\* A server launched from a version's directory, its own link's if it has one.
LEMMA DistLaunch ==
    ASSUME SoftTypes, SoftInv, Grows, UNCHANGED jar, NEW r \in Requests, go[r] # None,
           NEW w \in BOOLEAN, LaunchDist(r, w), w \/ go[r].ver \in clash'
    PROVE  /\ LaunchedWhole' /\ go'[r] = None
           /\ \A s \in Servers : link'[s] = link[s] \/ link'[s] = go[r].ver
<1>1. go[r] \in Start /\ go[r].srv \in Servers /\ go[r].ver \in Releases /\ go[r].flavor \in Flavors
  BY DEF SoftTypes, RowTypes, Start
<1>2. Torn \subseteq Torn'  BY DEF Torn
<1>3. LaunchedWhole  BY DEF SoftInv
<1>4. \A s \in Servers : link'[s] = link[s] \/ link'[s] = go[r].ver
  BY <1>1 DEF LaunchDist, SoftTypes, CacheTypes
<1>5. go'[r] = None  BY LaunchDistTypes DEF SoftTypes
<1>6. CASE link[go[r].srv] = None
  <2>1. CASE w
    <3>1. Launch(r, go[r].flavor, go[r].ver, TRUE)  BY <1>6, <2>1 DEF LaunchDist
    <3>2. LaunchedWhole'  BY <1>1, <1>2, <1>3, <3>1, RunLaunch
    <3>. QED  BY <3>2, <1>4, <1>5
  <2>2. CASE ~w
    <3>1. Launch(r, go[r].flavor, go[r].ver, FALSE)  BY <1>6, <2>2 DEF LaunchDist
    <3>2. LaunchedWhole'  BY <1>1, <1>2, <1>3, <2>2, <3>1, RunLaunch
    <3>. QED  BY <3>2, <1>4, <1>5
  <2>. QED  BY <2>1, <2>2
<1>7. CASE link[go[r].srv] # None
  <2>. DEFINE v == link[go[r].srv]
  <2>1. v \in Releases  BY <1>1, <1>7 DEF SoftTypes, CacheTypes
  <2>2. Launch(r, go[r].flavor, v, dist[v] = "whole")  BY <1>7 DEF LaunchDist
  <2>3. dist[v] # None  BY <1>1, <1>7 DEF SoftInv, DistInv
  <2>4. dist[v] = "whole" \/ v \in clash'  BY <2>1, <2>3 DEF SoftTypes, CacheTypes, SoftInv, DistInv, Grows
  <2>. HIDE DEF v
  <2>5. LaunchedWhole'  BY <1>1, <1>2, <1>3, <2>1, <2>2, <2>4, RunLaunch
  <2>. QED  BY <2>5, <1>4, <1>5
<1>. QED  BY <1>6, <1>7

LEMMA DistPresentStep ==
    ASSUME SoftTypes, SoftInv, NEW r \in Requests, DropEdit(r), DistPresent(r)
    PROVE  SoftInv'
<1>1. Moves(r)  BY Fetched DEF SoftTypes, Fetching
<1>2. go[r] # None /\ go[r].pc = "dist" /\ dist[go[r].ver] # None /\ Clash(r)  BY DEF DistPresent, Pc
<1>3. go[r].ver \in Releases  BY <1>2 DEF SoftTypes, RowTypes, Start
<1>4. UNCHANGED <<jar, dist, temp>>  BY DEF DistPresent, caches
<1>5. Grows /\ Alone(r)  BY <1>1, <1>2, ClashTypes DEF SoftTypes, Grows, Moves, Alone
<1>6. dist[go[r].ver] = "whole" \/ go[r].ver \in clash'
  BY <1>2, <1>3, <1>5 DEF SoftTypes, CacheTypes, SoftInv, DistInv, Grows
<1>7. LaunchDist(r, dist[go[r].ver] = "whole")  BY DEF DistPresent
<1>8. /\ LaunchedWhole' /\ go'[r] = None
      /\ \A s \in Servers : link'[s] = link[s] \/ link'[s] = go[r].ver
  BY <1>2, <1>4, <1>5, <1>6, <1>7, DistLaunch
<1>9. DistInv'  BY <1>2, <1>4, <1>5, <1>8 DEF SoftInv, DistInv, Grows
<1>10. Lanes'  BY <1>1, <1>8, LaneKept DEF SoftTypes, SoftInv
<1>11. Left(r, "save") /\ Left(r, "copy") /\ Out(r, WritingPc) /\ Out(r, UnpackPc)
  BY <1>2, <1>8 DEF Left, Out
<1>. QED  BY <1>4, <1>5, <1>8, <1>9, <1>10, <1>11, JarCalm, TempCalm DEF SoftInv

LEMMA DistAbsentStep ==
    ASSUME SoftTypes, SoftInv, NEW r \in Requests, DropEdit(r), DistAbsent(r)
    PROVE  SoftInv'
<1>. USE DEF SoftInv
<1>. DEFINE v == go[r].ver
<1>1. Moves(r)  BY Fetched DEF SoftTypes, Fetching
<1>2. go[r] # None /\ go[r].pc = "dist" /\ edit[r] = None  BY DEF DistAbsent, Pc
<1>3. UNCHANGED <<jar, dist, temp, link, run>>  BY DEF DistAbsent, caches
<1>4. Torn' = Torn  BY <1>3 DEF Torn
<1>5. Grows /\ Alone(r)
  BY <1>1, <1>2, ClashTypes DEF DistAbsent, SoftTypes, CacheTypes, Grows, Moves, Alone
<1>6. CASE v \in Unavailable
  <2>1. go' = [go EXCEPT ![r] = [go[r] EXCEPT !.ver = Latest]]  BY <1>6 DEF DistAbsent
  <2>2. go[r] \in Start  BY <1>2 DEF SoftTypes, RowTypes
  <2>3. go'[r].pc = "dist"  BY <1>2, <2>1, <2>2 DEF SoftTypes, RowTypes, Start
  <2>4. Left(r, "save") /\ Left(r, "copy") /\ Out(r, WritingPc) /\ Out(r, UnpackPc)
    BY <1>2, <2>3 DEF Left, Out, WritingPc, UnpackPc
  <2>5. Lanes'  BY <1>1, <1>2, <2>3, LaneKept DEF SoftTypes
  <2>. QED  BY <1>3, <1>4, <1>5, <2>4, <2>5, JarCalm, TempCalm, DistCalm, RunCalm
<1>7. CASE v \notin Unavailable
  <2>1. go'[r] # None /\ go'[r].pc = "zip" /\ go'[r].ver = v /\ Clash(r)
    BY <1>2, <1>7, GotoMoves DEF SoftTypes, DistAbsent, JavaPc, BedrockPc
  <2>2. Left(r, "save") /\ Out(r, WritingPc)  BY <1>2, <2>1 DEF Left, Out, WritingPc
  <2>3. Lanes'  BY <1>1, <1>2, <2>1, LaneKept DEF SoftTypes, JavaPc
  <2>4. \A q \in Requests \ {r} : Unpacking(q, v) => v \in clash'
    BY <1>2, <2>1, ClashAdds DEF Unpacking, UnpackPc, JavaPc
  <2>5. \A q \in Requests \ {r} : (\A u : Unpacking(q, u)' <=> Unpacking(q, u)) /\ go'[q] = go[q]
    BY <1>5 DEF Alone, Unpacking
  <2>6. \A u : Unpacking(r, u)' <=> u = v  BY <2>1 DEF Unpacking, UnpackPc
  <2>. HIDE DEF v
  <2>7. TempInv'
    <3>1. (\A u \in Releases, q \in Requests :
              temp[u] # None /\ temp[u].by = None /\ Unpacking(q, u) => go[q].pc = "zip")'
      BY <1>3, <2>1, <2>5 DEF TempInv
    <3>2. ASSUME NEW u \in Releases, NEW q \in Requests, temp[u] # None, temp[u].by = q, ~temp[u].full
          PROVE  Unpacking(q, u)' /\ go'[q].pc = "copy"
      <4>1. Unpacking(q, u) /\ go[q].pc = "copy"  BY <3>2 DEF TempInv
      <4>. QED  BY <4>1, <1>2, <2>5
    <3>3. ASSUME NEW u \in Releases \ clash', NEW p \in Requests, NEW q \in Requests, Unpacking(p, u)', Unpacking(q, u)'
          PROVE  p = q
      <4>1. u \notin clash  BY <3>3, <1>5 DEF Grows
      <4>. QED  BY <3>3, <4>1, <2>4, <2>5, <2>6 DEF TempInv
    <3>. QED  BY <3>1, <3>2, <3>3, <1>3 DEF TempInv
  <2>. QED  BY <1>3, <1>4, <1>5, <2>2, <2>3, <2>7, JarCalm, DistCalm, RunCalm
<1>. QED  BY <1>6, <1>7

\* The start that unpacks a version, up to the rename.
LEMMA UnpackStep ==
    ASSUME SoftTypes, SoftInv, NEW r \in Requests, DropEdit(r), ClearTemp(r) \/ MoveBegins(r) \/ CopyEnds(r)
    PROVE  SoftInv'
<1>. USE DEF SoftInv
<1>. DEFINE v == go[r].ver
<1>1. Moves(r)  BY Fetched DEF SoftTypes, Fetching
<1>2. go[r] # None /\ go[r].pc \in {"zip", "move", "copy"} /\ v \in Releases
  BY DEF ClearTemp, MoveBegins, CopyEnds, Pc, SoftTypes, RowTypes, Start
<1>3. UNCHANGED <<jar, dist, link, run, clash>>  BY DEF ClearTemp, MoveBegins, CopyEnds
<1>4. Torn' = Torn  BY <1>3 DEF Torn
<1>5. Grows /\ Alone(r)  BY <1>1, <1>3 DEF SoftTypes, CacheTypes, Grows, Moves, Alone
<1>6. Unpacking(r, v)  BY <1>2 DEF Unpacking, UnpackPc
<1>7. go'[r] = None \/ (go'[r] # None /\ go'[r].ver = v /\ go'[r].pc \in {"move", "copy", "copied", "nested"})
  BY <1>2, GotoMoves, EndsMoves DEF SoftTypes, ClearTemp, MoveBegins, CopyEnds, JavaPc, BedrockPc
<1>8. edit[r] = None  BY <1>2 DEF Lanes, EarlyPc
<1>9. Lanes'  BY <1>1, <1>2, <1>7, <1>8, LaneKept DEF SoftTypes, JavaPc
<1>10. Left(r, "save") /\ Out(r, WritingPc)  BY <1>2, <1>7 DEF Left, Out, WritingPc
<1>11. \A q \in Requests \ {r} : (\A u : Unpacking(q, u)' <=> Unpacking(q, u)) /\ go'[q] = go[q]
  BY <1>5 DEF Alone, Unpacking
<1>12. \A u : Unpacking(r, u)' => u = v  BY <1>7 DEF Unpacking
<1>13. \A u \in Releases \ {v} : temp'[u] = temp[u]
  BY <1>2 DEF ClearTemp, MoveBegins, CopyEnds, SoftTypes, CacheTypes
<1>14. temp'[v] # None => \/ temp'[v].by = r /\ (temp'[v].full \/ (go'[r] # None /\ go'[r].pc = "copy"))
                          \/ temp'[v] = temp[v] /\ temp[v].by # None /\ (temp[v].by # r \/ temp[v].full)
  <2>. USE <1>2 DEF SoftTypes, CacheTypes
  <2>1. CASE ClearTemp(r)  BY <2>1 DEF ClearTemp
  <2>2. CASE MoveBegins(r) /\ temp[v] = None
    <3>1. temp'[v] = [by |-> r, full |-> FALSE] /\ Goto(r, "copy")  BY <2>2 DEF MoveBegins
    <3>2. go'[r] # None /\ go'[r].pc = "copy"  BY <3>1, GotoMoves DEF BedrockPc
    <3>. QED  BY <3>1, <3>2
  <2>3. CASE MoveBegins(r) /\ temp[v] # None
    <3>1. temp'[v] = temp[v] /\ go[r].pc = "move"  BY <2>3 DEF MoveBegins, Pc
    <3>2. temp[v].by # None  BY <2>3, <3>1, <1>6 DEF TempInv
    <3>3. temp[v].by # r \/ temp[v].full  BY <2>3, <3>1 DEF TempInv
    <3>. QED  BY <3>1, <3>2, <3>3
  <2>4. CASE CopyEnds(r) /\ temp[v] # None /\ temp[v].by = r
    <3>1. temp[v] \in TempDir  BY <2>4
    <3>2. temp'[v] = [temp[v] EXCEPT !.full = TRUE]  BY <2>4 DEF CopyEnds
    <3>3. temp'[v].full = TRUE /\ temp'[v].by = temp[v].by  BY <3>1, <3>2 DEF TempDir
    <3>. QED  BY <2>4, <3>3
  <2>5. CASE CopyEnds(r) /\ ~(temp[v] # None /\ temp[v].by = r)
    <3>1. temp'[v] = temp[v] /\ go[r].pc = "copy"  BY <2>5 DEF CopyEnds, Pc
    <3>2. temp[v] # None => temp[v].by # None  BY <3>1, <1>6 DEF TempInv
    <3>. QED  BY <2>5, <3>1, <3>2
  <2>. QED  BY <2>1, <2>2, <2>3, <2>4, <2>5
<1>. HIDE DEF v
<1>15. TempInv'
  <2>1. ASSUME NEW u \in Releases, NEW q \in Requests, temp'[u] # None, temp'[u].by = None, Unpacking(q, u)'
        PROVE  go'[q].pc = "zip"
    <3>1. u # v  BY <2>1, <1>14
    <3>2. q # r  BY <2>1, <3>1, <1>12
    <3>. QED  BY <2>1, <3>1, <3>2, <1>11, <1>13 DEF TempInv
  <2>2. ASSUME NEW u \in Releases, NEW q \in Requests, temp'[u] # None, temp'[u].by = q, ~temp'[u].full
        PROVE  Unpacking(q, u)' /\ go'[q].pc = "copy"
    <3>1. CASE u = v /\ q = r
      BY <2>2, <3>1, <1>7, <1>14 DEF Unpacking, UnpackPc
    <3>2. CASE u = v /\ q # r
      BY <2>2, <3>2, <1>11, <1>14 DEF TempInv
    <3>3. CASE u # v
      <4>1. Unpacking(q, u) /\ go[q].pc = "copy"  BY <2>2, <3>3, <1>13 DEF TempInv
      <4>2. q # r  BY <3>3, <4>1 DEF Unpacking, v
      <4>. QED  BY <4>1, <4>2, <1>11
    <3>. QED  BY <3>1, <3>2, <3>3
  <2>3. ASSUME NEW u \in Releases \ clash', NEW p \in Requests, NEW q \in Requests, Unpacking(p, u)', Unpacking(q, u)'
        PROVE  p = q
    <3>1. u \notin clash  BY <2>3, <1>3
    <3>2. Unpacking(p, u) /\ Unpacking(q, u)  BY <2>3, <1>6, <1>11, <1>12
    <3>. QED  BY <2>3, <3>1, <3>2 DEF TempInv
  <2>. QED  BY <2>1, <2>2, <2>3 DEF TempInv
<1>. QED  BY <1>3, <1>4, <1>5, <1>9, <1>10, <1>15, JarCalm, DistCalm, RunCalm

LEMMA RenameStep ==
    ASSUME SoftTypes, SoftInv, NEW r \in Requests, DropEdit(r), RenameTemp(r)
    PROVE  SoftInv'
<1>. DEFINE v == go[r].ver
<1>1. Moves(r)  BY Fetched DEF SoftTypes, Fetching
<1>2. go[r] # None /\ go[r].pc \in {"copied", "nested"} /\ v \in Releases
  BY DEF RenameTemp, Pc, SoftTypes, RowTypes, Start
<1>3. UNCHANGED <<jar, clash>>  BY DEF RenameTemp
<1>4. Torn' = Torn  BY <1>3 DEF Torn
<1>5. Grows /\ Alone(r)  BY <1>1, <1>3 DEF SoftTypes, CacheTypes, Grows, Moves, Alone
<1>6. Unpacking(r, v)  BY <1>2 DEF Unpacking, UnpackPc
<1>7. go'[r] = None
  BY <1>2, EndsMoves DEF SoftTypes, RenameTemp, LaunchDist, Launch
<1>8. Lanes'  BY <1>1, <1>7, LaneKept DEF SoftTypes, SoftInv
<1>9. /\ Left(r, "save") /\ Left(r, "copy") /\ Out(r, WritingPc) /\ Out(r, UnpackPc)
  BY <1>2, <1>7 DEF Left, Out
<1>10. CASE temp[v] = None \/ dist[v] # None
  <2>1. UNCHANGED <<dist, temp, link, run>>  BY <1>10 DEF RenameTemp
  <2>. QED  BY <1>3, <1>4, <1>5, <1>8, <1>9, <2>1, JarCalm, TempCalm, DistCalm, RunCalm DEF SoftInv
<1>11. CASE temp[v] # None /\ dist[v] = None
  <2>1. /\ dist' = [dist EXCEPT ![v] = IF temp[v].full THEN "whole" ELSE "part"]
        /\ temp' = [temp EXCEPT ![v] = None]
        /\ LaunchDist(r, temp[v].full)
    BY <1>11 DEF RenameTemp
  <2>2. temp[v] \in TempDir  BY <1>2, <1>11 DEF SoftTypes, CacheTypes
  <2>3. temp[v].full \in BOOLEAN /\ temp[v].by \in Requests \cup {None}  BY <2>2 DEF TempDir
  <2>4. temp[v].full \/ v \in clash
    <3>. SUFFICES ASSUME ~temp[v].full PROVE v \in clash  OBVIOUS
    <3>1. temp[v].by # None  BY <1>2, <1>6, <1>11 DEF SoftInv, TempInv
    <3>2. temp[v].by \in Requests  BY <2>3, <3>1
    <3>3. Unpacking(temp[v].by, v) /\ go[temp[v].by].pc = "copy"  BY <1>2, <1>11, <3>2 DEF SoftInv, TempInv
    <3>4. temp[v].by # r  BY <1>2, <3>3
    <3>. QED  BY <1>2, <1>6, <3>2, <3>3, <3>4 DEF SoftInv, TempInv
  <2>5. /\ LaunchedWhole'
        /\ \A s \in Servers : link'[s] = link[s] \/ link'[s] = v
    <3>1. CASE temp[v].full = TRUE
      <4>1. LaunchDist(r, TRUE)  BY <2>1, <3>1
      <4>. QED  BY <1>2, <1>3, <1>5, <4>1, DistLaunch
    <3>2. CASE temp[v].full = FALSE
      <4>1. LaunchDist(r, FALSE) /\ v \in clash'  BY <1>3, <2>1, <2>4, <3>2
      <4>. QED  BY <1>2, <1>3, <1>5, <4>1, DistLaunch
    <3>. QED  BY <2>3, <3>1, <3>2
  <2>6. \A u \in Releases : IF u = v THEN temp'[u] = None /\ dist'[u] # None /\ (dist'[u] = "part" => v \in clash)
                            ELSE temp'[u] = temp[u] /\ dist'[u] = dist[u]
    BY <1>2, <2>1, <2>4 DEF SoftTypes, CacheTypes
  <2>7. DistInv'
    <3>1. \A s \in Servers : link[s] # None => link[s] \in Releases  BY DEF SoftTypes, CacheTypes
    <3>. QED  BY <1>2, <1>3, <2>5, <2>6, <3>1 DEF SoftInv, DistInv
  <2>8. TempInv'
    <3>1. \A q \in Requests : \A u : Unpacking(q, u)' => q # r /\ Unpacking(q, u) /\ go'[q] = go[q]
      BY <1>5, <1>7 DEF Alone, Unpacking
    <3>2. ASSUME NEW u \in Releases, NEW q \in Requests, temp'[u] # None, temp'[u].by = q, ~temp'[u].full
          PROVE  Unpacking(q, u)' /\ go'[q].pc = "copy"
      <4>1. Unpacking(q, u) /\ go[q].pc = "copy"  BY <2>6, <3>2 DEF SoftInv, TempInv
      <4>2. go'[q] = go[q]  BY <4>1, <1>2, <1>5 DEF Alone
      <4>. QED  BY <4>1, <4>2 DEF Unpacking
    <3>3. (\A u \in Releases, q \in Requests :
              temp[u] # None /\ temp[u].by = None /\ Unpacking(q, u) => go[q].pc = "zip")'
      BY <2>6, <3>1 DEF SoftInv, TempInv
    <3>4. (\A u \in Releases \ clash : \A p, q \in Requests : Unpacking(p, u) /\ Unpacking(q, u) => p = q)'
      BY <1>3, <3>1 DEF SoftInv, TempInv
    <3>. QED  BY <3>2, <3>3, <3>4 DEF TempInv
  <2>. QED  BY <1>3, <1>5, <1>8, <1>9, <2>5, <2>7, <2>8, JarCalm DEF SoftInv
<1>. QED  BY <1>10, <1>11

LEMMA SoftwareStepInv ==
    ASSUME SoftTypes, SoftInv, SoftwareNext
    PROVE  SoftInv'
<1>1. ASSUME NEW r \in Requests, NEW s \in Servers, StartServer(r, s) PROVE SoftInv'
  <2>1. /\ Sent(s) \in Start /\ go'[r] = Sent(s)
        /\ go' \in [Requests -> Start \cup {None}] /\ \A q \in Requests \ {r} : go'[q] = go[q]
    BY <1>1, SentTypes DEF SoftTypes
  <2>2. go[r] = None /\ UNCHANGED <<jar, dist, temp, link, run, clash>>  BY <1>1 DEF StartServer, caches
  <2>3. Alone(r) /\ Grows  BY <2>1, <2>2 DEF Alone, Grows, SoftTypes, CacheTypes
  <2>4. Sent(s).srv = s /\ Sent(s).pc = IF s \in JavaServers THEN "jdk" ELSE "dist"  BY DEF Sent
  <2>5. Left(r, "save") /\ Left(r, "copy") /\ Out(r, WritingPc) /\ Out(r, UnpackPc)
    BY <2>1, <2>2, <2>4 DEF Left, Out, WritingPc, UnpackPc
  <2>6. \A q \in Requests \ {r} : edit'[q] = edit[q]  BY <1>1 DEF StartServer, StartProps, SoftTypes, FileTypes
  <2>7. Lanes'  BY <2>1, <2>4, <2>6 DEF SoftInv, Lanes, JavaPc, EarlyPc
  <2>8. Torn' = Torn  BY <2>2 DEF Torn
  <2>. QED  BY <2>2, <2>3, <2>5, <2>7, <2>8, JarCalm, TempCalm, DistCalm, RunCalm DEF SoftInv
<1>2. ASSUME NEW r \in Requests, Fetching(r), DropEdit(r) PROVE SoftInv'
  BY <1>2, EarlySteps, JarPresentStep, JarAbsentStep, JarWriteStep, DistPresentStep, DistAbsentStep, UnpackStep,
     RenameStep DEF Fetching
<1>3. ASSUME UNCHANGED <<jar, dist, temp, link, clash, go, edit>>,
             \A s \in Servers : run'[s] = run[s] \/ run'[s] = None
      PROVE  SoftInv'
  <2>1. Torn' = Torn /\ Grows  BY <1>3 DEF Torn, Grows, SoftTypes, CacheTypes
  <2>2. Lanes'  BY <1>3 DEF SoftInv, Lanes
  <2>3. JarInv'  BY <1>3, <2>1 DEF SoftInv, JarInv, Writing
  <2>4. TempInv'  BY <1>3 DEF SoftInv, TempInv, Unpacking
  <2>. QED  BY <1>3, <2>1, <2>2, <2>3, <2>4, DistCalm, RunCalm DEF SoftInv
<1>4. ASSUME NEW s \in Servers, NEW f, NEW v, StopServer(s) \/ SwitchSoftware(s, f, v), UNCHANGED setvars
      PROVE  SoftInv'
  <2>1. UNCHANGED <<jar, dist, temp, link, clash, go, edit>>  BY <1>4 DEF StopServer, SwitchSoftware, caches, setvars
  <2>2. \A u \in Servers : run'[u] = run[u] \/ run'[u] = None
    BY <1>4 DEF StopServer, SwitchSoftware, SoftTypes, RowTypes
  <2>. QED  BY <2>1, <2>2, <1>3
<1>5. ASSUME SettingsNext, UNCHANGED <<caches, link, clash>> PROVE SoftInv'
  <2>1. UNCHANGED <<jar, dist, temp, link, clash>>  BY <1>5 DEF caches
  <2>2. UNCHANGED run
    <3>1. ASSUME NEW r, Look(r) \/ SetRead(r) \/ SetWrite(r) \/ SetReplace(r) \/ SetFails(r) PROVE UNCHANGED run
      BY <3>1 DEF Look, SetRead, SetWrite, SetReplace, SetFails
    <3>2. ASSUME NEW r, NEW s, NEW k, NEW v, \/ PutProperties(r, s, k, v) \/ PatchConfig(r, s, k, v)
                                             \/ SaveFile(s, k, v) \/ MovePort(s, v)
          PROVE  UNCHANGED run
      BY <3>2 DEF PutProperties, PatchConfig, SaveFile, MovePort
    <3>3. ASSUME NEW s, OpenFile(s) PROVE UNCHANGED run  BY <3>3 DEF OpenFile
    <3>. QED  BY <1>5, <3>1, <3>2, <3>3 DEF SettingsNext
  <2>3. ASSUME UNCHANGED go, \A q \in Requests : go[q] # None /\ edit'[q] # None => edit[q] # None
        PROVE  SoftInv'
    <3>1. Torn' = Torn /\ Grows  BY <2>1 DEF Torn, Grows, SoftTypes, CacheTypes
    <3>2. Lanes'  BY <2>3 DEF SoftInv, Lanes
    <3>3. JarInv'  BY <2>1, <2>3, <3>1 DEF SoftInv, JarInv, Writing
    <3>4. TempInv'  BY <2>1, <2>3 DEF SoftInv, TempInv, Unpacking
    <3>. QED  BY <2>1, <2>2, <3>1, <3>2, <3>3, <3>4, DistCalm, RunCalm DEF SoftInv
  <2>4. ASSUME NEW r \in Requests, Look(r) \/ SetRead(r) \/ SetWrite(r) \/ SetReplace(r) PROVE SoftInv'
    <3>1. UNCHANGED go  BY <2>4 DEF Look, SetRead, SetWrite, SetReplace, Finish
    <3>2. edit[r] # None  BY <2>4 DEF Look, SetRead, SetWrite, SetReplace, Editing
    <3>3. \A q \in Requests \ {r} : edit'[q] = edit[q]
      BY ZenonT(60), <2>4 DEF Look, SetRead, SetWrite, SetReplace, Finish, SoftTypes, FileTypes
    <3>. QED  BY <3>1, <3>2, <3>3, <2>3
  <2>5. ASSUME NEW r \in Requests, NEW s \in Tuned, NEW k \in Keys, NEW v \in Values,
               PutProperties(r, s, k, v) \/ PatchConfig(r, s, k, v)
        PROVE  SoftInv'
    <3>1. UNCHANGED go /\ go[r] = None  BY <2>5 DEF PutProperties, PatchConfig
    <3>2. \A q \in Requests \ {r} : edit'[q] = edit[q]
      BY <2>5 DEF PutProperties, PatchConfig, SoftTypes, FileTypes
    <3>. QED  BY <3>1, <3>2, <2>3
  <2>6. ASSUME NEW s, NEW k, NEW v, OpenFile(s) \/ SaveFile(s, k, v) \/ MovePort(s, v) PROVE SoftInv'
    <3>1. UNCHANGED <<go, edit>>  BY <2>6 DEF OpenFile, SaveFile, MovePort
    <3>. QED  BY <3>1, <2>3
  <2>7. ASSUME NEW r \in Requests, SetFails(r) PROVE SoftInv'
    <3>1. edit[r] # None  BY <2>7 DEF SetFails, Editing
    <3>2. go[r] # None => go[r].pc \in EarlyPc  BY <3>1 DEF SoftInv, Lanes
    <3>3. Alone(r) /\ go'[r] = None  BY <2>7 DEF SetFails, Alone, SoftTypes, RowTypes
    <3>4. Left(r, "save") /\ Left(r, "copy") /\ Out(r, WritingPc) /\ Out(r, UnpackPc)
      BY <3>2, <3>3 DEF Left, Out, EarlyPc
    <3>5. Torn' = Torn /\ Grows  BY <2>1 DEF Torn, Grows, SoftTypes, CacheTypes
    <3>6. \A q \in Requests \ {r} : edit'[q] = edit[q]  BY <2>7 DEF SetFails, SoftTypes, FileTypes
    <3>7. Lanes'  BY <3>3, <3>6 DEF SoftInv, Lanes, Alone
    <3>. QED  BY <2>1, <2>2, <3>3, <3>4, <3>5, <3>7, JarCalm, TempCalm, DistCalm, RunCalm DEF SoftInv
  <2>. QED  BY <1>5, <2>4, <2>5, <2>6, <2>7 DEF SettingsNext
<1>. QED  BY <1>1, <1>2, <1>4, <1>5 DEF SoftwareNext

LEMMA SoftLostInv ==
    ASSUME SoftTypes, SoftInv, StartsLost
    PROVE  SoftInv'
<1>1. \A r \in Requests : go'[r] = None  BY DEF StartsLost
<1>2. UNCHANGED <<dist, link, run, clash>>  BY DEF StartsLost
<1>3. Lanes'  BY <1>1 DEF Lanes
<1>4. \A v \in Releases : jar'[v] # None => jar[v] # None /\ jar'[v].state \notin Requests
                          /\ (jar[v].state = "part" => jar'[v] = jar[v])
  <2>1. ASSUME NEW v \in Releases, jar[v] # None, jar[v].state \in Requests PROVE jar'[v].state = "part"
    <3>1. jar[v] \in CachedJar  BY <2>1 DEF SoftTypes, CacheTypes
    <3>2. jar'[v] = [jar[v] EXCEPT !.state = "part"]  BY <2>1 DEF StartsLost
    <3>. QED  BY <3>1, <3>2 DEF CachedJar
  <2>. QED  BY <2>1 DEF StartsLost
<1>5. \A v \in Torn : v \in Torn'  BY DEF Torn, StartsLost
<1>6. JarInv'  BY <1>1, <1>4 DEF JarInv, Writing
<1>7. \A v \in Releases : temp'[v] # None => temp'[v].by = None
  <2>1. ASSUME NEW v \in Releases, temp[v] # None PROVE temp'[v].by = None
    <3>1. temp[v] \in TempDir  BY <2>1 DEF SoftTypes, CacheTypes
    <3>. QED  BY <2>1, <3>1 DEF StartsLost, TempDir
  <2>. QED  BY <2>1 DEF StartsLost
<1>8. TempInv'  BY <1>1, <1>7 DEF TempInv, Unpacking
<1>9. Grows  BY <1>2 DEF Grows, SoftTypes, CacheTypes
<1>. QED  BY <1>2, <1>3, <1>5, <1>6, <1>8, <1>9, DistCalm, RunCalm DEF SoftInv

LEMMA SoftAlways == Spec => []SoftInv
<1>1. StoreInit => SoftInv
  BY DEF StoreInit, SoftwareInit, SettingsInit, SoftInv, Lanes, JarInv, TempInv, DistInv, LaunchedWhole, Torn, Writing, Unpacking
<1>2. StoreTypes /\ SoftInv /\ [StoreNext]_vars => SoftInv'
  <2>. SUFFICES ASSUME StoreTypes, SoftInv, [StoreNext]_vars PROVE SoftInv'  OBVIOUS
  <2>1. CASE UNCHANGED svars
    <3>1. UNCHANGED <<jar, dist, temp, link, clash, go, edit, run>>  BY <2>1 DEF svars, setvars
    <3>. QED  BY <3>1 DEF SoftInv, Lanes, JarInv, TempInv, DistInv, LaunchedWhole, Torn, Writing, Unpacking
  <2>2. CASE SoftwareNext  BY <2>2, SoftwareStepInv DEF StoreTypes
  <2>3. CASE Restart  BY <2>3, SoftLostInv DEF StoreTypes, Restart
  <2>. QED  BY <2>1, <2>2, <2>3 DEF StoreNext, vars
<1>. QED  BY <1>1, <1>2, StoreTypesAlways, PTL DEF Spec

\* A server is launched from a complete program, for any number of concurrent starts:
\* the exceptions are versions fetched twice at once and Java versions a restart tore.
THEOREM ProgramsWhole == Spec => []LaunchedWhole
<1>1. SoftInv => LaunchedWhole  BY DEF SoftInv
<1>. QED  BY <1>1, SoftAlways, PTL

-----------------------------------------------------------------------------
(* The settings file.                                                        *)

\* What a rename of server.tmp does when nobody was in its way.
LEMMA Replaced ==
    ASSUME SoftTypes, NEW r \in Requests, SetReplace(r), edit[r].srv \notin mixed'
    PROVE  /\ props[edit[r].srv] \in File /\ props'[edit[r].srv] \in File /\ mixed' = mixed
           /\ \A k \in Keys \cup {"port"} :
                 props'[edit[r].srv][k] = IF k = edit[r].key[1] THEN edit[r].key[2] ELSE props[edit[r].srv][k]
           /\ ~Starting(edit[r].srv, Requests \ {r}) /\ ~Asking(edit[r].srv, edit[r].ask[1], Requests \ {r})
<1>. DEFINE e == edit[r]  s == e.srv
<1>1. e \in Edit  BY DEF SetReplace, Editing, SoftTypes, FileTypes
<1>2. s \in Tuned /\ e.seen \in File /\ e.key \in (Keys \cup {"port"}) \X (Value \cup Ports)  BY <1>1 DEF Edit
<1>3. /\ props[s] = e.seen /\ part[s] = New(e) /\ mixed' = mixed
      /\ ~Starting(s, Requests \ {r}) /\ ~Asking(s, e.ask[1], Requests \ {r})
  BY DEF SetReplace, Mix
<1>4. props' = [props EXCEPT ![s] = New(e)]  BY <1>3 DEF SetReplace
<1>5. props'[s] = New(e)  BY <1>2, <1>4 DEF SoftTypes, FileTypes
<1>6. New(e) \in File /\ \A k \in Keys \cup {"port"} : New(e)[k] = IF k = e.key[1] THEN e.key[2] ELSE e.seen[k]
  BY <1>2 DEF New, File
<1>. QED  BY <1>2, <1>3, <1>5, <1>6

\* The same of the editor's save.
LEMMA Saved ==
    ASSUME SoftTypes, NEW s \in Tuned, NEW k \in Keys \cup {"port"}, NEW v \in Value \cup Ports,
           SaveFile(s, k, v), s \notin mixed'
    PROVE  /\ props[s] \in File /\ props'[s] \in File /\ mixed' = mixed
           /\ \A o \in Keys \cup {"port"} : props'[s][o] = IF o = k THEN v ELSE props[s][o]
           /\ ~Starting(s, Requests) /\ ~Asking(s, k, Requests)
<1>1. draft[s] \in File  BY DEF SaveFile, SoftTypes, FileTypes
<1>2. draft[s] = props[s] /\ mixed' = mixed /\ ~Starting(s, Requests) /\ ~Asking(s, k, Requests)
  BY DEF SaveFile, Mix
<1>3. props'[s] = Edited(s, k, v)  BY DEF SaveFile, SoftTypes, FileTypes
<1>4. Edited(s, k, v) \in File /\ \A o \in Keys \cup {"port"} : Edited(s, k, v)[o] = IF o = k THEN v ELSE draft[s][o]
  BY <1>1 DEF Edited, File
<1>. QED  BY <1>1, <1>2, <1>3, <1>4

LEMMA StartEdit ==
    ASSUME SoftTypes, NEW r \in Requests, NEW s \in Servers, StartServer(r, s)
    PROVE  /\ \A q \in Requests \ {r} : edit'[q] = edit[q] /\ go'[q] = go[q]
           /\ edit[r] = None /\ go'[r] # None /\ go'[r].srv = s
           /\ s \in Tuned => edit'[r] # None /\ edit'[r].kind = "start"
           /\ s \notin Tuned => edit'[r] = None
<1>1. /\ Sent(s) \in Start /\ go'[r] = Sent(s) /\ \A q \in Requests \ {r} : go'[q] = go[q]
  BY SentTypes DEF SoftTypes
<1>2. go'[r] # None /\ go'[r].srv = s  BY <1>1 DEF Sent
<1>3. edit[r] = None /\ StartProps(r, s)  BY DEF StartServer
<1>4. \A q \in Requests \ {r} : edit'[q] = edit[q]  BY <1>3 DEF StartProps, SoftTypes, FileTypes
<1>5. s \notin Tuned => edit'[r] = None  BY <1>3 DEF StartProps
<1>6. ASSUME s \in Tuned PROVE edit'[r] # None /\ edit'[r].kind = "start"
  <2>. DEFINE e == Begun(s, "start", "look", <<"port", port[s]>>, {}, FromConfig(s))
  <2>1. edit'[r] = e  BY <1>3, <1>6 DEF StartProps, SoftTypes, FileTypes
  <2>2. FromConfig(s) \in File /\ port[s] \in Ports  BY <1>6, FromConfigType DEF SoftTypes, FileTypes
  <2>3. Empty \in File  BY DEF Empty, File, Value
  <2>4. e \in Edit  BY <1>6, <2>2, <2>3 DEF Begun, Edit
  <2>5. e.kind = "start"  BY DEF Begun
  <2>. HIDE DEF e
  <2>. QED  BY <2>1, <2>4, <2>5
<1>. QED  BY <1>1, <1>2, <1>3, <1>4, <1>5, <1>6

LEMMA DropEditFacts ==
    ASSUME FileTypes, NEW r \in Requests, DropEdit(r)
    PROVE  /\ \A q \in Requests \ {r} : edit'[q] = edit[q]
           /\ edit'[r] = IF go'[r] = None THEN None ELSE edit[r]
           /\ UNCHANGED <<conf, port, props, part, draft, mine, mixed>>
BY DEF DropEdit, FileTypes

\* The processes a step of a start launches.
LEMMA LaunchedBy ==
    ASSUME SoftTypes, SoftInv, NEW r \in Requests, Fetching(r), NEW s \in Servers, run'[s] # run[s]
    PROVE  s = go[r].srv /\ run'[s].there = Listens(r) /\ edit[r] = None /\ go[r] # None
<1>1. \/ JarPresent(r) \/ JarSave(r) \/ DistPresent(r) \/ RenameTemp(r)
  BY DEF Fetching, JdkPresent, JdkOpen, JdkUnpack, JdkFails, JarAbsent, JarOpen, JarFails, DistAbsent, ZipFails,
         ClearTemp, MoveBegins, CopyEnds
<1>2. go[r] # None  BY <1>1 DEF JarPresent, JarSave, DistPresent, RenameTemp, Pc
<1>3. edit[r] = None
  BY <1>1, <1>2 DEF JarPresent, JarSave, DistPresent, RenameTemp, Pc, SoftInv, Lanes, EarlyPc
<1>4. \E f, v, w : Launch(r, f, v, w)
  <2>1. ASSUME NEW c, LaunchJar(r, c) PROVE \E f, v, w : Launch(r, f, v, w)
    BY <2>1 DEF LaunchJar
  <2>2. ASSUME NEW c, LaunchDist(r, c) PROVE \E f, v, w : Launch(r, f, v, w)
    BY <2>2 DEF LaunchDist
  <2>3. (\E c : LaunchJar(r, c)) \/ (\E c : LaunchDist(r, c)) \/ UNCHANGED run
    BY <1>1 DEF JarPresent, JarSave, DistPresent, RenameTemp
  <2>. QED  BY <2>1, <2>2, <2>3
<1>5. PICK f, v, w : run' = [run EXCEPT ![go[r].srv] = [flavor |-> f, ver |-> v, whole |-> w, there |-> Listens(r)]]
  BY <1>4 DEF Launch
<1>6. s = go[r].srv /\ run'[s] = [flavor |-> f, ver |-> v, whole |-> w, there |-> Listens(r)]
  BY <1>5 DEF SoftTypes, RowTypes
<1>. QED  BY <1>2, <1>3, <1>6

PortAt(r) == go[r] # None /\ go[r].srv \in Tuned \ mixed /\ edit[r] = None =>
                props[go[r].srv] # None /\ props[go[r].srv]["port"] = go[r].port

LEMMA PortCalm ==
    ASSUME NEW r \in Requests, PortAt(r), go'[r] = go[r], edit'[r] = edit[r], mixed \subseteq mixed',
           go[r] # None /\ go[r].srv \in Tuned \ mixed' /\ props[go[r].srv] # None =>
                props'[go[r].srv] = props[go[r].srv]
    PROVE  PortAt(r)'
BY DEF PortAt

LEMMA SettingsPorts ==
    ASSUME SoftTypes, \A q \in Requests : PortAt(q), SettingsNext
    PROVE  (\A q \in Requests : PortAt(q)') /\ mixed \subseteq mixed' /\ UNCHANGED run
<1>. DEFINE Goal == (\A q \in Requests : PortAt(q)') /\ mixed \subseteq mixed' /\ UNCHANGED run
<1>. USE DEF SoftTypes
<1>e. ASSUME NEW r \in Requests, edit[r] # None
      PROVE  /\ edit[r] \in Edit /\ edit[r].srv \in Tuned /\ edit[r].kind \in {"start", "patch", "put"}
             /\ EditShape(r)
  BY <1>e DEF FileTypes, Edit, EditsOK
<1>1. ASSUME NEW r \in Requests, Look(r) PROVE Goal
  <2>. DEFINE e == edit[r]  s == e.srv
  <2>1. e \in Edit /\ s \in Tuned /\ EditShape(r) /\ e # None  BY <1>1, <1>e DEF Look, Editing
  <2>2. UNCHANGED <<go, run>> /\ mixed \subseteq mixed' /\ \A q \in Requests \ {r} : edit'[q] = edit[q]
    BY <1>1 DEF Look, Mix, FileTypes
  <2>3. e.pc = "look"  BY <1>1 DEF Look, Editing
  <2>4. e.kind = "start" /\ go[r] # None /\ go[r].srv = s /\ go[r].port = e.full["port"]
    BY <2>1, <2>3 DEF EditShape
  <2>5. CASE props[s] = None
    <3>1. props' = [props EXCEPT ![s] = e.full]  BY <1>1, <2>5 DEF Look
    <3>2. \A u \in Tuned : props'[u] = IF u = s THEN e.full ELSE props[u]  BY <3>1 DEF FileTypes
    <3>3. e.full # None  BY <2>1 DEF Edit
    <3>4. PortAt(r)'  BY <2>1, <2>2, <2>4, <3>2, <3>3 DEF PortAt
    <3>5. ASSUME NEW q \in Requests \ {r} PROVE PortAt(q)'
      <4>1. go'[q] = go[q] /\ edit'[q] = edit[q]  BY <2>2
      <4>2. go[q] # None /\ go[q].srv \in Tuned \ mixed' /\ props[go[q].srv] # None =>
               props'[go[q].srv] = props[go[q].srv]
        BY <2>5, <3>2
      <4>. QED  BY <4>1, <4>2, <2>2, PortCalm
    <3>. QED  BY <2>2, <3>4, <3>5
  <2>6. CASE props[s] # None
    <3>1. UNCHANGED props  BY <1>1, <2>6 DEF Look
    <3>2. edit'[r] # None
      <4>1. StartKeys(e) # {}  BY DEF StartKeys
      <4>2. edit'[r] = [e EXCEPT !.pc = "read", !.todo = StartKeys(e)]  BY <1>1, <2>6, <4>1 DEF Look, FileTypes
      <4>4. e.full["port"] \in Value \cup Ports  BY <2>1 DEF Edit, File
      <4>5. StartKeys(e) \subseteq (Keys \cup {"port"}) \X (Value \cup Ports)  BY <4>4 DEF StartKeys
      <4>6. [e EXCEPT !.pc = "read", !.todo = StartKeys(e)] \in Edit  BY <2>1, <4>5 DEF Edit
      <4>. QED  BY <4>2, <4>6
    <3>3. PortAt(r)'  BY <3>2 DEF PortAt
    <3>4. ASSUME NEW q \in Requests \ {r} PROVE PortAt(q)'
      <4>1. go'[q] = go[q] /\ edit'[q] = edit[q]  BY <2>2
      <4>. QED  BY <4>1, <3>1, <2>2, PortCalm
    <3>. QED  BY <2>2, <3>3, <3>4
  <2>. QED  BY <2>5, <2>6
<1>2. ASSUME NEW r \in Requests, NEW s \in Tuned, NEW k \in Keys, NEW v \in Values,
             PutProperties(r, s, k, v) \/ PatchConfig(r, s, k, v)
      PROVE  Goal
  <2>1. UNCHANGED <<go, run, props, mixed>> /\ go[r] = None  BY <1>2 DEF PutProperties, PatchConfig
  <2>2. \A q \in Requests \ {r} : edit'[q] = edit[q]  BY <1>2 DEF PutProperties, PatchConfig, FileTypes
  <2>. QED  BY <2>1, <2>2 DEF PortAt
<1>3. ASSUME NEW r \in Requests, SetRead(r) \/ SetWrite(r) PROVE Goal
  <2>1. UNCHANGED <<go, run, mixed>> /\ edit[r] # None  BY <1>3 DEF SetRead, SetWrite, Editing
  <2>2. \A q \in Requests \ {r} : edit'[q] = edit[q]  BY <1>3 DEF SetRead, SetWrite, FileTypes
  <2>3. \A u \in Tuned : props[u] # None => props'[u] = props[u]
    <3>1. CASE SetWrite(r)  BY <3>1 DEF SetWrite
    <3>2. CASE SetRead(r)  BY <3>2 DEF SetRead, FileTypes
    <3>. QED  BY <1>3, <3>1, <3>2
  <2>4. ASSUME NEW q \in Requests \ {r} PROVE PortAt(q)'
    BY <2>1, <2>2, <2>3, PortCalm
  <2>5. PortAt(r)'
    <3>1. CASE edit'[r] # None  BY <3>1 DEF PortAt
    <3>2. edit[r] \in Edit  BY <2>1, <1>e
    <3>3. CASE SetWrite(r)
      <4>1. edit'[r] = [edit[r] EXCEPT !.pc = "replace"]  BY <3>3 DEF SetWrite, FileTypes
      <4>2. edit'[r] \in Edit  BY <3>2, <4>1 DEF Edit
      <4>. QED  BY <4>2, <3>1
    <3>4. CASE SetRead(r)
      <4>. DEFINE c == IF props[edit[r].srv] = None THEN Empty ELSE props[edit[r].srv]
      <4>1. PICK k \in edit[r].todo : edit'[r] = [edit[r] EXCEPT !.pc = "write", !.seen = c, !.key = k]
        BY <3>4 DEF SetRead, FileTypes
      <4>2. Empty \in File  BY DEF Empty, File, Value
      <4>3. edit[r].srv \in Tuned /\ edit[r].todo \subseteq (Keys \cup {"port"}) \X (Value \cup Ports)
        BY <3>2 DEF Edit
      <4>4. c \in File  BY <4>2, <4>3 DEF FileTypes
      <4>. HIDE DEF c
      <4>5. [edit[r] EXCEPT !.pc = "write", !.seen = c, !.key = k] \in Edit  BY <3>2, <4>1, <4>3, <4>4 DEF Edit
      <4>. QED  BY <4>1, <4>5, <3>1
    <3>. QED  BY <1>3, <3>3, <3>4
  <2>. QED  BY <2>1, <2>4, <2>5
<1>4. ASSUME NEW r \in Requests, SetReplace(r) PROVE Goal
  <2>. DEFINE e == edit[r]  s == e.srv
  <2>1. e \in Edit /\ s \in Tuned /\ EditShape(r) /\ e # None  BY <1>4, <1>e DEF SetReplace, Editing
  <2>2. UNCHANGED <<go, run>> /\ mixed \subseteq mixed'  BY <1>4 DEF SetReplace, Finish, Mix
  <2>3. \A q \in Requests \ {r} : edit'[q] = edit[q]  BY <1>4 DEF SetReplace, Finish, FileTypes
  <2>4. \A u \in Tuned \ {s} : props'[u] = props[u]  BY <1>4 DEF SetReplace, FileTypes
  <2>5. ASSUME NEW q \in Requests \ {r} PROVE PortAt(q)'
    <3>1. go[q] # None /\ go[q].srv \in Tuned \ mixed' => go[q].srv # s
      BY <1>4, <2>5, Replaced DEF Starting
    <3>. QED  BY <2>2, <2>3, <2>4, <3>1, PortCalm
  <2>6. PortAt(r)'
    <3>. SUFFICES ASSUME go[r] # None, go[r].srv \in Tuned \ mixed'
                  PROVE  props'[go[r].srv] # None /\ props'[go[r].srv]["port"] = go[r].port
      BY <2>2 DEF PortAt
    <3>1. e.kind = "start" /\ go[r].srv = s /\ go[r].port = e.full["port"] /\ e.key = <<"port", e.full["port"]>>
      BY <2>1 DEF EditShape
    <3>2. props'[s] \in File /\ props'[s]["port"] = IF "port" = e.key[1] THEN e.key[2] ELSE props[s]["port"]
      BY ZenonT(60), <1>4, <3>1, Replaced
    <3>. QED  BY <3>1, <3>2
  <2>. QED  BY <2>2, <2>5, <2>6
<1>5. ASSUME NEW r \in Requests, SetFails(r) PROVE Goal
  <2>1. UNCHANGED <<run, props>> /\ mixed \subseteq mixed'  BY <1>5 DEF SetFails, Mix
  <2>2. \A q \in Requests \ {r} : edit'[q] = edit[q] /\ go'[q] = go[q]  BY <1>5 DEF SetFails, FileTypes, RowTypes
  <2>3. go'[r] = None  BY <1>5 DEF SetFails, RowTypes
  <2>. QED  BY <2>1, <2>2, <2>3 DEF PortAt
<1>6. ASSUME NEW s, NEW p, OpenFile(s) \/ MovePort(s, p) PROVE Goal
  <2>1. UNCHANGED <<go, run, props, mixed, edit>>  BY <1>6 DEF OpenFile, MovePort
  <2>. QED  BY <2>1 DEF PortAt
<1>7. ASSUME NEW s \in Tuned, NEW k \in Keys \cup {"port"}, NEW v \in Value \cup Ports, SaveFile(s, k, v) PROVE Goal
  <2>1. UNCHANGED <<go, run, edit>> /\ mixed \subseteq mixed'  BY <1>7 DEF SaveFile, Mix
  <2>2. \A u \in Tuned \ {s} : props'[u] = props[u]  BY <1>7 DEF SaveFile, FileTypes
  <2>3. ASSUME NEW q \in Requests PROVE PortAt(q)'
    <3>1. go[q] # None /\ go[q].srv \in Tuned \ mixed' => go[q].srv # s
      BY <1>7, <2>3, Saved DEF Starting
    <3>. QED  BY <2>1, <2>2, <3>1, PortCalm
  <2>. QED  BY <2>1, <2>3
<1>. QED
  <2>1. Values \subseteq Value \cup Ports /\ Keys \subseteq Keys \cup {"port"}  BY DEF Value
  <2>. HIDE DEF Goal
  <2>2. Goal  BY <1>1, <1>2, <1>3, <1>4, <1>5, <1>6, <1>7, <2>1 DEF SettingsNext
  <2>. QED  BY <2>2 DEF Goal

LEMMA ListenStep ==
    ASSUME SoftTypes, SoftInv, ListenInv, SoftwareNext
    PROVE  ListenInv'
<1>a. \A q \in Requests : PortAt(q)  BY DEF ListenInv, PortWritten, PortAt
<1>b. ASSUME \A q \in Requests : PortAt(q)', mixed \subseteq mixed',
             \A s \in Tuned : run'[s] = run[s] \/ run'[s] = None \/ run'[s].there \/ s \in mixed'
      PROVE  ListenInv'
  BY <1>b DEF ListenInv, PortWritten, PortAt, ListensWhereTold
<1>1. ASSUME NEW r \in Requests, NEW s \in Servers, StartServer(r, s) PROVE ListenInv'
  <2>1. UNCHANGED <<props, mixed, run>>  BY <1>1 DEF StartServer
  <2>2. /\ \A q \in Requests \ {r} : edit'[q] = edit[q] /\ go'[q] = go[q]
        /\ go'[r].srv = s
        /\ s \in Tuned => edit'[r] # None
    BY <1>1, StartEdit
  <2>3. \A q \in Requests \ {r} : PortAt(q)'  BY <1>a, <2>1, <2>2, PortCalm
  <2>4. PortAt(r)'  BY <2>2 DEF PortAt
  <2>. QED  BY <1>b, <2>1, <2>3, <2>4
<1>2. ASSUME NEW r \in Requests, Fetching(r), DropEdit(r) PROVE ListenInv'
  <2>1. Moves(r)  BY <1>2, Fetched DEF SoftTypes
  <2>2. /\ \A q \in Requests \ {r} : edit'[q] = edit[q]
        /\ edit'[r] = IF go'[r] = None THEN None ELSE edit[r]
        /\ UNCHANGED <<props, mixed>>
    BY <1>2, DropEditFacts DEF SoftTypes
  <2>3. \A q \in Requests \ {r} : PortAt(q)'  BY <1>a, <2>1, <2>2, PortCalm DEF Moves
  <2>4. PortAt(r)'  BY <1>a, <2>1, <2>2 DEF PortAt, Moves, Same
  <2>5. ASSUME NEW s \in Tuned, run'[s] # run[s], s \notin mixed PROVE run'[s].there
    <3>1. s = go[r].srv /\ run'[s].there = Listens(r) /\ edit[r] = None /\ go[r] # None
      BY <1>2, <2>5, LaunchedBy
    <3>2. Listens(r)  BY <1>a, <2>5, <3>1 DEF PortAt, Listens
    <3>. QED  BY <3>1, <3>2
  <2>. QED  BY <1>b, <2>2, <2>3, <2>4, <2>5
<1>3. ASSUME NEW s \in Servers, NEW f, NEW v, StopServer(s) \/ SwitchSoftware(s, f, v), UNCHANGED setvars
      PROVE  ListenInv'
  <2>1. UNCHANGED <<go, edit, props, mixed>>  BY <1>3 DEF StopServer, SwitchSoftware, setvars
  <2>2. \A u \in Servers : run'[u] = run[u] \/ run'[u] = None
    BY <1>3 DEF StopServer, SwitchSoftware, SoftTypes, RowTypes
  <2>3. \A q \in Requests : PortAt(q)'  BY <1>a, <2>1 DEF PortAt
  <2>. QED  BY <1>b, <2>1, <2>2, <2>3
<1>4. ASSUME SettingsNext PROVE ListenInv'
  BY <1>a, <1>b, <1>4, SettingsPorts
<1>. QED  BY <1>1, <1>2, <1>3, <1>4 DEF SoftwareNext

\* A server that runs was started on the port the control plane meant, unless its file
\* was written while it was starting.
THEOREM PortsAsTold == Spec => []ListensWhereTold
<1>1. StoreInit => SoftInv /\ ListenInv
  BY DEF StoreInit, SoftwareInit, SettingsInit, SoftInv, Lanes, JarInv, TempInv, DistInv, LaunchedWhole, Torn, Writing,
         Unpacking, ListenInv, PortWritten, ListensWhereTold
<1>2. StoreTypes /\ SoftInv /\ ListenInv /\ [StoreNext]_vars => ListenInv'
  <2>. SUFFICES ASSUME StoreTypes, SoftInv, ListenInv, [StoreNext]_vars PROVE ListenInv'  OBVIOUS
  <2>1. CASE UNCHANGED svars
    <3>1. UNCHANGED <<go, edit, run, props, mixed>>  BY <2>1 DEF svars, setvars
    <3>. QED  BY <3>1 DEF ListenInv, PortWritten, ListensWhereTold
  <2>2. CASE SoftwareNext  BY <2>2, ListenStep DEF StoreTypes
  <2>3. CASE Restart
    <3>1. UNCHANGED <<run, mixed>> /\ \A r \in Requests : go'[r] = None  BY <2>3 DEF Restart, StartsLost, EditsLost
    <3>. QED  BY <3>1 DEF ListenInv, PortWritten, ListensWhereTold
  <2>. QED  BY <2>1, <2>2, <2>3 DEF StoreNext, vars
<1>3. ListenInv => ListensWhereTold  BY DEF ListenInv
<1>. QED  BY <1>1, <1>2, <1>3, StoreTypesAlways, SoftAlways, PTL DEF Spec

-----------------------------------------------------------------------------
\* One setting of one server.
Promise(s, k) ==
    /\ mine[s][k] # None => props[s] # None /\ props[s][k] = mine[s][k]
    /\ \A r \in Requests : Pending(r, s, k) =>
          /\ mine[s][k] = None
          /\ edit[r].ask \notin edit[r].todo => props[s] # None /\ props[s][k] = edit[r].ask[2]

\* The requests are where they were, or gone.
Quiet(R) == \A q \in R : edit'[q] = edit[q] \/ edit'[q] = None \/ edit'[q].kind = "start"

LEMMA PromiseCalm ==
    ASSUME NEW s, NEW k, Promise(s, k), Quiet(Requests), mine'[s][k] = mine[s][k],
           props[s] # None => props'[s] # None /\ props'[s][k] = props[s][k]
    PROVE  Promise(s, k)'
BY DEF Promise, Quiet, Pending

LEMMA SettingsPromise ==
    ASSUME SoftTypes, SettingsNext, NEW s \in Tuned \ mixed', NEW k \in Keys \ Always(s), Promise(s, k)
    PROVE  Promise(s, k)'
<1>. USE DEF SoftTypes
<1>e. ASSUME NEW r \in Requests, edit[r] # None
      PROVE  /\ edit[r] \in Edit /\ edit[r].srv \in Tuned /\ edit[r].kind \in {"start", "patch", "put"}
             /\ EditShape(r)
  BY <1>e DEF FileTypes, Edit, EditsOK
<1>p. "port" \notin Keys  BY DEF Keys
<1>1. ASSUME NEW r \in Requests, Look(r) PROVE Promise(s, k)'
  <2>. DEFINE e == edit[r]
  <2>1. e \in Edit /\ e.srv \in Tuned /\ EditShape(r) /\ e # None /\ e.pc = "look"  BY <1>1, <1>e DEF Look, Editing
  <2>2. e.kind = "start"  BY <2>1 DEF EditShape
  <2>3. \A q \in Requests \ {r} : edit'[q] = edit[q]  BY <1>1 DEF Look, FileTypes
  <2>4. edit'[r] = None \/ edit'[r] = [e EXCEPT !.pc = "read", !.todo = StartKeys(e)]
    BY <1>1 DEF Look, FileTypes
  <2>5. edit'[r] = None \/ edit'[r].kind = "start"  BY <2>1, <2>2, <2>4 DEF Edit
  <2>6. Quiet(Requests)  BY <2>3, <2>5 DEF Quiet
  <2>7. UNCHANGED mine /\ (props[s] # None => props'[s] = props[s])
    BY <1>1, <2>1 DEF Look, FileTypes
  <2>. QED  BY <2>6, <2>7, PromiseCalm
<1>2. ASSUME NEW r \in Requests, NEW u \in Tuned, NEW o \in Keys, NEW v \in Values,
             PutProperties(r, u, o, v) \/ PatchConfig(r, u, o, v)
      PROVE  Promise(s, k)'
  <2>1. UNCHANGED props /\ edit[r] = None  BY <1>2 DEF PutProperties, PatchConfig
  <2>2. \A q \in Requests \ {r} : edit'[q] = edit[q]  BY <1>2 DEF PutProperties, PatchConfig, FileTypes
  <2>3. CASE UNCHANGED <<edit, mine>>
    <3>1. Quiet(Requests)  BY <2>3 DEF Quiet
    <3>. QED  BY <2>1, <2>3, <3>1, PromiseCalm
  <2>4. CASE \E kind \in {"patch", "put"}, todo \in SUBSET PatchKeys(u, o, v) :
                /\ edit' = [edit EXCEPT ![r] = Begun(u, kind, "read", <<o, v>>, todo, Empty)]
                /\ <<o, v>> \in todo /\ Tell(u, o, None)
    <3>1. PICK kind \in {"patch", "put"} : \E todo \in SUBSET PatchKeys(u, o, v) :
                /\ edit' = [edit EXCEPT ![r] = Begun(u, kind, "read", <<o, v>>, todo, Empty)]
                /\ <<o, v>> \in todo /\ Tell(u, o, None)
      BY <2>4
    <3>2. PICK todo \in SUBSET PatchKeys(u, o, v) :
                /\ edit' = [edit EXCEPT ![r] = Begun(u, kind, "read", <<o, v>>, todo, Empty)]
                /\ <<o, v>> \in todo /\ Tell(u, o, None)
      BY <3>1
    <3>3. edit'[r] = Begun(u, kind, "read", <<o, v>>, todo, Empty)  BY <3>2 DEF FileTypes
    <3>4. edit'[r].srv = u /\ edit'[r].ask = <<o, v>> /\ edit'[r].todo = todo  BY <3>3 DEF Begun
    <3>5. mine'[u][o] = None /\ \A w \in Tuned, x \in Keys : w # u \/ x # o => mine'[w][x] = mine[w][x]
      BY <3>2 DEF Tell, FileTypes
    <3>6. CASE s = u /\ k = o
      <4>1. \A q \in Requests : Pending(q, s, k)' /\ q # r => Pending(q, s, k) /\ edit'[q] = edit[q]
        BY <2>2 DEF Pending
      <4>2. edit'[r].ask \in edit'[r].todo  BY <3>2, <3>4
      <4>. QED  BY <2>1, <3>5, <3>6, <4>1, <4>2 DEF Promise
    <3>7. CASE s # u \/ k # o
      <4>1. mine'[s][k] = mine[s][k]  BY <3>5, <3>7
      <4>2. ~Pending(r, s, k)'  BY <3>4, <3>7 DEF Pending
      <4>3. \A q \in Requests : Pending(q, s, k)' => Pending(q, s, k) /\ edit'[q] = edit[q]
        BY <2>2, <4>2 DEF Pending
      <4>. QED  BY <2>1, <4>1, <4>3 DEF Promise
    <3>. QED  BY <3>6, <3>7
  <2>5. CASE PutProperties(r, u, o, v)
    <3>1. {<<o, v>>} \in SUBSET PatchKeys(u, o, v)  BY DEF PatchKeys
    <3>. QED  BY <2>4, <2>5, <3>1 DEF PutProperties
  <2>6. CASE PatchConfig(r, u, o, v)
    <3>1. <<o, v>> \in PatchKeys(u, o, v)  BY DEF PatchKeys
    <3>. QED  BY <2>3, <2>4, <2>6, <3>1 DEF PatchConfig
  <2>. QED  BY <1>2, <2>5, <2>6
<1>3. ASSUME NEW r \in Requests, SetRead(r) \/ SetWrite(r) PROVE Promise(s, k)'
  <2>1. edit[r] # None /\ UNCHANGED mine  BY <1>3 DEF SetRead, SetWrite, Editing
  <2>2. edit[r] \in Edit  BY <2>1, <1>e
  <2>3. \A q \in Requests \ {r} : edit'[q] = edit[q]  BY <1>3 DEF SetRead, SetWrite, FileTypes
  <2>4. /\ edit'[r].kind = edit[r].kind /\ edit'[r].srv = edit[r].srv
        /\ edit'[r].ask = edit[r].ask /\ edit'[r].todo = edit[r].todo
    <3>1. CASE SetWrite(r)
      <4>1. edit'[r] = [edit[r] EXCEPT !.pc = "replace"]  BY <3>1 DEF SetWrite, FileTypes
      <4>. QED  BY <2>2, <4>1 DEF Edit
    <3>2. CASE SetRead(r)
      <4>. DEFINE c == IF props[edit[r].srv] = None THEN Empty ELSE props[edit[r].srv]
      <4>1. PICK d \in edit[r].todo : edit'[r] = [edit[r] EXCEPT !.pc = "write", !.seen = c, !.key = d]
        BY <3>2 DEF SetRead, FileTypes
      <4>. HIDE DEF c
      <4>. QED  BY <2>2, <4>1 DEF Edit
    <3>. QED  BY <1>3, <3>1, <3>2
  <2>5. \A u \in Tuned : props[u] # None => props'[u] = props[u]
    <3>1. CASE SetWrite(r)  BY <3>1 DEF SetWrite
    <3>2. CASE SetRead(r)  BY <3>2 DEF SetRead, FileTypes
    <3>. QED  BY <1>3, <3>1, <3>2
  <2>6. \A q \in Requests : Pending(q, s, k)' =>
           Pending(q, s, k) /\ edit'[q].ask = edit[q].ask /\ edit'[q].todo = edit[q].todo
    BY <2>1, <2>3, <2>4 DEF Pending
  <2>. QED  BY <2>1, <2>5, <2>6 DEF Promise
<1>4. ASSUME NEW r \in Requests, SetReplace(r) PROVE Promise(s, k)'
  <2>. DEFINE e == edit[r]  left == e.todo \ {e.key}
  <2>1. e \in Edit /\ e.srv \in Tuned /\ e.kind \in {"start", "patch", "put"} /\ EditShape(r) /\ e # None
    BY <1>4, <1>e DEF SetReplace, Editing
  <2>2. \A q \in Requests \ {r} : edit'[q] = edit[q]  BY <1>4 DEF SetReplace, Finish, FileTypes
  <2>3. edit'[r] = IF left = {} THEN None ELSE [e EXCEPT !.pc = "read", !.todo = left]
    BY <1>4 DEF SetReplace, Finish, FileTypes
  <2>4. edit'[r] # None => /\ left # {} /\ edit'[r].kind = e.kind /\ edit'[r].srv = e.srv
                           /\ edit'[r].ask = e.ask /\ edit'[r].todo = left
    BY <2>1, <2>3 DEF Edit
  <2>5. e.kind = "start" \/ left # {} => UNCHANGED mine  BY <1>4 DEF SetReplace, Finish
  <2>6. e.kind # "start" /\ left = {} => Tell(e.srv, e.ask[1], e.ask[2])  BY <1>4 DEF SetReplace, Finish
  <2>7. \A u \in Tuned \ {e.srv} : props'[u] = props[u]  BY <1>4 DEF SetReplace, FileTypes
  <2>8. \A w \in Tuned, x \in Keys : w # e.srv \/ x # e.ask[1] => mine'[w][x] = mine[w][x]
    BY <2>5, <2>6, <2>1 DEF Tell, FileTypes
  <2>9. CASE s # e.srv
    <3>1. \A q \in Requests : Pending(q, s, k)' => Pending(q, s, k) /\ edit'[q] = edit[q]
      BY <2>2, <2>4, <2>9 DEF Pending
    <3>2. props'[s] = props[s] /\ mine'[s][k] = mine[s][k]  BY <2>7, <2>8, <2>9
    <3>. QED  BY <3>1, <3>2 DEF Promise
  <2>10. CASE s = e.srv /\ e.kind = "start"
    <3>1. e.key[1] = "port"  BY <2>1, <2>10 DEF EditShape
    <3>2. Quiet(Requests)  BY <2>2, <2>4, <2>10 DEF Quiet
    <3>4. k # e.key[1]  BY <1>p, <3>1
    <3>3. props'[s] \in File /\ props'[s][k] = props[s][k]  BY <1>4, <2>10, <3>4, Replaced
    <3>. QED  BY <2>5, <2>10, <3>2, <3>3, PromiseCalm
  <2>11. CASE s = e.srv /\ e.kind # "start" /\ k # e.ask[1]
    <3>1. e.key[1] # k  BY <2>1, <2>11 DEF EditShape
    <3>2. props'[s] \in File /\ props'[s][k] = props[s][k]  BY <1>4, <2>11, <3>1, Replaced
    <3>3. \A q \in Requests : Pending(q, s, k)' => Pending(q, s, k) /\ edit'[q] = edit[q]
      BY <2>2, <2>4, <2>11 DEF Pending
    <3>4. mine'[s][k] = mine[s][k]  BY <2>8, <2>11
    <3>. QED  BY <3>2, <3>3, <3>4 DEF Promise
  <2>12. CASE s = e.srv /\ e.kind # "start" /\ k = e.ask[1]
    <3>1. /\ props[s] \in File /\ props'[s] \in File
          /\ props'[s][k] = IF k = e.key[1] THEN e.key[2] ELSE props[s][k]
          /\ ~Asking(s, k, Requests \ {r})
      BY <1>4, <2>12, Replaced
    <3>2. \A q \in Requests \ {r} : ~Pending(q, s, k)'  BY <2>2, <3>1 DEF Asking, Pending
    <3>3. Pending(r, s, k)  BY <2>1, <2>12 DEF Pending
    <3>4. e.key = e.ask \/ (e.key[1] # k /\ e.key # e.ask)  BY <2>1, <2>12 DEF EditShape
    <3>5. e.ask \notin left => props'[s][k] = e.ask[2]
      <4>1. CASE e.key = e.ask  BY <4>1, <3>1, <2>12
      <4>2. CASE e.key[1] # k /\ e.key # e.ask  BY <4>2, <3>1, <3>3 DEF Promise
      <4>. QED  BY <3>4, <4>1, <4>2
    <3>6. CASE left = {}
      <4>1. mine'[s][k] = e.ask[2]  BY <2>6, <2>12, <3>6 DEF Tell, FileTypes
      <4>2. ~Pending(r, s, k)'  BY <2>4, <3>6 DEF Pending
      <4>. QED  BY <3>1, <3>2, <3>5, <3>6, <4>1, <4>2 DEF Promise
    <3>7. CASE left # {}
      <4>1. mine'[s][k] = None  BY <2>5, <3>3, <3>7 DEF Promise
      <4>2. Pending(r, s, k)' => edit'[r].ask = e.ask /\ edit'[r].todo = left  BY <2>4 DEF Pending
      <4>. QED  BY <3>1, <3>2, <3>5, <4>1, <4>2 DEF Promise
    <3>. QED  BY <3>6, <3>7
  <2>. QED  BY <2>9, <2>10, <2>11, <2>12
<1>5. ASSUME NEW r \in Requests, SetFails(r) PROVE Promise(s, k)'
  <2>1. UNCHANGED <<props, mine>> /\ Quiet(Requests)  BY <1>5 DEF SetFails, Quiet, FileTypes
  <2>. QED  BY <2>1, PromiseCalm
<1>6. ASSUME NEW u, NEW p, OpenFile(u) \/ MovePort(u, p) PROVE Promise(s, k)'
  <2>1. UNCHANGED <<props, mine>> /\ Quiet(Requests)  BY <1>6 DEF OpenFile, MovePort, Quiet
  <2>. QED  BY <2>1, PromiseCalm
<1>7. ASSUME NEW u \in Tuned, NEW o \in Keys \cup {"port"}, NEW v \in Value \cup Ports, SaveFile(u, o, v)
      PROVE  Promise(s, k)'
  <2>1. UNCHANGED edit /\ Quiet(Requests)  BY <1>7 DEF SaveFile, Quiet
  <2>2. Tell(u, o, v)  BY <1>7 DEF SaveFile
  <2>3. CASE s = u /\ k = o
    <3>1. props'[s] \in File /\ props'[s][k] = v /\ ~Asking(s, k, Requests)  BY <1>7, <2>3, Saved
    <3>2. \A q \in Requests : ~Pending(q, s, k)'  BY <2>1, <3>1 DEF Asking, Pending
    <3>3. mine'[s][k] = v  BY <2>2, <2>3 DEF Tell, FileTypes
    <3>. QED  BY <3>1, <3>2, <3>3 DEF Promise
  <2>4. CASE s = u /\ k # o
    <3>1. props'[s] \in File /\ props'[s][k] = props[s][k]  BY SMTT(30), <1>7, <2>4, Saved
    <3>2. mine'[s][k] = mine[s][k]  BY <2>2, <2>4 DEF Tell, FileTypes
    <3>. QED  BY <2>1, <3>1, <3>2, PromiseCalm
  <2>5. CASE s # u
    <3>1. props'[s] = props[s]  BY <1>7, <2>5 DEF SaveFile, FileTypes
    <3>2. mine'[s][k] = mine[s][k]  BY <2>2, <2>5 DEF Tell, FileTypes
    <3>. QED  BY <2>1, <3>1, <3>2, PromiseCalm
  <2>. QED  BY <2>3, <2>4, <2>5
<1>. QED
  <2>1. Values \subseteq Value \cup Ports /\ Keys \subseteq Keys \cup {"port"}  BY DEF Value
  <2>. QED  BY <1>1, <1>2, <1>3, <1>4, <1>5, <1>6, <1>7, <2>1 DEF SettingsNext

LEMMA KeptStep ==
    ASSUME SoftTypes, KeptInv, SoftwareNext
    PROVE  KeptInv'
<1>a. \A s \in Tuned \ mixed : \A k \in Keys \ Always(s) : Promise(s, k)  BY DEF KeptInv, Promise
<1>b. ASSUME mixed \subseteq mixed', \A s \in Tuned \ mixed' : \A k \in Keys \ Always(s) : Promise(s, k)'
      PROVE  KeptInv'
  BY <1>b DEF KeptInv, Promise, Always
<1>c. ASSUME UNCHANGED <<props, mine, mixed>>, Quiet(Requests) PROVE KeptInv'
  BY <1>a, <1>b, <1>c, PromiseCalm
<1>1. ASSUME NEW r \in Requests, NEW s \in Servers, StartServer(r, s) PROVE KeptInv'
  <2>1. UNCHANGED <<props, mine, mixed>>  BY <1>1 DEF StartServer
  <2>2. Quiet(Requests)  BY <1>1, StartEdit DEF Quiet
  <2>. QED  BY <1>c, <2>1, <2>2
<1>2. ASSUME NEW r \in Requests, Fetching(r), DropEdit(r) PROVE KeptInv'
  <2>1. UNCHANGED <<props, mine, mixed>> /\ Quiet(Requests)  BY <1>2, DropEditFacts DEF Quiet, SoftTypes
  <2>. QED  BY <1>c, <2>1
<1>3. ASSUME UNCHANGED setvars PROVE KeptInv'
  <2>1. UNCHANGED <<props, mine, mixed>> /\ Quiet(Requests)  BY <1>3 DEF setvars, Quiet
  <2>. QED  BY <1>c, <2>1
<1>4. ASSUME SettingsNext PROVE KeptInv'
  <2>1. mixed \subseteq mixed'
    <3>1. ASSUME NEW r, Look(r) \/ SetRead(r) \/ SetWrite(r) \/ SetReplace(r) \/ SetFails(r) PROVE mixed \subseteq mixed'
      BY <3>1 DEF Look, SetRead, SetWrite, SetReplace, SetFails, Mix
    <3>2. ASSUME NEW r, NEW s, NEW k, NEW v, \/ PutProperties(r, s, k, v) \/ PatchConfig(r, s, k, v)
                                             \/ SaveFile(s, k, v) \/ MovePort(s, v)
          PROVE  mixed \subseteq mixed'
      BY <3>2 DEF PutProperties, PatchConfig, SaveFile, MovePort, Mix
    <3>3. ASSUME NEW s, OpenFile(s) PROVE mixed \subseteq mixed'  BY <3>3 DEF OpenFile
    <3>. QED  BY <1>4, <3>1, <3>2, <3>3 DEF SettingsNext
  <2>2. ASSUME NEW s \in Tuned \ mixed', NEW k \in Keys \ Always(s) PROVE Promise(s, k)'
    BY <1>a, <1>4, <2>1, <2>2, SettingsPromise
  <2>. QED  BY <1>b, <2>1, <2>2
<1>. QED  BY <1>1, <1>2, <1>3, <1>4 DEF SoftwareNext

\* Settings the owner set stay in the file through starts, moves and other requests, for
\* any number of requests, unless two writers of the file overlapped.
THEOREM SettingsKept == Spec => []SettingKept
<1>1. StoreInit => KeptInv
  BY DEF StoreInit, SettingsInit, KeptInv, Pending
<1>2. StoreTypes /\ KeptInv /\ [StoreNext]_vars => KeptInv'
  <2>. SUFFICES ASSUME StoreTypes, KeptInv, [StoreNext]_vars PROVE KeptInv'  OBVIOUS
  <2>1. CASE UNCHANGED svars
    <3>1. UNCHANGED <<edit, mine, props, mixed>>  BY <2>1 DEF svars, setvars
    <3>. QED  BY <3>1 DEF KeptInv, Pending, Always
  <2>2. CASE SoftwareNext  BY <2>2, KeptStep DEF StoreTypes
  <2>3. CASE Restart
    <3>1. UNCHANGED <<mine, props, mixed>> /\ \A r \in Requests : edit'[r] = None
      BY <2>3 DEF Restart, StartsLost, EditsLost
    <3>. QED  BY <3>1 DEF KeptInv, Pending, Always
  <2>. QED  BY <2>1, <2>2, <2>3 DEF StoreNext, vars
<1>3. KeptInv => SettingKept  BY DEF KeptInv, SettingKept
<1>. QED  BY <1>1, <1>2, <1>3, StoreTypesAlways, PTL DEF Spec

-----------------------------------------------------------------------------
(* Mods.                                                                     *)

\* Everything there is to say of one server's mods.
Tidy(s) ==
    /\ \A r \in Requests :
          /\ InstallOf(r, s) => lease[s] = r /\ Knows(r)
          /\ FetchOf(r, s) => InstallOf(r, s) /\ inst[r].pc = "download" /\ Progress(r)
          /\ InstallOf(r, s) /\ inst[r].pc = "download" => FetchOf(r, s)
    /\ \A j \in Jar : mods[s][j] \notin {"none", "whole"} =>
          \E r \in Requests : FetchOf(r, s) /\ fetch[r].file = j
    /\ \A i, j \in Jar : i[1] = j[1] /\ mods[s][i] # "none" /\ mods[s][j] # "none" => i = j
    /\ \A p \in told[s] : \E v \in Versions : mods[s][<<p, v>>] = "whole"

LEMMA InstallTidy == InstallInv <=> Paired /\ \A s \in Clear : Tidy(s)
<1>1. InstallInv => \A s \in Clear : Tidy(s)
  <2>. SUFFICES ASSUME InstallInv, NEW s \in Clear PROVE Tidy(s)  OBVIOUS
  <2>1. \A r \in Requests :
          /\ InstallOf(r, s) => lease[s] = r /\ Knows(r)
          /\ FetchOf(r, s) => InstallOf(r, s) /\ inst[r].pc = "download" /\ Progress(r)
          /\ InstallOf(r, s) /\ inst[r].pc = "download" => FetchOf(r, s)
    BY DEF InstallInv, LeaseInv, DiskInv
  <2>2. \A j \in Jar : mods[s][j] \notin {"none", "whole"} =>
          \E r \in Requests : FetchOf(r, s) /\ fetch[r].file = j
    BY DEF InstallInv, DiskInv
  <2>3. \A i, j \in Jar : i[1] = j[1] /\ mods[s][i] # "none" /\ mods[s][j] # "none" => i = j
    BY DEF InstallInv, OneVersionPerMod, Clear
  <2>4. \A p \in told[s] : \E v \in Versions : mods[s][<<p, v>>] = "whole"
    BY DEF InstallInv, ToldIsInstalled, Clear
  <2>. QED  BY <2>1, <2>2, <2>3, <2>4 DEF Tidy
<1>2. (\A s \in Clear : Tidy(s)) => LeaseInv /\ DiskInv  BY DEF LeaseInv, DiskInv, Tidy
<1>3. (\A s \in Clear : Tidy(s)) => OneVersionPerMod /\ ToldIsInstalled
  BY DEF OneVersionPerMod, ToldIsInstalled, Clear, Tidy
<1>. QED  BY <1>1, <1>2, <1>3 DEF InstallInv

\* A request that has nothing to do with the server, before or after.
Foreign(r, s) == ~InstallOf(r, s) /\ ~FetchOf(r, s) /\ ~InstallOf(r, s)' /\ ~FetchOf(r, s)'

LEMMA TidyCalm ==
    ASSUME NEW s \in Servers, Tidy(s), lease'[s] = lease[s], mods'[s] = mods[s], told'[s] = told[s],
           \A r \in Requests : (inst'[r] = inst[r] /\ fetch'[r] = fetch[r]) \/ Foreign(r, s)
    PROVE  Tidy(s)'
<1>1. \A r \in Requests : InstallOf(r, s)' => InstallOf(r, s) /\ inst'[r] = inst[r] /\ fetch'[r] = fetch[r]
  BY DEF InstallOf, Foreign
<1>2. \A r \in Requests : FetchOf(r, s)' => FetchOf(r, s) /\ inst'[r] = inst[r] /\ fetch'[r] = fetch[r]
  BY DEF FetchOf, Foreign
<1>3. \A r \in Requests : FetchOf(r, s) => FetchOf(r, s)' /\ fetch'[r] = fetch[r]
  BY DEF FetchOf, Foreign
<1>4. ASSUME NEW r \in Requests, InstallOf(r, s)'
      PROVE  lease'[s] = r /\ Knows(r)' /\ (inst'[r].pc = "download" => FetchOf(r, s)')
  <2>1. InstallOf(r, s) /\ inst'[r] = inst[r] /\ lease[s] = r /\ Knows(r) /\ inst[r].srv = s
    BY <1>1, <1>4 DEF Tidy, InstallOf
  <2>2. Knows(r)'  BY <2>1 DEF Knows, Listed
  <2>. QED  BY <1>3, <2>1, <2>2 DEF Tidy
<1>5. ASSUME NEW r \in Requests, FetchOf(r, s)' PROVE InstallOf(r, s)' /\ inst'[r].pc = "download" /\ Progress(r)'
  <2>1. /\ InstallOf(r, s) /\ inst[r].pc = "download" /\ Progress(r) /\ inst'[r] = inst[r]
        /\ fetch'[r] = fetch[r] /\ fetch[r].srv = s
    BY <1>2, <1>5 DEF Tidy, FetchOf
  <2>2. Progress(r)'  BY <2>1 DEF Progress, Listed
  <2>. QED  BY <2>1, <2>2 DEF InstallOf
<1>6. ASSUME NEW j \in Jar, mods'[s][j] \notin {"none", "whole"}
      PROVE  \E r \in Requests : FetchOf(r, s)' /\ fetch'[r].file = j
  BY <1>3, <1>6 DEF Tidy
<1>. QED  BY <1>4, <1>5, <1>6 DEF Tidy

\* The install of a server is alone.
LEMMA Sole ==
    ASSUME NEW s, Tidy(s), NEW r \in Requests, InstallOf(r, s)
    PROVE  \A q \in Requests : InstallOf(q, s) \/ FetchOf(q, s) => q = r
BY DEF Tidy

\* The server is left without an install: its jars are complete, one of each mod.
LEMMA TidyAtRest ==
    ASSUME NEW s \in Servers, Redis,
           \A q \in Requests : ~InstallOf(q, s)' /\ ~FetchOf(q, s)',
           \A j \in Jar : mods'[s][j] \in {"none", "whole"},
           \A i, j \in Jar : i[1] = j[1] /\ mods'[s][i] # "none" /\ mods'[s][j] # "none" => i = j,
           \A p \in told'[s] : \E v \in Versions : mods'[s][<<p, v>>] = "whole"
    PROVE  Tidy(s)'
BY DEF Tidy

\* Jars other than the one a download has open are complete.
LEMMA OthersWhole ==
    ASSUME NEW s, Tidy(s), NEW r \in Requests, InstallOf(r, s), NEW j \in Jar, mods[s][j] # "none",
           fetch[r] = None \/ fetch[r].file # j
    PROVE  mods[s][j] = "whole"
<1>. SUFFICES ASSUME mods[s][j] \notin {"none", "whole"} PROVE FALSE  OBVIOUS
<1>1. PICK q \in Requests : FetchOf(q, s) /\ fetch[q].file = j  BY DEF Tidy
<1>2. q = r  BY <1>1, Sole
<1>. QED  BY <1>1, <1>2 DEF FetchOf

\* A jar that is still to be fetched has no jar of its project on the disk.
LEMMA LeftAbsent ==
    ASSUME NEW s, Tidy(s), NEW r \in Requests, FetchOf(r, s), NEW j \in fetch[r].left,
           NEW i \in Jar, i[1] = j[1]
    PROVE  mods[s][i] = "none"
<1>1. Progress(r) /\ fetch[r].srv = s  BY DEF Tidy, FetchOf
<1>2. j \in Missing(inst[r])  BY <1>1 DEF Progress
<1>3. i \notin inst[r].have  BY <1>2, JarsWanted
<1>4. i \notin Missing(inst[r]) \ fetch[r].left
  <2>1. i \in Missing(inst[r]) => i = j  BY <1>2, JarsWanted
  <2>. QED  BY <2>1
<1>5. i \notin Listed(s)  BY <1>1, <1>3, <1>4 DEF Progress
<1>. QED  BY <1>5 DEF Listed

\* What a finished install tells the owner is on the disk.
LEMMA WantedThere ==
    ASSUME ModsTypes, NEW s \in Servers, Tidy(s), NEW r \in Requests, InstallOf(r, s),
           \/ inst[r].pc = "resolve" /\ fetch[r] = None /\ Missing(inst[r]) = {}
           \/ inst[r].pc = "download" /\ fetch[r].left = {},
           NEW w \in Wanted(inst[r])
    PROVE  \E v \in Versions : mods[s][<<w[1], v>>] # "none"
<1>1. w \in Jar  BY JarsWanted
<1>2. w \in Listed(s) \/ \E h \in inst[r].have : h[1] = w[1] /\ h \in Listed(s)
  <2>1. CASE inst[r].pc = "resolve" /\ Missing(inst[r]) = {}
    <3>1. inst[r].have = Listed(s)  BY <2>1 DEF Tidy, Knows, InstallOf
    <3>. QED  BY <2>1, <3>1, JarsWanted
  <2>2. CASE inst[r].pc = "download" /\ fetch[r].left = {}
    <3>1. Progress(r) /\ fetch[r].srv = s  BY <2>2 DEF Tidy, FetchOf
    <3>2. Listed(s) = inst[r].have \cup Missing(inst[r])  BY <2>2, <3>1 DEF Progress
    <3>. QED  BY <3>2, JarsWanted
  <2>. QED  BY <2>1, <2>2
<1>3. \A h \in Listed(s) : h = <<h[1], h[2]>> /\ h[2] \in Versions /\ mods[s][h] # "none"  BY DEF Listed, Jar
<1>. QED
  <2>1. CASE w \in Listed(s)
    <3>1. w = <<w[1], w[2]>> /\ w[2] \in Versions /\ mods[s][w] # "none"  BY <2>1, <1>3
    <3>. QED  BY <3>1
  <2>2. CASE \E h \in inst[r].have : h[1] = w[1] /\ h \in Listed(s)
    <3>1. PICK h \in inst[r].have : h[1] = w[1] /\ h \in Listed(s)  BY <2>2
    <3>2. h = <<w[1], h[2]>> /\ h[2] \in Versions /\ mods[s][h] # "none"  BY <3>1, <1>3
    <3>. QED  BY <3>2
  <2>. QED  BY <1>2, <2>1, <2>2

\* A step of request r, which works for server o, seen from the other servers.
Works(r, o) ==
    /\ inst[r] # None => inst[r].srv = o
    /\ fetch[r] # None => fetch[r].srv = o
    /\ inst'[r] # None => inst'[r].srv = o
    /\ fetch'[r] # None => fetch'[r].srv = o
    /\ \A q \in Requests \ {r} : inst'[q] = inst[q] /\ fetch'[q] = fetch[q]
    /\ \A s \in Servers \ {o} : lease'[s] = lease[s] /\ mods'[s] = mods[s] /\ told'[s] = told[s]

LEMMA TidyElsewhere ==
    ASSUME NEW r \in Requests, NEW o \in Servers, Works(r, o), NEW s \in Servers \ {o}, Tidy(s)
    PROVE  Tidy(s)'
<1>1. Foreign(r, s)  BY DEF Works, Foreign, InstallOf, FetchOf
<1>2. \A q \in Requests : (inst'[q] = inst[q] /\ fetch'[q] = fetch[q]) \/ Foreign(q, s)  BY <1>1 DEF Works
<1>. QED  BY <1>2, TidyCalm DEF Works

\* The same, with what the step owes to its own server.
LEMMA InstallStep ==
    ASSUME ModsTypes, InstallInv, NEW r \in Requests, NEW o \in Servers, Works(r, o), blurred \subseteq blurred',
           inst'[r] # None /\ fetch'[r] # None => inst'[r].pc = "download",
           o \notin blurred' => Tidy(o)'
    PROVE  InstallInv'
<1>1. Paired'  BY DEF InstallInv, Paired, Works
<1>2. ASSUME NEW s \in Clear' PROVE Tidy(s)'
  <2>1. s \in Servers /\ s \notin blurred' /\ s \in Clear  BY <1>2 DEF Clear
  <2>2. Tidy(s)  BY <2>1, InstallTidy
  <2>. QED  BY <2>1, <2>2, TidyElsewhere
<1>3. (Paired /\ \A s \in Clear : Tidy(s))'  BY <1>1, <1>2
<1>. QED  BY <1>3, InstallTidy, PTL

LEMMA ReleaseFacts ==
    ASSUME ModsTypes, NEW r \in Requests, Release(r), inst[r] # None
    PROVE  /\ inst'[r] = None /\ \A q \in Requests \ {r} : inst'[q] = inst[q]
           /\ \A s \in Servers \ {inst[r].srv} : lease'[s] = lease[s]
BY DEF ModsTypes, Release, Released

LEMMA AnswerFacts ==
    ASSUME ModsTypes, NEW r \in Requests, Answer(r), inst[r] # None
    PROVE  /\ told'[inst[r].srv] = told[inst[r].srv] \cup { j[1] : j \in Wanted(inst[r]) }
           /\ \A s \in Servers \ {inst[r].srv} : told'[s] = told[s]
<1>1. inst[r].srv \in Servers  BY DEF ModsTypes, Install
<1>. QED  BY <1>1 DEF ModsTypes, Answer

LEMMA InstallModInv ==
    ASSUME Redis, ModsTypes, InstallInv, NEW r \in Requests, NEW o \in JavaServers, NEW p \in Projects,
           NEW v \in Versions \cup {0}, InstallMod(r, o, p, v)
    PROVE  InstallInv'
<1>. DEFINE i == [srv |-> o, root |-> p, ver |-> v, pc |-> "list", have |-> {}]
<1>1. i \in Install  BY DEF Install
<1>2. i # None /\ i.srv = o /\ i.pc = "list"  BY <1>1
<1>3. /\ inst[r] = None /\ fetch[r] = None /\ lease[o] = None /\ lease' = [lease EXCEPT ![o] = r]
      /\ inst' = [inst EXCEPT ![r] = i] /\ UNCHANGED <<mods, fetch, told, blurred>>
  BY DEF InstallMod
<1>. HIDE DEF i
<1>4. /\ inst'[r] = i /\ lease'[o] = r /\ o \in Servers
      /\ \A q \in Requests \ {r} : inst'[q] = inst[q]
      /\ \A s \in Servers \ {o} : lease'[s] = lease[s]
  BY <1>3 DEF ModsTypes
<1>5. Works(r, o)  BY <1>2, <1>3, <1>4 DEF Works
<1>6. ASSUME o \notin blurred PROVE Tidy(o)'
  <2>1. Tidy(o)  BY <1>4, <1>6, InstallTidy DEF Clear
  <2>2. \A q \in Requests : ~InstallOf(q, o) /\ ~FetchOf(q, o)  BY <1>3, <2>1 DEF Tidy
  <2>3. \A q \in Requests : ~FetchOf(q, o)'  BY <1>3, <2>2 DEF FetchOf
  <2>4. \A q \in Requests : InstallOf(q, o)' => q = r  BY <1>4, <2>2 DEF InstallOf
  <2>5. Knows(r)' /\ lease'[o] = r /\ inst'[r].pc # "download"  BY <1>2, <1>4 DEF Knows
  <2>6. \A j \in Jar : mods[o][j] \in {"none", "whole"}  BY <2>1, <2>2 DEF Tidy
  <2>. QED  BY <1>3, <2>1, <2>3, <2>4, <2>5, <2>6 DEF Tidy
<1>. QED  BY <1>2, <1>3, <1>4, <1>5, <1>6, InstallStep

LEMMA ListInv ==
    ASSUME Redis, ModsTypes, InstallInv, NEW r \in Requests, ListMods(r) \/ ListFails(r)
    PROVE  InstallInv'
<1>1. inst[r] \in Install /\ inst[r] # None /\ inst[r].pc = "list"  BY DEF ListMods, ListFails, At, ModsTypes
<1>2. PICK o \in Servers : o = inst[r].srv  BY <1>1 DEF Install
<1>. USE <1>2
<1>3. fetch[r] = None  BY <1>1 DEF InstallInv, Paired
<1>4. UNCHANGED <<mods, lease, fetch, told>> /\ blurred \subseteq blurred'  BY DEF ListMods, ListFails, Blur
<1>5. \A q \in Requests \ {r} : inst'[q] = inst[q]  BY DEF ListMods, ListFails, ModsTypes
<1>6. inst'[r].srv = o /\ inst'[r].pc = "resolve" /\ (ListMods(r) => inst'[r].have = Listed(o))
  <2>1. CASE ListMods(r)
    <3>1. inst'[r] = [inst[r] EXCEPT !.pc = "resolve", !.have = Listed(o)]  BY <1>1, <2>1 DEF ListMods, ModsTypes
    <3>. QED  BY <1>1, <3>1 DEF Install
  <2>2. CASE ~ListMods(r)
    <3>1. inst'[r] = [inst[r] EXCEPT !.pc = "resolve"]  BY <1>1, <2>2 DEF ListFails, ModsTypes
    <3>. QED  BY <1>1, <2>2, <3>1 DEF Install
  <2>. QED  BY <2>1, <2>2
<1>7. Works(r, o)  BY <1>3, <1>4, <1>5, <1>6 DEF Works
<1>8. ASSUME o \notin blurred' PROVE Tidy(o)'
  <2>1. ListMods(r) /\ o \notin blurred  BY <1>4, <1>8 DEF ListFails, Blur
  <2>2. Tidy(o)  BY <1>2, <2>1, InstallTidy DEF Clear
  <2>3. InstallOf(r, o)  BY <1>1 DEF InstallOf
  <2>4. \A q \in Requests : InstallOf(q, o) \/ FetchOf(q, o) => q = r  BY <2>2, <2>3, Sole
  <2>5. \A q \in Requests : ~FetchOf(q, o)'  BY <1>3, <1>4, <2>4 DEF FetchOf
  <2>6. \A q \in Requests : InstallOf(q, o)' => q = r  BY <1>5, <2>4 DEF InstallOf
  <2>7. Knows(r)'  BY <1>4, <1>6, <2>1 DEF Knows, Listed
  <2>8. \A j \in Jar : mods[o][j] \in {"none", "whole"}  BY <1>3, <2>2, <2>4 DEF Tidy, FetchOf
  <2>9. lease[o] = r  BY <2>2, <2>3 DEF Tidy
  <2>. QED  BY <1>4, <1>6, <2>2, <2>5, <2>6, <2>7, <2>8, <2>9 DEF Tidy
<1>. QED  BY <1>2, <1>3, <1>4, <1>7, <1>8, InstallStep

LEMMA ResolveInv ==
    ASSUME Redis, ModsTypes, InstallInv, NEW r \in Requests, Resolve(r)
    PROVE  InstallInv'
<1>1. inst[r] \in Install /\ inst[r] # None /\ inst[r].pc = "resolve"  BY DEF Resolve, At, ModsTypes
<1>2. PICK o \in JavaServers : o = inst[r].srv /\ o \in Servers  BY <1>1 DEF Install
<1>. USE <1>2
<1>. DEFINE i == [inst[r] EXCEPT !.pc = "download"]
            f == [srv |-> o, left |-> Missing(inst[r]), file |-> None]
<1>3. fetch[r] = None  BY <1>1 DEF InstallInv, Paired
<1>4. UNCHANGED <<mods, lease, told, blurred>>  BY DEF Resolve
<1>5. \A q \in Requests \ {r} : inst'[q] = inst[q] /\ fetch'[q] = fetch[q]  BY DEF Resolve, ModsTypes
<1>6. inst'[r] = i /\ fetch'[r] = f  BY <1>1 DEF Resolve, ModsTypes
<1>7. /\ i.srv = o /\ i.pc = "download" /\ i.root = inst[r].root /\ i.ver = inst[r].ver /\ i.have = inst[r].have
      /\ i \in Install
  BY <1>1 DEF Install
<1>8. f.srv = o /\ f.left = Missing(inst[r]) /\ f.file = None /\ f # None
  <2>1. Missing(inst[r]) \subseteq Jar  BY JarsWanted
  <2>2. f \in Fetch  BY <1>2, <2>1 DEF Fetch
  <2>. QED  BY <2>2
<1>9. Missing(i) = Missing(inst[r])  BY <1>7 DEF Missing, Wanted
<1>. HIDE DEF i, f
<1>10. Works(r, o)  BY <1>3, <1>4, <1>5, <1>6, <1>7, <1>8 DEF Works
<1>11. ASSUME o \notin blurred PROVE Tidy(o)'
  <2>2. Tidy(o)  BY <1>2, <1>11, InstallTidy DEF Clear
  <2>3. InstallOf(r, o)  BY <1>1 DEF InstallOf
  <2>4. \A q \in Requests : InstallOf(q, o) \/ FetchOf(q, o) => q = r  BY <2>2, <2>3, Sole
  <2>5. \A q \in Requests : FetchOf(q, o)' \/ InstallOf(q, o)' => q = r  BY <1>5, <2>4 DEF FetchOf, InstallOf
  <2>6. FetchOf(r, o)' /\ InstallOf(r, o)' /\ inst'[r].pc = "download"
    BY <1>6, <1>7, <1>8 DEF FetchOf, InstallOf
  <2>7. Knows(r)'  BY <1>6, <1>7 DEF Knows
  <2>8. inst[r].have = Listed(o)  BY <1>1, <2>2, <2>3 DEF Tidy, Knows
  <2>9. Listed(o)' = Listed(o)  BY <1>4 DEF Listed
  <2>10. Progress(r)'  BY <1>6, <1>7, <1>8, <1>9, <2>8, <2>9 DEF Progress
  <2>11. \A j \in Jar : mods[o][j] \in {"none", "whole"}  BY <1>3, <2>2, <2>4 DEF Tidy, FetchOf
  <2>12. lease[o] = r  BY <2>2, <2>3 DEF Tidy
  <2>. QED  BY <1>4, <2>2, <2>5, <2>6, <2>7, <2>10, <2>11, <2>12 DEF Tidy
<1>12. inst'[r].pc = "download"  BY <1>6, <1>7
<1>. QED  BY <1>2, <1>4, <1>10, <1>11, <1>12, InstallStep

\* The install of a server ends.
LEMMA InstallEnds ==
    ASSUME NEW s, Tidy(s), NEW r \in Requests, InstallOf(r, s), inst'[r] = None, fetch'[r] = None,
           \A q \in Requests \ {r} : inst'[q] = inst[q] /\ fetch'[q] = fetch[q]
    PROVE  \A q \in Requests : ~InstallOf(q, s)' /\ ~FetchOf(q, s)'
<1>1. \A q \in Requests : InstallOf(q, s) \/ FetchOf(q, s) => q = r  BY Sole
<1>. QED  BY <1>1 DEF InstallOf, FetchOf

LEMMA ResolvedInv ==
    ASSUME Redis, ModsTypes, InstallInv, NEW r \in Requests, AllPresent(r) \/ ResolveFails(r)
    PROVE  InstallInv'
<1>1. inst[r] \in Install /\ inst[r] # None /\ inst[r].pc = "resolve"
  <2>1. At(r, "resolve")  BY DEF AllPresent, ResolveFails
  <2>. QED  BY <2>1 DEF At, ModsTypes
<1>2. PICK o \in Servers : o = inst[r].srv  BY <1>1 DEF Install
<1>3. fetch[r] = None  BY <1>1 DEF InstallInv, Paired
<1>4. UNCHANGED <<mods, fetch, blurred>> /\ Release(r)  BY DEF AllPresent, ResolveFails, Answer, Refuse
<1>5. /\ inst'[r] = None /\ \A q \in Requests \ {r} : inst'[q] = inst[q]
      /\ \A s \in Servers \ {o} : lease'[s] = lease[s]
  BY <1>1, <1>2, <1>4, ReleaseFacts
<1>6. /\ \A s \in Servers \ {o} : told'[s] = told[s]
      /\ (told'[o] = told[o] \/ (AllPresent(r) /\ told'[o] = told[o] \cup { j[1] : j \in Wanted(inst[r]) }))
  BY <1>1, <1>2, AnswerFacts DEF AllPresent, ResolveFails, Refuse
<1>7. Works(r, o)  BY <1>2, <1>3, <1>4, <1>5, <1>6 DEF Works
<1>8. ASSUME o \notin blurred' PROVE Tidy(o)'
  <2>1. Tidy(o)  BY <1>4, <1>8, InstallTidy DEF Clear
  <2>2. InstallOf(r, o)  BY <1>1, <1>2 DEF InstallOf
  <2>3. \A q \in Requests : ~InstallOf(q, o)' /\ ~FetchOf(q, o)'  BY <1>3, <1>4, <1>5, <2>1, <2>2, InstallEnds
  <2>4. \A j \in Jar : mods[o][j] \in {"none", "whole"}  BY <1>3, <2>1, <2>2, OthersWhole
  <2>5. ASSUME NEW p \in told'[o] PROVE \E v \in Versions : mods[o][<<p, v>>] = "whole"
    <3>1. CASE p \in told[o]  BY <3>1, <2>1 DEF Tidy
    <3>2. CASE p \notin told[o]
      <4>1. AllPresent(r) /\ p \in { j[1] : j \in Wanted(inst[r]) }  BY <1>6, <2>5, <3>2
      <4>2. PICK j \in Wanted(inst[r]) : p = j[1]  BY <4>1
      <4>3. Missing(inst[r]) = {}  BY <4>1 DEF AllPresent
      <4>4. PICK v \in Versions : mods[o][<<p, v>>] # "none"
        BY <1>1, <1>3, <2>1, <2>2, <4>2, <4>3, WantedThere
      <4>5. j \in Jar  BY <4>2, JarsWanted
      <4>6. <<p, v>> \in Jar  BY <4>2, <4>5 DEF Jar
      <4>. QED  BY <2>4, <4>4, <4>6
    <3>. QED  BY <3>1, <3>2
  <2>6. \A i, j \in Jar : i[1] = j[1] /\ mods[o][i] # "none" /\ mods[o][j] # "none" => i = j  BY <2>1 DEF Tidy
  <2>. QED  BY <1>4, <2>3, <2>4, <2>5, <2>6, TidyAtRest
<1>. QED  BY <1>4, <1>5, <1>7, <1>8, InstallStep

LEMMA OpenJarInv ==
    ASSUME Redis, ModsTypes, InstallInv, NEW r \in Requests, OpenJar(r)
    PROVE  InstallInv'
<1>1. fetch[r] \in Fetch /\ fetch[r] # None /\ fetch[r].file = None  BY DEF OpenJar, ModsTypes
<1>2. PICK o \in Servers : o = fetch[r].srv  BY <1>1 DEF Fetch
<1>3. PICK j \in fetch[r].left :
         fetch' = [fetch EXCEPT ![r].file = j, ![r].left = @ \ {j}] /\ Put(fetch[r].srv, j, r)
  BY DEF OpenJar
<1>. DEFINE f == [fetch[r] EXCEPT !.file = j, !.left = fetch[r].left \ {j}]
<1>4. j \in Jar  BY <1>1 DEF Fetch
<1>5. fetch'[r] = f /\ \A q \in Requests \ {r} : fetch'[q] = fetch[q]  BY <1>3 DEF ModsTypes
<1>6. f \in Fetch /\ f.srv = o /\ f.file = j /\ f.left = fetch[r].left \ {j}  BY <1>1, <1>2, <1>4 DEF Fetch
<1>7. f # None /\ j # None  BY <1>4, <1>6, ModsNames
<1>. HIDE DEF f
<1>8. /\ \A s \in Servers \ {o} : mods'[s] = mods[s]
      /\ mods'[o] = [mods[o] EXCEPT ![j] = r]
  BY <1>2, <1>3 DEF ModsTypes, Put
<1>9. mods'[o][j] = r /\ \A i \in Jar \ {j} : mods'[o][i] = mods[o][i]  BY <1>4, <1>8 DEF ModsTypes
<1>10. UNCHANGED <<lease, inst, told, blurred>>  BY DEF OpenJar
<1>11. inst[r] # None => inst[r].srv = o /\ inst[r].pc = "download"  BY <1>1, <1>2 DEF InstallInv, Paired
<1>12. Works(r, o)  BY <1>2, <1>5, <1>6, <1>8, <1>10, <1>11 DEF Works
<1>13. ASSUME o \notin blurred' PROVE Tidy(o)'
  <2>1. Tidy(o)  BY <1>10, <1>13, InstallTidy DEF Clear
  <2>2. FetchOf(r, o)  BY <1>1, <1>2 DEF FetchOf
  <2>3. InstallOf(r, o) /\ Progress(r) /\ lease[o] = r /\ inst[r].pc = "download" /\ inst[r].srv = o
    BY <2>1, <2>2 DEF Tidy, InstallOf
  <2>4. \A q \in Requests : InstallOf(q, o)' \/ FetchOf(q, o)' => q = r
    BY <1>5, <1>10, <2>1, <2>3, Sole DEF InstallOf, FetchOf
  <2>5. InstallOf(r, o)' /\ FetchOf(r, o)'  BY <1>5, <1>6, <1>7, <1>10, <2>3 DEF InstallOf, FetchOf
  <2>6. Listed(o)' = Listed(o) \cup {j}
    <3>1. r # "none"  BY ModsNames
    <3>. QED  BY <1>4, <1>9, <3>1 DEF Listed
  <2>7. Progress(r)'
    <3>1. /\ fetch[r].left \subseteq Missing(inst[r])
          /\ Listed(o) = inst[r].have \cup (Missing(inst[r]) \ fetch[r].left)
      BY <1>2, <2>3 DEF Progress
    <3>2. Missing(inst'[r]) = Missing(inst[r]) /\ inst'[r].have = inst[r].have  BY <1>10
    <3>3. f.left \subseteq Missing(inst[r]) /\ f.file \in Missing(inst[r]) \ f.left
      BY <1>6, <3>1
    <3>4. Listed(o)' = inst[r].have \cup (Missing(inst[r]) \ f.left)  BY <1>6, <2>6, <3>1
    <3>. QED  BY <1>5, <1>6, <1>9, <3>2, <3>3, <3>4 DEF Progress
  <2>8. Knows(r)'  BY <1>10, <2>3 DEF Knows
  <2>9. \A i \in Jar : i # j => mods[o][i] \in {"none", "whole"}
    BY <1>1, <2>1, <2>3, <1>4, OthersWhole DEF ModsNames
  <2>10. \A i \in Jar : i[1] = j[1] => mods[o][i] = "none"  BY <2>1, <2>2, LeftAbsent
  <2>11. \A i, k \in Jar : i[1] = k[1] /\ mods'[o][i] # "none" /\ mods'[o][k] # "none" => i = k
    <3>1. \A i, k \in Jar : i[1] = k[1] /\ mods[o][i] # "none" /\ mods[o][k] # "none" => i = k
      BY <2>1 DEF Tidy
    <3>. QED  BY <1>4, <1>9, <2>10, <3>1
  <2>12. \A p \in told'[o] : \E v \in Versions : mods'[o][<<p, v>>] = "whole"
    <3>. SUFFICES ASSUME NEW p \in told[o] PROVE \E v \in Versions : mods'[o][<<p, v>>] = "whole"  BY <1>10
    <3>1. PICK v \in Versions : mods[o][<<p, v>>] = "whole"  BY <2>1 DEF Tidy
    <3>2. <<p, v>> \in Jar  BY DEF ModsTypes, Jar
    <3>3. <<p, v>> # j  BY <1>4, <2>10, <3>1
    <3>. QED  BY <1>9, <3>1, <3>2, <3>3
  <2>13. \A i \in Jar : mods'[o][i] \notin {"none", "whole"} =>
            \E q \in Requests : FetchOf(q, o)' /\ fetch'[q].file = i
    BY <1>5, <1>6, <1>9, <2>5, <2>9
  <2>. QED  BY <1>10, <2>3, <2>4, <2>5, <2>7, <2>8, <2>11, <2>12, <2>13 DEF Tidy
<1>. QED  BY <1>2, <1>10, <1>11, <1>12, <1>13, InstallStep

LEMMA SaveJarInv ==
    ASSUME Redis, ModsTypes, InstallInv, NEW r \in Requests, SaveJar(r)
    PROVE  InstallInv'
<1>1. fetch[r] \in Fetch /\ fetch[r] # None /\ fetch[r].file # None  BY DEF SaveJar, ModsTypes
<1>2. PICK o \in Servers : o = fetch[r].srv  BY <1>1 DEF Fetch
<1>3. PICK j \in Jar : j = fetch[r].file  BY <1>1 DEF Fetch
<1>4. /\ blurred' = blurred
      /\ IF mods[o][j] = r THEN Put(o, j, "whole") ELSE UNCHANGED mods
  BY <1>2, <1>3 DEF SaveJar
<1>5. /\ \A s \in Servers \ {o} : mods'[s] = mods[s]
      /\ \A i \in Jar \ {j} : mods'[o][i] = mods[o][i]
      /\ mods[o][j] = r => mods'[o][j] = "whole"
  BY <1>4 DEF Put, ModsTypes
<1>6. inst[r] # None => inst[r].srv = o /\ inst[r].pc = "download"  BY <1>1, <1>2 DEF InstallInv, Paired
<1>7. ASSUME o \notin blurred
      PROVE  /\ Tidy(o) /\ FetchOf(r, o) /\ InstallOf(r, o) /\ Progress(r) /\ lease[o] = r
             /\ mods[o][j] = r /\ r # "none"
             /\ \A i \in Jar \ {j} : mods[o][i] \in {"none", "whole"}
  <2>1. Tidy(o)  BY <1>7, InstallTidy DEF Clear
  <2>2. FetchOf(r, o)  BY <1>1, <1>2 DEF FetchOf
  <2>3. InstallOf(r, o) /\ Progress(r) /\ lease[o] = r  BY <2>1, <2>2 DEF Tidy
  <2>4. mods[o][j] = r  BY <1>1, <1>2, <1>3, <2>3 DEF Progress
  <2>5. \A i \in Jar \ {j} : mods[o][i] \in {"none", "whole"}  BY <1>3, <2>1, <2>3, OthersWhole
  <2>. QED  BY <2>1, <2>2, <2>3, <2>4, <2>5, ModsNames
<1>8. ASSUME o \notin blurred
      PROVE  /\ \A i \in Jar : mods'[o][i] \in {"none", "whole"}
             /\ \A i \in Jar : mods'[o][i] = "none" <=> mods[o][i] = "none"
             /\ \A i \in Jar : mods[o][i] = "whole" => mods'[o][i] = "whole"
             /\ \A i, k \in Jar : i[1] = k[1] /\ mods'[o][i] # "none" /\ mods'[o][k] # "none" => i = k
             /\ \A p \in told[o] : \E v \in Versions : mods'[o][<<p, v>>] = "whole"
  <2>1. /\ Tidy(o) /\ mods[o][j] = r /\ r # "none"
        /\ \A i \in Jar \ {j} : mods[o][i] \in {"none", "whole"}
    BY <1>7, <1>8
  <2>2. mods[o][j] # "whole"  BY <2>1, ModsNames
  <2>3. \A i \in Jar : mods'[o][i] \in {"none", "whole"}  BY <1>5, <2>1
  <2>4. \A i \in Jar : mods'[o][i] = "none" <=> mods[o][i] = "none"  BY <1>5, <2>1
  <2>5. \A i \in Jar : mods[o][i] = "whole" => mods'[o][i] = "whole"  BY <1>5, <2>2
  <2>6. \A i, k \in Jar : i[1] = k[1] /\ mods'[o][i] # "none" /\ mods'[o][k] # "none" => i = k
    BY <2>1, <2>4 DEF Tidy
  <2>7. ASSUME NEW p \in told[o] PROVE \E v \in Versions : mods'[o][<<p, v>>] = "whole"
    <3>1. PICK v \in Versions : mods[o][<<p, v>>] = "whole"  BY <2>1 DEF Tidy
    <3>2. <<p, v>> \in Jar  BY DEF ModsTypes, Jar
    <3>. QED  BY <2>5, <3>1, <3>2
  <2>. QED  BY <2>3, <2>4, <2>5, <2>6, <2>7
<1>9. CASE fetch[r].left # {}
  <2>. DEFINE f == [fetch[r] EXCEPT !.file = None]
  <2>1. fetch' = [fetch EXCEPT ![r].file = None] /\ UNCHANGED <<lease, inst, told>>  BY <1>9 DEF SaveJar
  <2>2. fetch'[r] = f /\ \A q \in Requests \ {r} : fetch'[q] = fetch[q]  BY <2>1 DEF ModsTypes
  <2>3. f \in Fetch /\ f.srv = o /\ f.file = None /\ f.left = fetch[r].left  BY <1>1, <1>2 DEF Fetch
  <2>4. f # None  BY <2>3, ModsNames
  <2>. HIDE DEF f
  <2>5. Works(r, o)  BY <1>2, <1>5, <1>6, <2>1, <2>2, <2>3 DEF Works
  <2>6. ASSUME o \notin blurred' PROVE Tidy(o)'
    <3>1. o \notin blurred  BY <1>4, <2>6
    <3>2. Tidy(o) /\ FetchOf(r, o) /\ InstallOf(r, o) /\ Progress(r) /\ lease[o] = r  BY <3>1, <1>7
    <3>3. \A q \in Requests : InstallOf(q, o)' \/ FetchOf(q, o)' => q = r
      BY <2>1, <2>2, <3>2, Sole DEF InstallOf, FetchOf
    <3>4. InstallOf(r, o)' /\ FetchOf(r, o)' /\ inst'[r].pc = "download"
      BY <1>6, <2>1, <2>2, <2>3, <2>4, <3>2 DEF InstallOf, FetchOf
    <3>5. Listed(o)' = Listed(o)  BY <3>1, <1>8 DEF Listed
    <3>6. Progress(r)'
      <4>1. /\ fetch[r].left \subseteq Missing(inst[r])
            /\ Listed(o) = inst[r].have \cup (Missing(inst[r]) \ fetch[r].left)
        BY <1>2, <3>2 DEF Progress
      <4>2. Missing(inst'[r]) = Missing(inst[r]) /\ inst'[r].have = inst[r].have  BY <2>1
      <4>. QED  BY <2>2, <2>3, <3>5, <4>1, <4>2 DEF Progress
    <3>7. Knows(r)'  BY <3>4 DEF Knows
    <3>. QED  BY <2>1, <3>1, <1>8, <3>2, <3>3, <3>4, <3>6, <3>7 DEF Tidy
  <2>. QED  BY <1>2, <1>4, <1>6, <2>1, <2>5, <2>6, InstallStep
<1>10. CASE fetch[r].left = {}
  <2>1. /\ fetch' = [fetch EXCEPT ![r] = None]
        /\ IF inst[r] = None THEN UNCHANGED <<lease, inst, told>> ELSE Answer(r)
    BY <1>10 DEF SaveJar
  <2>2. fetch'[r] = None /\ \A q \in Requests \ {r} : fetch'[q] = fetch[q]  BY <2>1 DEF ModsTypes
  <2>3. inst[r] # None => Answer(r) /\ Release(r)  BY <2>1 DEF Answer
  <2>4. /\ inst'[r] = None /\ \A q \in Requests \ {r} : inst'[q] = inst[q]
        /\ \A s \in Servers \ {o} : lease'[s] = lease[s] /\ told'[s] = told[s]
    BY <1>6, <2>1, <2>3, ReleaseFacts, AnswerFacts
  <2>5. Works(r, o)  BY <1>2, <1>5, <1>6, <2>2, <2>4 DEF Works
  <2>6. ASSUME o \notin blurred' PROVE Tidy(o)'
    <3>1. o \notin blurred  BY <1>4, <2>6
    <3>2. Tidy(o) /\ FetchOf(r, o) /\ InstallOf(r, o)  BY <3>1, <1>7
    <3>3. \A q \in Requests : ~InstallOf(q, o)' /\ ~FetchOf(q, o)'  BY <2>2, <2>4, <3>2, InstallEnds
    <3>4. inst[r] # None  BY <3>2 DEF InstallOf
    <3>5. told'[o] = told[o] \cup { w[1] : w \in Wanted(inst[r]) }  BY <1>6, <2>3, <3>4, AnswerFacts
    <3>6. ASSUME NEW p \in told'[o] PROVE \E v \in Versions : mods'[o][<<p, v>>] = "whole"
      <4>1. CASE p \in told[o]  BY <4>1, <3>1, <1>8
      <4>2. CASE p \notin told[o]
        <5>1. p \in { w[1] : w \in Wanted(inst[r]) }  BY <3>5, <3>6, <4>2
        <5>2. PICK w \in Wanted(inst[r]) : p = w[1]  BY <5>1
        <5>3. PICK v \in Versions : mods[o][<<p, v>>] # "none"
          BY <1>6, <1>10, <3>2, <3>4, <5>2, WantedThere
        <5>4. <<p, v>> \in Jar  BY <5>2, JarsWanted DEF Jar
        <5>. QED  BY <3>1, <1>8, <5>3, <5>4
      <4>. QED  BY <4>1, <4>2
    <3>. QED  BY <3>1, <1>8, <3>3, <3>6, TidyAtRest
  <2>. QED  BY <1>4, <2>4, <2>5, <2>6, InstallStep
<1>. QED  BY <1>9, <1>10

LEMMA FailJarInv ==
    ASSUME Redis, ModsTypes, InstallInv, NEW r \in Requests, FailJar(r)
    PROVE  InstallInv'
<1>1. fetch[r] \in Fetch /\ fetch[r] # None  BY DEF FailJar, ModsTypes
<1>2. PICK o \in Servers : o = fetch[r].srv  BY <1>1 DEF Fetch
<1>3. PICK j \in Current(r) : Put(o, j, "none")  BY <1>2 DEF FailJar
<1>4. j \in Jar /\ (j = fetch[r].file \/ (fetch[r].file = None /\ j \in fetch[r].left))
  BY <1>1 DEF Current, Fetch
<1>5. /\ \A s \in Servers \ {o} : mods'[s] = mods[s]
      /\ \A i \in Jar \ {j} : mods'[o][i] = mods[o][i]
      /\ mods'[o][j] = "none"
  BY <1>3, <1>4 DEF Put, ModsTypes
<1>6. inst[r] # None => inst[r].srv = o /\ inst[r].pc = "download"  BY <1>1, <1>2 DEF InstallInv, Paired
<1>7. /\ fetch' = [fetch EXCEPT ![r] = None] /\ blurred' = blurred
      /\ IF inst[r] = None THEN UNCHANGED <<lease, inst, told>> ELSE Refuse(r)
  BY DEF FailJar
<1>8. fetch'[r] = None /\ \A q \in Requests \ {r} : fetch'[q] = fetch[q]  BY <1>7 DEF ModsTypes
<1>9. UNCHANGED told /\ (inst[r] # None => Release(r))  BY <1>7 DEF Refuse
<1>10. /\ inst'[r] = None /\ \A q \in Requests \ {r} : inst'[q] = inst[q]
       /\ \A s \in Servers \ {o} : lease'[s] = lease[s]
  BY <1>6, <1>7, <1>9, ReleaseFacts
<1>11. Works(r, o)  BY <1>2, <1>5, <1>6, <1>8, <1>9, <1>10 DEF Works
<1>12. ASSUME o \notin blurred' PROVE Tidy(o)'
  <2>1. Tidy(o)  BY <1>7, <1>12, InstallTidy DEF Clear
  <2>2. FetchOf(r, o)  BY <1>1, <1>2 DEF FetchOf
  <2>3. InstallOf(r, o) /\ Progress(r)  BY <2>1, <2>2 DEF Tidy
  <2>4. \A q \in Requests : ~InstallOf(q, o)' /\ ~FetchOf(q, o)'  BY <1>8, <1>10, <2>1, <2>3, InstallEnds
  <2>5. mods[o][j] # "whole"
    <3>1. CASE j = fetch[r].file
      <4>1. mods[o][j] = r  BY <1>2, <1>4, <2>3, <3>1, ModsNames DEF Progress
      <4>. QED  BY <4>1, ModsNames
    <3>2. CASE j \in fetch[r].left
      <4>1. mods[o][j] = "none"  BY <1>4, <2>1, <2>2, <3>2, LeftAbsent
      <4>. QED  BY <4>1
    <3>. QED  BY <1>4, <3>1, <3>2
  <2>6. \A i \in Jar : mods'[o][i] \in {"none", "whole"}
    <3>1. ASSUME NEW i \in Jar \ {j} PROVE mods[o][i] \in {"none", "whole"}
      <4>1. fetch[r].file # i  BY <1>4, ModsNames
      <4>. QED  BY <2>1, <2>3, <4>1, OthersWhole
    <3>. QED  BY <1>5, <3>1
  <2>7. \A i, k \in Jar : i[1] = k[1] /\ mods'[o][i] # "none" /\ mods'[o][k] # "none" => i = k
    BY <1>5, <2>1 DEF Tidy
  <2>8. ASSUME NEW p \in told'[o] PROVE \E v \in Versions : mods'[o][<<p, v>>] = "whole"
    <3>1. PICK v \in Versions : mods[o][<<p, v>>] = "whole"  BY <1>9, <2>1 DEF Tidy
    <3>2. <<p, v>> \in Jar  BY <1>9 DEF ModsTypes, Jar
    <3>. QED  BY <1>5, <2>5, <3>1, <3>2
  <2>. QED  BY <2>4, <2>6, <2>7, <2>8, TidyAtRest
<1>. QED  BY <1>7, <1>8, <1>11, <1>12, InstallStep

LEMMA GiveUpInv ==
    ASSUME Redis, ModsTypes, InstallInv, NEW r \in Requests, GiveUp(r)
    PROVE  InstallInv'
<1>1. inst[r] \in Install /\ inst[r] # None  BY DEF GiveUp, At, ModsTypes
<1>2. PICK o \in Servers : o = inst[r].srv  BY <1>1 DEF Install
<1>3. UNCHANGED <<mods, fetch, told>> /\ Release(r) /\ o \in blurred' /\ blurred \subseteq blurred'
  BY <1>2 DEF GiveUp, Refuse, Blur
<1>4. /\ inst'[r] = None /\ \A q \in Requests \ {r} : inst'[q] = inst[q]
      /\ \A s \in Servers \ {o} : lease'[s] = lease[s]
  BY <1>1, <1>2, <1>3, ReleaseFacts
<1>5. fetch[r] # None => fetch[r].srv = o  BY <1>1, <1>2 DEF InstallInv, Paired
<1>6. Works(r, o)  BY <1>2, <1>3, <1>4, <1>5 DEF Works
<1>. QED  BY <1>3, <1>4, <1>6, InstallStep

\* Steps of no request: servers other than o are left as they were.
LEMMA NobodysStep ==
    ASSUME InstallInv, NEW o \in Servers, UNCHANGED <<inst, fetch>>, blurred \subseteq blurred',
           \A s \in Servers \ {o} : lease'[s] = lease[s] /\ mods'[s] = mods[s] /\ told'[s] = told[s],
           o \notin blurred' => Tidy(o)'
    PROVE  InstallInv'
<1>1. Paired'  BY DEF InstallInv, Paired
<1>2. ASSUME NEW s \in Clear' PROVE Tidy(s)'
  <2>1. s \in Servers /\ s \notin blurred' /\ s \in Clear  BY <1>2 DEF Clear
  <2>2. Tidy(s)  BY <2>1, InstallTidy
  <2>3. CASE s = o  BY <2>1, <2>3
  <2>4. CASE s # o  BY <2>1, <2>2, <2>4, TidyCalm
  <2>. QED  BY <2>3, <2>4
<1>3. (Paired /\ \A s \in Clear : Tidy(s))'  BY <1>1, <1>2
<1>. QED  BY <1>3, InstallTidy, PTL

LEMMA ExpiryInv ==
    ASSUME ModsTypes, InstallInv, NEW o \in Servers, LeaseExpires(o)
    PROVE  InstallInv'
<1>1. UNCHANGED <<mods, inst, fetch, told>> /\ o \in blurred' /\ blurred \subseteq blurred'
  BY DEF LeaseExpires, Blur
<1>2. \A s \in Servers \ {o} : lease'[s] = lease[s]  BY DEF LeaseExpires, ModsTypes
<1>. QED  BY <1>1, <1>2, NobodysStep

LEMMA UnlinkInv ==
    ASSUME Redis, ModsTypes, InstallInv, NEW o \in Servers, NEW j \in Jar, Unlink(o, j)
    PROVE  InstallInv'
<1>1. UNCHANGED <<lease, inst, fetch>> /\ blurred \subseteq blurred'  BY DEF Unlink, Blur
<1>2. /\ \A s \in Servers \ {o} : mods'[s] = mods[s] /\ told'[s] = told[s]
      /\ \A i \in Jar \ {j} : mods'[o][i] = mods[o][i]
      /\ mods'[o][j] = "none" /\ told'[o] = told[o] \ {j[1]}
  BY DEF Unlink, Put, ModsTypes
<1>3. ASSUME o \notin blurred' PROVE Tidy(o)'
  <2>1. Tidy(o)  BY <1>1, <1>3, InstallTidy DEF Clear
  <2>2. ~Busy(o)  BY <1>3 DEF Unlink, Blur
  <2>3. \A q \in Requests : ~InstallOf(q, o) /\ ~FetchOf(q, o)  BY <2>1, <2>2 DEF Busy, Tidy, InstallOf
  <2>4. \A q \in Requests : ~InstallOf(q, o)' /\ ~FetchOf(q, o)'  BY <1>1, <2>3 DEF InstallOf, FetchOf
  <2>5. \A i \in Jar : mods'[o][i] \in {"none", "whole"}  BY <1>2, <2>1, <2>3 DEF Tidy
  <2>6. \A i, k \in Jar : i[1] = k[1] /\ mods'[o][i] # "none" /\ mods'[o][k] # "none" => i = k
    BY <1>2, <2>1 DEF Tidy
  <2>7. ASSUME NEW p \in told'[o] PROVE \E v \in Versions : mods'[o][<<p, v>>] = "whole"
    <3>1. p \in told[o] /\ p # j[1]  BY <1>2, <2>7
    <3>2. PICK v \in Versions : mods[o][<<p, v>>] = "whole"  BY <2>1, <3>1 DEF Tidy
    <3>3. <<p, v>> \in Jar /\ <<p, v>> # j  BY <3>1 DEF ModsTypes, Jar
    <3>. QED  BY <1>2, <3>2, <3>3
  <2>. QED  BY <2>4, <2>5, <2>6, <2>7, TidyAtRest
<1>. QED  BY <1>1, <1>2, <1>3, NobodysStep

LEMMA LostInv ==
    ASSUME Redis, ModsTypes, InstallInv, DownloadsLost
    PROVE  InstallInv'
<1>. DEFINE cut == { r \in Requests : fetch[r] # None }
<1>1. /\ fetch' = [r \in Requests |-> None]
      /\ inst' = [r \in Requests |-> IF r \in cut THEN None ELSE inst[r]]
      /\ lease' = [s \in Servers |-> IF lease[s] \in cut THEN None ELSE lease[s]]
      /\ mods' = [s \in Servers |-> [j \in Jar |-> IF mods[s][j] \in Requests THEN "part" ELSE mods[s][j]]]
      /\ blurred' = blurred \cup { fetch[r].srv : r \in cut }
      /\ UNCHANGED told
  BY DEF DownloadsLost
<1>2. Paired'  BY <1>1 DEF Paired
<1>3. ASSUME NEW s \in Clear' PROVE Tidy(s)'
  <2>1. s \in Servers /\ s \in Clear /\ \A r \in cut : fetch[r].srv # s  BY <1>1, <1>3 DEF Clear
  <2>2. Tidy(s)  BY <2>1, InstallTidy
  <2>3. \A r \in Requests : ~FetchOf(r, s)  BY <2>1 DEF FetchOf
  <2>4. \A j \in Jar : mods[s][j] \in {"none", "whole"}  BY <2>2, <2>3 DEF Tidy
  <2>5. mods'[s] = mods[s]
    <3>1. \A j \in Jar : mods'[s][j] = mods[s][j]  BY <1>1, <2>1, <2>4, ModsNames
    <3>2. mods'[s] = [j \in Jar |-> mods'[s][j]] /\ mods[s] = [j \in Jar |-> mods[s][j]]
      BY <1>1, <2>1 DEF ModsTypes
    <3>. QED  BY <3>1, <3>2
  <2>6. lease'[s] = lease[s]
    <3>1. ASSUME lease[s] \in cut PROVE FALSE
      <4>1. lease[s] \in Requests /\ fetch[lease[s]] # None  BY <3>1
      <4>2. lease[s] # None  BY <4>1, ModsNames
      <4>3. inst[lease[s]] # None /\ inst[lease[s]].srv = s  BY <2>1, <4>2 DEF ModsTypes
      <4>4. fetch[lease[s]].srv = s  BY <4>1, <4>3 DEF InstallInv, Paired
      <4>. QED  BY <2>3, <4>1, <4>4 DEF FetchOf
    <3>. QED  BY <1>1, <2>1, <3>1
  <2>7. ASSUME NEW r \in Requests PROVE (inst'[r] = inst[r] /\ fetch'[r] = fetch[r]) \/ Foreign(r, s)
    <3>1. CASE r \notin cut  BY <1>1, <3>1
    <3>2. CASE r \in cut
      <4>1. ~InstallOf(r, s)  BY <2>3, <3>2 DEF InstallInv, Paired, InstallOf, FetchOf
      <4>. QED  BY <1>1, <2>3, <3>2, <4>1 DEF Foreign, InstallOf, FetchOf
    <3>. QED  BY <3>1, <3>2
  <2>. QED  BY <1>1, <2>1, <2>2, <2>5, <2>6, <2>7, TidyCalm
<1>4. (Paired /\ \A s \in Clear : Tidy(s))'  BY <1>2, <1>3
<1>. QED  BY <1>4, InstallTidy, PTL

LEMMA ModsInv ==
    ASSUME Redis, ModsTypes, InstallInv, ModsNext
    PROVE  InstallInv'
<1>1. JavaServers \subseteq Servers  BY StoreAssumption
<1>2. ASSUME NEW s \in JavaServers, NEW j \in Jar, DeleteMod(s, j) \/ DeleteFile(s, j) PROVE InstallInv'
  <2>1. Unlink(s, j)  BY <1>2 DEF DeleteMod, DeleteFile
  <2>. QED  BY <1>1, <2>1, UnlinkInv
<1>3. ASSUME NEW s \in JavaServers, LeaseExpires(s) PROVE InstallInv'  BY <1>1, <1>3, ExpiryInv
<1>. QED
  BY <1>2, <1>3, InstallModInv, ListInv, ResolveInv, ResolvedInv, OpenJarInv, SaveJarInv, FailJarInv, GiveUpInv
  DEF ModsNext

\* The lease keeps a server's installs apart, so that what one found on the disk is still
\* there when it writes; Redis must hold the lock.
LEMMA InstallAlways ==
    ASSUME Redis
    PROVE  Spec => []InstallInv
<1>1. StoreInit => InstallInv
  <2>. SUFFICES ASSUME ModsInit PROVE InstallInv  BY DEF StoreInit
  <2>1. \A r \in Requests : inst[r] = None /\ fetch[r] = None  BY DEF ModsInit
  <2>2. \A s \in Servers : told[s] = {} /\ \A j \in Jar : mods[s][j] = "none"  BY DEF ModsInit
  <2>3. Paired /\ LeaseInv  BY <2>1 DEF Paired, LeaseInv, InstallOf, FetchOf
  <2>4. DiskInv  BY <2>1, <2>2 DEF DiskInv, InstallOf, FetchOf, Clear
  <2>5. OneVersionPerMod /\ ToldIsInstalled  BY <2>2 DEF OneVersionPerMod, ToldIsInstalled
  <2>. QED  BY <2>3, <2>4, <2>5 DEF InstallInv
<1>2. StoreTypes /\ InstallInv /\ [StoreNext]_vars => InstallInv'
  <2>. SUFFICES ASSUME StoreTypes, InstallInv, [StoreNext]_vars PROVE InstallInv'  OBVIOUS
  <2>1. CASE UNCHANGED mvars
    <3>1. UNCHANGED <<mods, lease, inst, fetch, told, blurred>>  BY <2>1 DEF mvars
    <3>. QED
      BY <3>1 DEF InstallInv, Paired, LeaseInv, DiskInv, OneVersionPerMod, ToldIsInstalled, InstallOf, FetchOf,
                  Knows, Progress, Listed, Clear
  <2>2. CASE ModsNext  BY <2>2, ModsInv DEF StoreTypes
  <2>3. CASE Restart  BY <2>3, LostInv DEF StoreTypes, Restart
  <2>. QED  BY <2>1, <2>2, <2>3 DEF StoreNext, vars
<1>. QED  BY <1>1, <1>2, StoreTypesAlways, PTL DEF Spec

\* With the lock in Redis no server loads two versions of one mod, for any set of projects
\* and dependencies and any number of installs; servers whose install was interfered with
\* are left out.
THEOREM OneOfEach == Redis => (Spec => []OneVersionPerMod)
<1>. SUFFICES ASSUME Redis PROVE Spec => []OneVersionPerMod  OBVIOUS
<1>1. InstallInv => OneVersionPerMod  BY DEF InstallInv
<1>. QED  BY <1>1, InstallAlways, PTL

\* With the lock in Redis what the owner was told is installed is on the disk, whole.
THEOREM ToldThere == Redis => (Spec => []ToldIsInstalled)
<1>. SUFFICES ASSUME Redis PROVE Spec => []ToldIsInstalled  OBVIOUS
<1>1. InstallInv => ToldIsInstalled  BY DEF InstallInv
<1>. QED  BY <1>1, InstallAlways, PTL
=============================================================================
