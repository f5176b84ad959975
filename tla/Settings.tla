------------------------------ MODULE Settings ------------------------------
(***************************************************************************)
(* The settings of a server: mc_config of its row and server.properties on *)
(* its node (api/servers.py, api/files.py, minecraft/java_properties.py,   *)
(* agent.py).  A start writes the file from the row once and only the port *)
(* later; /properties, /config and the file editor write the same file     *)
(* without a lock.  server-port stands for the pair of a Bedrock server.   *)
(***************************************************************************)
EXTENDS StoreState

CONSTANTS
    Tuned,           \* the servers whose settings are followed
    Values,          \* values an owner gives a setting
    Default,         \* what the code falls back to, such as the name of the world
    Ports

ASSUME SettingsAssumption == Tuned \subseteq Servers /\ Default \notin Values

VARIABLES
    conf,     \* the settings in mc_config
    port,     \* vm_port
    props,    \* server.properties, or None
    part,     \* server.tmp beside it, or None
    draft,    \* the file as the owner's editor shows it, or None
    edit,     \* requests that write the file key by key
    mine,     \* what the owner was told is set, and has not asked to change since
    mixed     \* servers of which two writers of the file overlapped

setvars == <<conf, port, props, part, draft, edit, mine, mixed>>

Keys == {"name", "mode"}
Value == Values \cup {Default, None}
File == [Keys \cup {"port"} -> Value \cup Ports]
Empty == [k \in Keys \cup {"port"} |-> None]
Edit == [srv : Tuned, kind : {"start", "patch", "put"}, pc : {"look", "read", "write", "replace"},
         ask : (Keys \cup {"port"}) \X (Values \cup Ports), full : File, seen : File,
         todo : SUBSET ((Keys \cup {"port"}) \X (Value \cup Ports)),
         key : (Keys \cup {"port"}) \X (Value \cup Ports)]

ASSUME SettingsNames == None \notin Edit \cup File

SettingsInit ==
    /\ conf = [s \in Tuned |-> [k \in Keys |-> None]]
    /\ port \in [Tuned -> { p \in Ports : \A q \in Ports : p <= q }]
    /\ props = [s \in Tuned |-> None] /\ part = [s \in Tuned |-> None]
    /\ draft = [s \in Tuned |-> None]
    /\ edit = [r \in Requests |-> None]
    /\ mine = [s \in Tuned |-> [k \in Keys |-> None]]
    /\ mixed = {}

Editing(r, pc) == edit[r] # None /\ edit[r].pc = pc
Begun(s, kind, pc, ask, todo, full) ==
    [srv |-> s, kind |-> kind, pc |-> pc, ask |-> ask, full |-> full, seen |-> Empty,
     todo |-> todo, key |-> ask]
Starting(s, R) == \E q \in R : go[q] # None /\ go[q].srv = s
\* A request for setting k of server s is under way.
Asking(s, k, R) == \E q \in R : edit[q] # None /\ edit[q].srv = s /\ edit[q].ask[1] = k
Mix(s, b) == mixed' = IF b THEN mixed \cup {s} ELSE mixed
Tell(s, k, v) == mine' = IF k \in Keys THEN [mine EXCEPT ![s][k] = v] ELSE mine

-----------------------------------------------------------------------------
\* _java_server_properties_from_config, _server_props_from_config.
FromConfig(s) ==
    [k \in Keys \cup {"port"} |->
        IF k = "port" THEN port[s] ELSE IF conf[s][k] = None THEN Default ELSE conf[s][k]]

\* start_server sends the settings and the port of the row along.
StartProps(r, s) ==
    edit' = IF s \in Tuned
            THEN [edit EXCEPT ![r] = Begun(s, "start", "look", <<"port", port[s]>>, {},
                                           FromConfig(s))]
            ELSE edit

\* The agent: what a start makes of a file that is there.
\* Mutant: it is left as it is.
StartKeys_Keep(e) == {}
\* Mutant: it gets the settings of the row as well.
StartKeys_All(e) == { <<k, e.full[k]>> : k \in Keys \cup {"port"} }
StartKeys(e) == {<<"port", e.full["port"]>>}

Look(r) ==
    /\ Editing(r, "look") /\ go[r].pc \in {"jar", "dist"}
    /\ LET e == edit[r] IN
       IF props[e.srv] = None
       THEN /\ props' = [props EXCEPT ![e.srv] = e.full]
            /\ Mix(e.srv, Starting(e.srv, Requests \ {r}))
            /\ edit' = [edit EXCEPT ![r] = None]
       ELSE /\ edit' = [edit EXCEPT ![r] = IF StartKeys(e) = {} THEN None
                                           ELSE [e EXCEPT !.pc = "read", !.todo = StartKeys(e)]]
            /\ UNCHANGED <<props, mixed>>
    /\ UNCHANGED <<conf, port, part, draft, mine, want, go, run, asked>>

-----------------------------------------------------------------------------
\* PUT /properties: the agent sets each key; the row is left alone.
PutProperties(r, s, k, v) ==
    /\ Ask /\ edit[r] = None /\ go[r] = None
    /\ edit' = [edit EXCEPT ![r] = Begun(s, "put", "read", <<k, v>>, {<<k, v>>}, Empty)]
    /\ Tell(s, k, None)
    /\ UNCHANGED <<conf, port, props, part, draft, mixed, want, go, run>>

\* The keys PATCH /config writes for a running server: some of them always, with
\* the default when the request does not name them.
Always(s) == IF s \in JavaServers THEN Keys ELSE {"name"}
PatchKeys(s, k, v) == {<<k, v>>} \cup { <<o, Default>> : o \in Always(s) \ {k} }

\* PATCH /config: the row, and the file of a running server before the commit.
PatchConfig(r, s, k, v) ==
    /\ Ask /\ edit[r] = None /\ go[r] = None
    /\ IF run[s] # None
       THEN /\ edit' = [edit EXCEPT ![r] = Begun(s, "patch", "read", <<k, v>>, PatchKeys(s, k, v),
                                                 Empty)]
            /\ Tell(s, k, None)
            /\ UNCHANGED conf
       ELSE conf' = [conf EXCEPT ![s][k] = v] /\ UNCHANGED <<edit, mine>>
    /\ UNCHANGED <<port, props, part, draft, mixed, want, go, run>>

\* set_java_server_property, set_bedrock_server_property: read the file, an empty
\* one if there is none; write server.tmp, the same for all; rename it.
SetRead(r) ==
    /\ Editing(r, "read")
    /\ LET s == edit[r].srv
           c == IF props[s] = None THEN Empty ELSE props[s] IN
       /\ props' = [props EXCEPT ![s] = c]
       /\ \E k \in edit[r].todo :
             edit' = [edit EXCEPT ![r] = [edit[r] EXCEPT !.pc = "write", !.seen = c, !.key = k]]
    /\ UNCHANGED <<conf, port, part, draft, mine, mixed, want, go, run, asked>>

New(e) == [e.seen EXCEPT ![e.key[1]] = e.key[2]]
SetWrite(r) ==
    /\ Editing(r, "write")
    /\ part' = [part EXCEPT ![edit[r].srv] = New(edit[r])]
    /\ edit' = [edit EXCEPT ![r].pc = "replace"]
    /\ UNCHANGED <<conf, port, props, draft, mine, mixed, want, go, run, asked>>

\* The last key is written: /config commits the row, the owner is told.
Finish(r, e) ==
    /\ conf' = IF e.kind = "patch" THEN [conf EXCEPT ![e.srv][e.ask[1]] = e.ask[2]] ELSE conf
    /\ IF e.kind = "start" THEN UNCHANGED mine ELSE Tell(e.srv, e.ask[1], e.ask[2])
    /\ edit' = [edit EXCEPT ![r] = None]
    /\ UNCHANGED go
SetReplace(r) ==
    /\ Editing(r, "replace")
    /\ LET e == edit[r]
           left == e.todo \ {e.key} IN
       /\ part[e.srv] # None
       /\ props' = [props EXCEPT ![e.srv] = part[e.srv]]
       /\ part' = [part EXCEPT ![e.srv] = None]
       /\ Mix(e.srv, \/ props[e.srv] # e.seen \/ part[e.srv] # New(e)
                     \/ Starting(e.srv, Requests \ {r})
                     \/ Asking(e.srv, e.ask[1], Requests \ {r}))
       /\ IF left = {} THEN Finish(r, e)
          ELSE /\ edit' = [edit EXCEPT ![r].pc = "read", ![r].todo = left]
               /\ UNCHANGED <<conf, mine, go>>
    /\ UNCHANGED <<port, draft, want, run, asked>>

\* Another writer has renamed server.tmp: 503, and the row is not committed.
SetFails(r) ==
    /\ Editing(r, "replace") /\ part[edit[r].srv] = None
    /\ Mix(edit[r].srv, TRUE)
    /\ edit' = [edit EXCEPT ![r] = None]
    /\ go' = [go EXCEPT ![r] = None]
    /\ UNCHANGED <<conf, port, props, part, draft, mine, want, run, asked>>

-----------------------------------------------------------------------------
\* The file editor: read_file; write_file puts the text in place with one rename.
\* Nothing keeps the owner from changing server-port here.
Shown(s) == props[s]
Edited(s, k, v) == [draft[s] EXCEPT ![k] = v]
OpenFile(s) ==
    /\ props[s] # None /\ draft[s] = None
    /\ draft' = [draft EXCEPT ![s] = Shown(s)]
    /\ UNCHANGED <<conf, port, props, part, edit, mine, mixed, want, go, run, asked>>
SaveFile(s, k, v) ==
    /\ Ask /\ draft[s] # None
    /\ props' = [props EXCEPT ![s] = Edited(s, k, v)]
    /\ draft' = [draft EXCEPT ![s] = None]
    /\ Tell(s, k, v)
    /\ Mix(s, draft[s] # props[s] \/ Starting(s, Requests) \/ Asking(s, k, Requests))
    /\ UNCHANGED <<conf, port, part, edit, want, go, run>>

\* The control plane gives the server another port while it is down.
MovePort(s, p) ==
    /\ Ask /\ run[s] = None /\ port[s] # p
    /\ port' = [port EXCEPT ![s] = p]
    /\ UNCHANGED <<conf, props, part, draft, edit, mine, mixed, want, go, run>>

\* A start that ends before it came to the file takes its settings along.
DropEdit(r) ==
    /\ edit' = [edit EXCEPT ![r] = IF go'[r] = None THEN None ELSE edit[r]]
    /\ UNCHANGED <<conf, port, props, part, draft, mine, mixed>>

\* A restart of the agent: files stay as they are.
EditsLost ==
    /\ edit' = [r \in Requests |-> None]
    /\ UNCHANGED <<conf, port, props, part, draft, mine, mixed>>

SettingsNext ==
    \/ \E r \in Requests :
         \/ Look(r) \/ SetRead(r) \/ SetWrite(r) \/ SetReplace(r) \/ SetFails(r)
         \/ \E s \in Tuned, k \in Keys, v \in Values : PutProperties(r, s, k, v) \/ PatchConfig(r, s, k, v)
    \/ \E s \in Tuned :
         \/ OpenFile(s)
         \/ \E k \in Keys, v \in Values : SaveFile(s, k, v)
         \/ \E p \in Ports : SaveFile(s, "port", p) \/ MovePort(s, p)

-----------------------------------------------------------------------------
\* Settings the owner set in the file, with /properties, with the editor or with
\* /config while the server ran, stay there: starts, moves to other ports and
\* /config requests for other settings leave them alone.  Not the settings that
\* /config always writes, and not when writers overlapped.
SettingKept ==
    \A s \in Tuned \ mixed : \A k \in Keys \ Always(s) :
        mine[s][k] # None => props[s] # None /\ props[s][k] = mine[s][k]
=============================================================================
