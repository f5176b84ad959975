----------------------------- MODULE StoreState -----------------------------
(***************************************************************************)
(* What the mods and the game software of a node have in common: the       *)
(* servers and their rows, and the handlers that work for them.            *)
(***************************************************************************)
EXTENDS Naturals

CONSTANTS
    Servers,
    JavaServers,     \* the servers of a Java flavor; the others are Bedrock
    Flavors,         \* the flavors with a software provider: Vanilla, Paper, Purpur
    PluginFlavors,   \* those whose plugins/ directory is managed: Paper, Purpur
    Releases,        \* versions of the game, Java's and Bedrock's alike
    Stock,           \* flavor and version of each server at first
    Requests,        \* handlers of the control plane
    MaxRequests,     \* bound on the requests of the owners and the agent's restarts
    None

ASSUME StoreAssumption ==
    /\ JavaServers \subseteq Servers /\ PluginFlavors \subseteq Flavors
    /\ Stock \in [Servers -> [flavor : Flavors, ver : Releases]]
    /\ MaxRequests \in Nat

VARIABLES
    want,     \* flavor and version of a server's row
    go,       \* starts under way on the agent
    run,      \* what a server's process was started from: [flavor, ver, whole, there]
    asked     \* requests and restarts so far

Ask == asked < MaxRequests /\ asked' = asked + 1
=============================================================================
