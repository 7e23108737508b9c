----------------------------- MODULE MCXrmBlocking -----------------------------
(***************************************************************************)
(* The sessions of two contexts, whose applications block, while           *)
(* administrators load and unload plugins: both in the one thread that     *)
(* handles requests.                                                       *)
(***************************************************************************)
EXTENDS XrmBlocking, XrmPlugins

CONSTANTS a, b, p1, p2, lib1, lib2, lib3

TwoConns == {a, b}

(* Two libraries that provide a plugin of the same name, and a third. *)
First == [name |-> p1, data |-> lib1]
Second == [name |-> p2, data |-> lib2]
Rival == [name |-> p1, data |-> lib3]

MCPlugins == {First, Second, Rival}

MCLoadBatches == {<<First, Second>>, <<Rival>>, <<Second, Rival>>}

MCUnloadBatches == {<<p1>>, <<p2, p1>>}

DaemonInit == BlockingInit /\ PluginInit

DaemonNext ==
    \/ BlockingNext /\ UNCHANGED pluginVars
    \/ PluginNext /\ UNCHANGED blockingVars

DaemonSpec ==
    DaemonInit /\ [][DaemonNext]_<<blockingVars, pluginVars>> /\ BlockingFairness
=============================================================================
