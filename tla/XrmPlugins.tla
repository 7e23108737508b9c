------------------------------ MODULE XrmPlugins ------------------------------
(***************************************************************************)
(* The table of plugins (m_xrmPluginList): administrators load and unload  *)
(* them, several with one command, and clients execute their functions by  *)
(* name.  Loading opens a library and looks up a symbol in it; unloading   *)
(* forgets the entry (the library is not closed).                          *)
(***************************************************************************)
EXTENDS SequencesExt, Integers

CONSTANTS
    Plugins,        \* the plugins there are: a name and what it stands for
    NoPlugin,       \* no name
    MaxPlugins,     \* XRM_MAX_PLUGIN_NUM
    LoadBatches,    \* the plugins of a load command, in order
    UnloadBatches   \* the names of an unload command, in order

ASSUME PluginAssumption ==
    /\ \A plugin \in Plugins : plugin.name # NoPlugin
    /\ MaxPlugins \in Nat \ {0}
    /\ LoadBatches \subseteq Seq(Plugins)
    /\ UnloadBatches \subseteq Seq({plugin.name : plugin \in Plugins})

VARIABLES
    xrmPluginList,  \* m_xrmPluginList
    numXrmPlugin    \* m_numXrmPlugin

pluginVars == <<xrmPluginList, numXrmPlugin>>

Blank == [name |-> NoPlugin, data |-> NoPlugin]

PluginInit ==
    /\ xrmPluginList = [i \in 0 .. MaxPlugins - 1 |-> Blank]
    /\ numXrmPlugin = 0

Table == [ok |-> TRUE, list |-> xrmPluginList, num |-> numXrmPlugin]

LoadedAt(table, name) == {i \in 0 .. table.num - 1 : table.list[i].name = name}

----------------------------------------------------------------------------
(* loadOneXrmPlugin; usable: the libraries that can be opened, have the    *)
(* symbol, and are of the right version.                                   *)
LoadOne(table, plugin, usable) ==
    IF /\ table.ok
       /\ table.num < MaxPlugins
       /\ LoadedAt(table, plugin.name) = {}
       /\ plugin \in usable
    THEN [table EXCEPT !.list[table.num] = plugin, !.num = @ + 1]
    ELSE [table EXCEPT !.ok = FALSE]

(* Mutant: the name and file are moved forward, the functions are not. *)
UnloadedByName(table, name) ==
    LET last == table.num - 1
        place == CHOOSE i \in LoadedAt(table, name) : TRUE
    IN  IF ~table.ok \/ LoadedAt(table, name) = {}
        THEN [table EXCEPT !.ok = FALSE]
        ELSE [table EXCEPT
                !.list = [i \in DOMAIN @ |-> IF i = last THEN Blank
                                             ELSE IF i < place \/ i > last THEN @[i]
                                             ELSE [@[i] EXCEPT !.name = table.list[i + 1].name]],
                !.num = last]

(* unloadOneXrmPlugin: the slots behind are moved forward, the last is     *)
(* cleared.                                                                *)
UnloadOne(table, name) ==
    LET last == table.num - 1
        place == CHOOSE i \in LoadedAt(table, name) : TRUE
    IN  IF ~table.ok \/ LoadedAt(table, name) = {}
        THEN [table EXCEPT !.ok = FALSE]
        ELSE [table EXCEPT
                !.list = [i \in DOMAIN @ |-> IF i = last THEN Blank
                                             ELSE IF i < place \/ i > last THEN @[i]
                                             ELSE @[i + 1]],
                !.num = last]

(* A command stops at the first plugin that fails; those before it stay    *)
(* loaded or unloaded.                                                     *)
LoadXrmPlugins(batch, usable) ==
    LET end == FoldLeft(LAMBDA table, plugin : LoadOne(table, plugin, usable), Table, batch)
    IN  /\ xrmPluginList' = end.list
        /\ numXrmPlugin' = end.num

UnloadXrmPlugins(batch) ==
    LET end == FoldLeft(LAMBDA table, name : UnloadOne(table, name), Table, batch)
    IN  /\ xrmPluginList' = end.list
        /\ numXrmPlugin' = end.num

PluginNext ==
    \/ \E batch \in LoadBatches, usable \in SUBSET Plugins : LoadXrmPlugins(batch, usable)
    \/ \E batch \in UnloadBatches : UnloadXrmPlugins(batch)

(* execXrmPluginFunc runs a function of the first plugin of that name; the *)
(* command does not take the lock.                                         *)
ExecXrmPluginFunc(name) ==
    IF LoadedAt(Table, name) = {} THEN NoPlugin
    ELSE xrmPluginList[CHOOSE i \in LoadedAt(Table, name) :
                          \A j \in LoadedAt(Table, name) : i <= j].data

----------------------------------------------------------------------------
(* Properties.                                                             *)

(* What a client executes under a name stays the same library's, while     *)
(* others come and go around it in the table, until an administrator       *)
(* unloads it by name.                                                     *)
PluginsKept ==
    [][\A name \in {plugin.name : plugin \in Plugins} :
          \/ ExecXrmPluginFunc(name) = NoPlugin
          \/ ExecXrmPluginFunc(name)' = ExecXrmPluginFunc(name)
          \/ \E batch \in UnloadBatches : UnloadXrmPlugins(batch) /\ name \in ToSet(batch)
      ]_pluginVars

=============================================================================
