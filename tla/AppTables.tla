------------------------------ MODULE AppTables ------------------------------
(***************************************************************************)
(* From the library of applications to the call table of a request: the    *)
(* AppLoader, the cache of the AppIndex, and the AppTable that lets a      *)
(* request call what it has declared.                                      *)
(***************************************************************************)
EXTENDS OrderedMaps

CONSTANT Library    \* what the library has of an application: its shared object, a
                    \* shared object without a dispatcher, its source, or nothing

ASSUME AppTablesAssumption ==
    \A app \in DOMAIN Library :
        app # 0 /\ Library[app] \in {"object", "noDispatcher", "source", "nothing"}

Null == 0    \* nullptr; a dispatcher is named by its application

\* AppLoader::load opens the shared object, or has it compiled, and looks for the
\* dispatcher.  It throws a runtime_error otherwise.
Loads(app) == Library[app] \in {"object", "source"}

\* What prepareApps caches for it: the dispatcher, or a null pointer.
Dispatcher(app) == IF Loads(app) THEN app ELSE Null

Listed(apps) == {apps[i] : i \in DOMAIN apps}

\* AppIndex::prepareApps loads what is not in the cache yet.
PrepareApps(cache, apps) ==
    [app \in DOMAIN cache \cup Listed(apps) |->
        IF app \in DOMAIN cache THEN cache[app] ELSE Dispatcher(app)]

\* AppIndex::buildAppTable throws a BlockError for an application that is not cached.
CanBuild(cache, sortedApps) == Listed(sortedApps) \subseteq DOMAIN cache

BuildAppTable(cache, sortedApps) ==
    [keys |-> sortedApps, values |-> [i \in DOMAIN sortedApps |-> cache[sortedApps[i]]]]

\* AppTable::checkApp
CheckApp(table, app) ==
    LET at == Find(table.keys, app)
    IN  CASE at = NotFound -> "limit_violated"
          [] at # NotFound /\ table.values[at] = Null -> "not_found"
          [] at # NotFound /\ table.values[at] # Null -> "ok"
==============================================================================
