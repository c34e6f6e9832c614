----------------------------- MODULE SystemConfig -----------------------------
(***************************************************************************)
(* The configurations of a process (SystemConfig of system_config): a map  *)
(* from names to configurations that threads fill on demand, and the host  *)
(* name that decides which files are read.  The threads get raw pointers;  *)
(* a configuration lives as long as it is in the map.                      *)
(***************************************************************************)
EXTENDS Naturals, Sequences

CONSTANTS
  ConfigNames,      \* the names operator[] is called with
  Hosts,            \* the host names
  OwnHost,          \* the one the environment names
  FilesThere,       \* the files that exist: <<place, name>>, the place a host or "global"
  MalformedFiles,   \* those of them whose constructor throws
  ConfigThreads,
  MaxLoaded         \* configurations loaded

VARIABLES
  configs,          \* name -> configuration
  hostname,
  loadedFrom,       \* the file of every configuration that was ever loaded
  client,           \* what each thread is doing
  overtaken,        \* history: threads that missed what another one has loaded since
  orphaned          \* history: threads that hold what was replaced or thrown away

registryVars == <<configs, hostname, loadedFrom, client, overtaken, orphaned>>

Client(doing, name, host, conf) == [doing |-> doing, name |-> name, host |-> host, conf |-> conf]
IdleClient == Client("idle", "", "", 0)

RegistryInit ==
  /\ configs = <<>> /\ hostname = OwnHost /\ loadedFrom = <<>>
  /\ client = [t \in ConfigThreads |-> IdleClient]
  /\ overtaken = {} /\ orphaned = {}

Holding == {t \in ConfigThreads : client[t].doing = "has"}
Loading(s) == {t \in ConfigThreads : client[t].doing \in {"missed", "opening"} /\ client[t].name = s}

\* operator[] that loads every time.
Find_Never(t, s) ==
  /\ client[t].doing = "idle"
  /\ client' = [client EXCEPT ![t] = Client("missed", s, "", 0)]
  /\ UNCHANGED <<configs, hostname, loadedFrom, overtaken, orphaned>>

\* The search under the lock.
Find(t, s) ==
  /\ client[t].doing = "idle"
  /\ client' = [client EXCEPT ![t] = IF s \in DOMAIN configs THEN Client("has", s, "", configs[s])
                                     ELSE Client("missed", s, "", 0)]
  /\ UNCHANGED <<configs, hostname, loadedFrom, overtaken, orphaned>>

\* The paths of the files are built without the lock.
BuildPaths(t) ==
  /\ client[t].doing = "missed"
  /\ client' = [client EXCEPT ![t] = Client("opening", client[t].name, hostname, 0)]
  /\ UNCHANGED <<configs, hostname, loadedFrom, overtaken, orphaned>>

\* The host's file if there is one, else the global one.
FileTried(t) ==
  LET own == <<client[t].host, client[t].name>>
  IN  IF own \in FilesThere THEN own ELSE <<"global", client[t].name>>

\* Under the lock again; what the map held is replaced.
Open(t) ==
  /\ client[t].doing = "opening" /\ FileTried(t) \in FilesThere \ MalformedFiles
  /\ Len(loadedFrom) < MaxLoaded
  /\ loadedFrom' = Append(loadedFrom, FileTried(t))
  /\ configs' = [s \in DOMAIN configs \cup {client[t].name} |->
                    IF s = client[t].name THEN Len(loadedFrom') ELSE configs[s]]
  /\ client' = [client EXCEPT ![t] = Client("has", client[t].name, "", Len(loadedFrom'))]
  /\ overtaken' = (overtaken \cup Loading(client[t].name)) \ {t}
  /\ orphaned' = IF t \in overtaken THEN orphaned \cup {u \in Holding : client[u].name = client[t].name}
                 ELSE orphaned
  /\ UNCHANGED hostname

ProcessEnds ==
  /\ client' = [t \in ConfigThreads |-> Client("ended", "", "", 0)]
  /\ overtaken' = {} /\ orphaned' = {}

\* The constructor throws a pointer, which no caller catches.
OpenFails(t) ==
  /\ client[t].doing = "opening" /\ FileTried(t) \in FilesThere \cap MalformedFiles
  /\ ProcessEnds
  /\ UNCHANGED <<configs, hostname, loadedFrom>>

\* The null pointer is returned; getRobotID dereferences it.
NotFound(t) ==
  /\ client[t].doing = "opening" /\ FileTried(t) \notin FilesThere
  /\ IF client[t].name = "Globals" THEN ProcessEnds
     ELSE /\ client' = [client EXCEPT ![t] = IdleClient]
          /\ overtaken' = overtaken \ {t}
          /\ UNCHANGED orphaned
  /\ UNCHANGED <<configs, hostname, loadedFrom>>

\* The thread has read what it wanted and forgets the pointer.
Done(t) ==
  /\ client[t].doing = "has"
  /\ client' = [client EXCEPT ![t] = IdleClient]
  /\ orphaned' = orphaned \ {t}
  /\ UNCHANGED <<configs, hostname, loadedFrom, overtaken>>

\* Without the lock; taken as one step. Whatever was handed out is deleted.
SetHostname(t, h) ==
  /\ client[t].doing = "idle"
  /\ hostname' = h /\ configs' = <<>>
  /\ orphaned' = Holding
  /\ UNCHANGED <<loadedFrom, client, overtaken>>
ResetHostname(t) == SetHostname(t, OwnHost)

RegistryNext ==
  \E t \in ConfigThreads :
    \/ \E s \in ConfigNames : Find(t, s)
    \/ BuildPaths(t) \/ Open(t) \/ OpenFails(t) \/ NotFound(t) \/ Done(t)
    \/ \E h \in Hosts : SetHostname(t, h)
    \/ ResetHostname(t)

RegistrySpec == RegistryInit /\ [][RegistryNext]_registryVars

\* The pointer of thread t is to the configuration the map holds: it was not deleted, and a
\* change made through it is seen by everybody.
Alive(t) == client[t].name \in DOMAIN configs /\ configs[client[t].name] = client[t].conf

\* A pointer that operator[] returned stays alive until its holder is done with it, but for the
\* two ways in which the code kills one: the host name is changed, or a thread loads the name that
\* had missed it in the map before another thread put it there. Those two always kill it.
HandedOutAlive == \A t \in Holding : Alive(t) <=> t \notin orphaned

\* operator[] returns "the demanded configuration" (SystemConfig.cpp, line 97), and its holder may
\* read it.
PointersValid == \A t \in Holding : Alive(t)

=============================================================================
