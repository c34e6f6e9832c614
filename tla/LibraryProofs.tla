--------------------------- MODULE LibraryProofs ---------------------------
(***************************************************************************)
(* Theorems about the libraries the other parts share, event_handling      *)
(* (AutoResetEvent, Timer and NotifyTimer) and system_config               *)
(* (SystemConfig), for any set of threads, of condition variables, of      *)
(* configuration names, of hosts and of files.                             *)
(***************************************************************************)
EXTENDS AutoResetEvent, Timer, NotifyTimer, SystemConfig, SequenceTheorems, TLAPS

-----------------------------------------------------------------------------
(* AutoResetEvent. The flag is credit for one more release.                *)

EventInv == EventTypeOK /\ NoWakeupLost /\ OneReleasePerSet

LEMMA PassOrBlockKeepsInv ==
  ASSUME EventInv, NEW w \in Waiters, NEW counted \in {0, 1}, PassOrBlock(w, counted)
  PROVE  EventInv'
<1>0. EventTypeOK /\ OneReleasePerSet
  BY DEF EventInv
<1>1. CASE flag
  <2>1. /\ flag' = FALSE /\ sets' = sets /\ releases' = releases + 1
        /\ waitingThread' = waitingThread + counted + 1
        /\ waiter' = [waiter EXCEPT ![w] = "outside"]
    BY <1>1 DEF PassOrBlock
  <2>2. NoWakeupLost'
    BY <2>1 DEF NoWakeupLost
  <2>6. waiter' \in [Waiters -> {"outside", "blocked", "notified"}]
    BY <1>0, <2>1 DEF EventTypeOK
  <2>8. waitingThread' \in Nat /\ releases' \in Nat /\ sets' \in Nat
    BY <1>0, <2>1 DEF EventTypeOK
  <2>7. EventTypeOK'
    BY <2>1, <2>6, <2>8, Zenon DEF EventTypeOK
  <2>3. releases + 1 <= sets
    BY <1>0, <1>1 DEF EventTypeOK, OneReleasePerSet
  <2>4. OneReleasePerSet'
    BY <1>0, <2>1, <2>3 DEF EventTypeOK, OneReleasePerSet
  <2>5. QED
    BY <2>2, <2>4, <2>7 DEF EventInv
<1>2. CASE ~flag
  <2>1. /\ UNCHANGED <<flag, sets, releases>> /\ waitingThread' = waitingThread + counted
        /\ waiter' = [waiter EXCEPT ![w] = "blocked"]
    BY <1>2 DEF PassOrBlock
  <2>2. EventTypeOK'
    BY <1>0, <2>1 DEF EventTypeOK
  <2>3. NoWakeupLost' /\ OneReleasePerSet'
    BY <1>0, <1>2, <2>1 DEF NoWakeupLost, OneReleasePerSet
  <2>4. QED
    BY <2>2, <2>3 DEF EventInv
<1>3. QED
  BY <1>1, <1>2

LEMMA EventStep == EventInv /\ [EventNext]_eventVars => EventInv'
<1> SUFFICES ASSUME EventInv, [EventNext]_eventVars PROVE EventInv'
  OBVIOUS
<1>1. CASE SetEvent
  <2>1. CASE Blocked = {}
    BY <1>1, <2>1 DEF SetEvent, EventInv, EventTypeOK, NoWakeupLost, OneReleasePerSet, Blocked
  <2>2. CASE Blocked # {}
    <3>1. PICK w \in Waiters : waiter' = [waiter EXCEPT ![w] = "notified"]
      BY <1>1, <2>2 DEF SetEvent, Blocked
    <3>2. waiter'[w] = "notified"
      BY <3>1 DEF EventInv, EventTypeOK
    <3>3. QED
      BY <1>1, <3>1, <3>2 DEF SetEvent, EventInv, EventTypeOK, NoWakeupLost, OneReleasePerSet
  <2>3. QED
    BY <2>1, <2>2
<1>2. CASE ResetEvent
  <2>1. flag' = FALSE /\ UNCHANGED <<waitingThread, waiter, sets, releases>>
    BY <1>2 DEF ResetEvent
  <2>2. EventTypeOK' /\ NoWakeupLost'
    BY <2>1, Zenon DEF EventInv, EventTypeOK, NoWakeupLost
  <2>3. releases <= sets
    BY DEF EventInv, EventTypeOK, OneReleasePerSet
  <2>4. OneReleasePerSet'
    BY <2>1, <2>3 DEF EventInv, EventTypeOK, OneReleasePerSet
  <2>5. QED
    BY <2>2, <2>4 DEF EventInv
<1>3. ASSUME NEW w \in Waiters, WaitOne(w) \/ Resume(w) PROVE EventInv'
  BY <1>3, PassOrBlockKeepsInv DEF WaitOne, Resume
<1>4. ASSUME NEW w \in Waiters, WakeSpuriously(w) PROVE EventInv'
  <2>1. waiter'[w] = "notified"
    BY <1>4 DEF WakeSpuriously, EventInv, EventTypeOK
  <2>2. QED
    BY <1>4, <2>1 DEF WakeSpuriously, EventInv, EventTypeOK, NoWakeupLost, OneReleasePerSet
<1>5. CASE UNCHANGED eventVars
  BY <1>5 DEF eventVars, EventInv, EventTypeOK, NoWakeupLost, OneReleasePerSet, Blocked
<1>6. QED
  BY <1>1, <1>2, <1>3, <1>4, <1>5 DEF EventNext

LEMMA EventInvHolds == EventSpec => []EventInv
<1>1. EventInit => EventInv
  BY DEF EventInit, EventInv, EventTypeOK, NoWakeupLost, OneReleasePerSet, Blocked
<1>2. QED
  BY <1>1, EventStep, PTL DEF EventSpec

\* While the event is set and threads are blocked in waitOne, one of them has been woken up.
THEOREM WakeupsAreKept == EventSpec => []NoWakeupLost
BY EventInvHolds, PTL DEF EventInv

\* However set, reset and waitOne interleave, set lets at most one thread pass each time.
THEOREM SetReleasesOne == EventSpec => []OneReleasePerSet
BY EventInvHolds, PTL DEF EventInv

-----------------------------------------------------------------------------
(* Timer. After stop the thread may only be on its way to one more firing. *)

LateInv ==
  /\ started \in BOOLEAN /\ running \in BOOLEAN
  /\ owner \in {"idle", "starting", "dtorFlag"} => started = TRUE
  /\ late # NotStopped => owner = "idle" /\ running = FALSE
  /\ late \in {NotStopped, 0, 1}
  /\ late = 1 => thread \notin {"check", "fire"}

LEMMA OwnerKeepsLateInv == LateInv /\ Owner => LateInv'
<1> SUFFICES ASSUME LateInv, Owner PROVE LateInv'
  OBVIOUS
<1> USE DEF LateInv, NotStopped
<1>1. ASSUME NEW cv \in CVs, registerCV(cv) PROVE LateInv'
  BY <1>1 DEF registerCV
<1>2. CASE start
  BY <1>2 DEF start
<1>3. CASE NotifyStart
  BY <1>3 DEF NotifyStart, Notify
<1>4. CASE stop
  <2>1. owner = "idle" /\ running' = FALSE /\ late' = 0
        /\ UNCHANGED <<started, thread, owner>>
    BY <1>4 DEF stop
  <2>2. late' # 1 /\ late' \in {NotStopped, 0, 1}
    BY <2>1
  <2>3. QED
    BY <2>1, <2>2, Zenon
<1>5. CASE DestroyRunning
  <2>1. running' = TRUE /\ owner' = "dtorFlag" /\ late' = NotStopped /\ UNCHANGED started
        /\ owner = "idle"
    BY <1>5 DEF DestroyRunning
  <2>2. late' # 1
    BY <2>1
  <2>3. QED
    BY <2>1, <2>2, Zenon
<1>8. CASE DestroyStarted
  <2>1. started' = FALSE /\ owner' = "dtorNotify" /\ late = NotStopped
        /\ UNCHANGED <<running, late>>
    BY <1>8 DEF DestroyStarted
  <2>2. late # 1
    BY <2>1
  <2>3. QED
    BY <2>1, <2>2, Zenon
<1>9. CASE DestroyJoin
  BY <1>9 DEF DestroyJoin
<1>6. CASE DestroyNotify
  BY <1>6 DEF DestroyNotify, Notify
<1>7. QED
  BY <1>1, <1>2, <1>3, <1>4, <1>5, <1>6, <1>8, <1>9 DEF Owner

LEMMA ThreadKeepsLateInv == LateInv /\ (RunThread \/ WakeUpSpuriously) => LateInv'
<1> SUFFICES ASSUME LateInv, RunThread \/ WakeUpSpuriously PROVE LateInv'
  OBVIOUS
<1> USE DEF LateInv, NotStopped
<1>1. CASE EvaluatePredicate
  BY <1>1 DEF EvaluatePredicate, Step, OwnerVars
<1>2. CASE Fire
  BY <1>2 DEF Fire, Step, OwnerVars, MaxLate
<1>3. CASE CheckStarted
  BY <1>3 DEF CheckStarted, Step, OwnerVars
<1>4. CASE Delay \/ TestStarted \/ Block \/ Pause \/ WakeUpSpuriously
  BY <1>4 DEF Delay, TestStarted, Block, Pause, WakeUpSpuriously, Step, OwnerVars
<1>5. QED
  BY <1>1, <1>2, <1>3, <1>4 DEF RunThread

\* Once stop has returned, the timer notifies at most once more before start is called.
THEOREM StopIsPrompt == TimerSpec => []AtMostOneLateFiring
<1>1. TimerInit => LateInv
  BY DEF TimerInit, LateInv, NotStopped
<1>2. LateInv /\ [TimerNext]_timerVars => LateInv'
  <2>1. LateInv /\ UNCHANGED timerVars => LateInv'
    BY DEF LateInv, timerVars
  <2>2. QED
    BY <2>1, OwnerKeepsLateInv, ThreadKeepsLateInv DEF TimerNext
<1>3. LateInv => AtMostOneLateFiring
  BY DEF LateInv, AtMostOneLateFiring, NotStopped, MaxLate
<1>4. QED
  BY <1>1, <1>2, <1>3, PTL DEF TimerSpec

-----------------------------------------------------------------------------
(* NotifyTimer. start, which alone lets the thread call, comes after the   *)
(* constructor has stored the callee; the destructor joins.                *)

CalleeInv ==
  /\ user \in {"thread", "callee", "idle", "dtorStarted", "joining", "destroyed"}
  /\ user \notin {"thread", "callee"} => callee = TRUE
  /\ nRunning \in BOOLEAN /\ (nRunning => callee)
  /\ runner \in {"call", "calling"} => callee
  /\ user = "thread" => runner = "none"
  /\ user = "destroyed" => runner = "ended"

LEMMA CalleeStep == CalleeInv /\ [NotifyNext]_notifyVars => CalleeInv'
<1> SUFFICES ASSUME CalleeInv, [NotifyNext]_notifyVars PROVE CalleeInv'
  OBVIOUS
<1> USE DEF CalleeInv
<1>1. CASE CreateThread
  BY <1>1 DEF CreateThread
<1>2. CASE StoreCallee
  BY <1>2 DEF StoreCallee
<1>3. CASE StartCalls \/ StopCalls
  BY <1>3 DEF StartCalls, StopCalls
<1>4. CASE ClearRunning \/ ClearStarted
  BY <1>4 DEF ClearRunning, ClearStarted
<1>5. CASE JoinRunner
  BY <1>5 DEF JoinRunner
<1>6. CASE RunNotifyTimer
  <2>1. CASE ReadRunning
    BY <2>1 DEF ReadRunning, Run
  <2>2. CASE Call \/ Return \/ SleepOver
    BY <2>2 DEF Call, Return, SleepOver, Run
  <2>3. CASE TestLoop \/ CheckLoop
    BY <2>3 DEF TestLoop, CheckLoop, Run
  <2>4. QED
    BY <1>6, <2>1, <2>2, <2>3 DEF RunNotifyTimer
<1>7. CASE UNCHANGED notifyVars
  BY <1>7 DEF notifyVars
<1>8. QED
  BY <1>1, <1>2, <1>3, <1>4, <1>5, <1>6, <1>7 DEF NotifyNext

\* The thread of a NotifyTimer never uses a callback that is not stored, and none is under way
\* when the destructor has returned.
THEOREM CalleeIsAlive == NotifySpec => []CallsWhileAlive
<1>1. NotifyInit => CalleeInv
  BY DEF NotifyInit, CalleeInv
<1>2. CalleeInv => CallsWhileAlive
  BY DEF CalleeInv, CallsWhileAlive
<1>3. QED
  BY <1>1, <1>2, CalleeStep, PTL DEF NotifySpec

-----------------------------------------------------------------------------
(* SystemConfig. The map of configurations.                                *)

Names == ConfigNames \cup {""}      \* an idle thread has no name

Clients == [doing : {"idle", "missed", "opening", "has", "ended"}, name : Names,
            host : Hosts \cup {OwnHost, ""}, conf : Nat]

RegistryTypeOK ==
  /\ client \in [ConfigThreads -> Clients]
  /\ hostname \in Hosts \cup {OwnHost}
  /\ loadedFrom \in Seq(FilesThere)
  /\ orphaned \subseteq Holding

\* Nothing that is held or in the map is newer than the newest load, a thread that is still
\* loading what is in the map was overtaken, and only the orphaned pointers are dead.
RegistryInv ==
  /\ RegistryTypeOK
  /\ \A s \in DOMAIN configs : configs[s] \in 1 .. Len(loadedFrom)
  /\ \A t \in Holding : client[t].conf \in 1 .. Len(loadedFrom)
  /\ \A s \in DOMAIN configs : Loading(s) \subseteq overtaken
  /\ HandedOutAlive

LEMMA FindStep ==
  ASSUME RegistryInv, NEW t \in ConfigThreads, NEW n \in ConfigNames, Find(t, n)
  PROVE  RegistryInv'
<1> DEFINE got == IF n \in DOMAIN configs THEN Client("has", n, "", configs[n]) ELSE Client("missed", n, "", 0)
<1>1. /\ client' = [client EXCEPT ![t] = got] /\ client[t].doing = "idle"
      /\ UNCHANGED <<configs, hostname, loadedFrom, overtaken, orphaned>>
  BY DEF Find
<1>2. /\ got \in Clients /\ got.doing # "idle" /\ got.doing # "opening" /\ got.name = n
      /\ n \in DOMAIN configs => got.doing = "has" /\ got.conf = configs[n] /\ got.conf \in 1 .. Len(loadedFrom)
      /\ n \notin DOMAIN configs => got.doing = "missed"
  <2>1. Len(loadedFrom) \in Nat
    BY DEF RegistryInv, RegistryTypeOK
  <2>2. CASE n \in DOMAIN configs
    <3>1. got = Client("has", n, "", configs[n]) /\ configs[n] \in 1 .. Len(loadedFrom)
      BY <2>2 DEF RegistryInv
    <3> DEFINE c == configs[n]
    <3>2. got = Client("has", n, "", c)
      BY <3>1
    <3>a. c \in 1 .. Len(loadedFrom)
      BY <3>1
    <3> HIDE DEF got, c
    <3>3. c \in Nat
      BY <2>1, <3>a
    <3>4. Client("has", n, "", c) \in Clients
      BY <3>3 DEF Clients, Names, Client
    <3>5. got.doing = "has" /\ got.name = n /\ got.conf = c
      BY <3>2 DEF Client
    <3>6. QED
      BY <2>2, <3>2, <3>a, <3>4, <3>5 DEF c
  <2>3. CASE n \notin DOMAIN configs
    BY <2>3 DEF Clients, Names, Client
  <2>4. QED
    BY <2>2, <2>3
<1> HIDE DEF got
<1>3. /\ client' \in [ConfigThreads -> Clients] /\ client'[t] = got
      /\ \A u \in ConfigThreads \ {t} : client'[u] = client[u]
  BY <1>1, <1>2 DEF RegistryInv, RegistryTypeOK
<1>4. RegistryTypeOK'
  BY <1>1, <1>3 DEF RegistryInv, RegistryTypeOK, Holding
<1>5. \A u \in Holding' : client'[u].conf \in 1 .. Len(loadedFrom)
  BY <1>2, <1>3 DEF RegistryInv, Holding
<1>6. \A s \in DOMAIN configs : Loading(s)' \subseteq overtaken
  BY <1>2, <1>3 DEF RegistryInv, Loading
<1>7. HandedOutAlive'
  BY <1>1, <1>2, <1>3 DEF RegistryInv, RegistryTypeOK, HandedOutAlive, Holding, Alive
<1>8. QED
  BY <1>1, <1>4, <1>5, <1>6, <1>7 DEF RegistryInv

LEMMA OpenStep ==
  ASSUME RegistryInv, NEW t \in ConfigThreads, Open(t)
  PROVE  RegistryInv'
<1> DEFINE n == client[t].name
           new == Len(loadedFrom')
           got == Client("has", n, "", new)
<1>1. /\ client[t].doing = "opening" /\ UNCHANGED hostname
      /\ loadedFrom' = Append(loadedFrom, FileTried(t)) /\ FileTried(t) \in FilesThere
      /\ configs' = [s \in DOMAIN configs \cup {n} |-> IF s = n THEN new ELSE configs[s]]
      /\ client' = [client EXCEPT ![t] = got]
      /\ overtaken' = (overtaken \cup Loading(n)) \ {t}
      /\ orphaned' = IF t \in overtaken THEN orphaned \cup {u \in Holding : client[u].name = n} ELSE orphaned
  BY DEF Open
<1>2. loadedFrom' \in Seq(FilesThere) /\ Len(loadedFrom) \in Nat /\ new = Len(loadedFrom) + 1
  <2>1. loadedFrom \in Seq(FilesThere)
    BY DEF RegistryInv, RegistryTypeOK
  <2>2. Append(loadedFrom, FileTried(t)) \in Seq(FilesThere)
        /\ Len(Append(loadedFrom, FileTried(t))) = Len(loadedFrom) + 1
    BY <1>1, <2>1, AppendProperties
  <2>3. Len(loadedFrom) \in Nat
    BY <2>1
  <2>4. QED
    BY <1>1, <2>2, <2>3
<1> HIDE DEF new
<1>3. got \in Clients /\ got.doing = "has" /\ got.name = n /\ got.conf = new
  <2>1. n \in Names
    BY DEF RegistryInv, RegistryTypeOK, Clients
  <2>a. new \in Nat
    BY <1>2
  <2> HIDE DEF n
  <2>2. Client("has", n, "", new) \in Clients
    BY <2>1, <2>a DEF Clients, Client
  <2>3. QED
    BY <2>2 DEF Client
<1> HIDE DEF got
<1>4. /\ client' \in [ConfigThreads -> Clients] /\ client'[t] = got
      /\ \A u \in ConfigThreads \ {t} : client'[u] = client[u]
  BY <1>1, <1>3 DEF RegistryInv, RegistryTypeOK
<1>5. Holding' = Holding \cup {t} /\ t \notin Holding /\ t \in Loading(n)
  BY <1>1, <1>3, <1>4 DEF Holding, Loading
<1>6. RegistryTypeOK'
  BY <1>1, <1>2, <1>4, <1>5 DEF RegistryInv, RegistryTypeOK
<1>7. /\ \A s \in DOMAIN configs' : configs'[s] \in 1 .. new
      /\ \A u \in Holding' : client'[u].conf \in 1 .. new
  BY <1>1, <1>2, <1>3, <1>4, <1>5 DEF RegistryInv
<1>8. ASSUME NEW s \in DOMAIN configs', NEW u \in Loading(s)'
      PROVE  u \in overtaken'
  <2>1. u # t /\ u \in Loading(s)
    BY <1>3, <1>4 DEF Loading
  <2>2. QED
    BY <1>1, <2>1 DEF RegistryInv
<1>9. ASSUME NEW u \in Holding'
      PROVE  Alive(u)' <=> u \notin orphaned'
  <2>1. CASE u = t
    BY <1>1, <1>3, <1>4, <1>5, <2>1 DEF RegistryInv, RegistryTypeOK, Alive
  <2>2. CASE u # t /\ client[u].name # n
    BY <1>1, <1>4, <1>5, <2>2 DEF RegistryInv, HandedOutAlive, Alive
  <2>3. CASE u # t /\ client[u].name = n
    <3>1. u \in Holding /\ client'[u] = client[u] /\ client[u].conf # new
      BY <1>2, <1>4, <1>5, <2>3 DEF RegistryInv, Holding
    <3>2. ~Alive(u)'
      BY <1>1, <2>3, <3>1 DEF Alive
    <3>3. CASE t \in overtaken
      BY <1>1, <2>3, <3>1, <3>2, <3>3
    <3>4. CASE t \notin overtaken
      <4>1. n \notin DOMAIN configs
        BY <1>5, <3>4 DEF RegistryInv
      <4>2. u \in orphaned
        BY <2>3, <3>1, <4>1 DEF RegistryInv, HandedOutAlive, Alive
      <4>3. QED
        BY <1>1, <3>2, <3>4, <4>2
    <3>5. QED
      BY <3>3, <3>4
  <2>4. QED
    BY <2>1, <2>2, <2>3
<1>10. QED
  BY <1>6, <1>7, <1>8, <1>9 DEF RegistryInv, HandedOutAlive, new

\* The steps that neither begin to load nor hand out a pointer.
LEMMA OtherSteps ==
  ASSUME RegistryInv, NEW t \in ConfigThreads,
         BuildPaths(t) \/ OpenFails(t) \/ NotFound(t) \/ Done(t)
  PROVE  RegistryInv'
<1> DEFINE Quiet(u) == \/ client'[u] = client[u]
                       \/ client'[u].doing \in {"idle", "ended"}
                       \/ client'[u].doing = "opening" /\ client[u].doing = "missed" /\ client'[u].name = client[u].name
<1>1. /\ UNCHANGED <<configs, hostname, loadedFrom>>
      /\ client' \in [ConfigThreads -> Clients] /\ \A u \in ConfigThreads : Quiet(u)
      /\ \A u \in Holding' : u \in orphaned' <=> u \in orphaned
      /\ orphaned' \subseteq Holding'
      /\ \A u \in ConfigThreads : client'[u].doing \in {"missed", "opening"} /\ u \in overtaken => u \in overtaken'
  <2>1. CASE BuildPaths(t)
    <3>1. client[t].name \in Names /\ hostname \in Hosts \cup {OwnHost}
      BY DEF RegistryInv, RegistryTypeOK, Clients
    <3>2. Client("opening", client[t].name, hostname, 0) \in Clients
      BY <3>1 DEF Clients, Client
    <3>3. QED
      BY <2>1, <3>2 DEF BuildPaths, RegistryInv, RegistryTypeOK, Holding, Client
  <2>2. CASE ProcessEnds /\ UNCHANGED <<configs, hostname, loadedFrom>>
    BY <2>2 DEF ProcessEnds, Clients, Names, Client, Holding
  <2>3. CASE /\ client' = [client EXCEPT ![t] = IdleClient] /\ client[t].doing = "opening"
             /\ overtaken' = overtaken \ {t} /\ UNCHANGED <<configs, hostname, loadedFrom, orphaned>>
    BY <2>3 DEF RegistryInv, RegistryTypeOK, Clients, Names, Client, IdleClient, Holding
  <2>4. CASE Done(t)
    BY <2>4 DEF Done, RegistryInv, RegistryTypeOK, Clients, Names, Client, IdleClient, Holding
  <2>5. QED
    BY <2>1, <2>2, <2>3, <2>4 DEF OpenFails, NotFound
<1>2. /\ \A u \in Holding' : u \in Holding /\ client'[u] = client[u]
      /\ \A s \in DOMAIN configs : Loading(s)' \subseteq Loading(s)
  BY <1>1 DEF Holding, Loading
<1>3. RegistryTypeOK'
  BY <1>1 DEF RegistryInv, RegistryTypeOK
<1>4. \A s \in DOMAIN configs : Loading(s)' \subseteq overtaken'
  BY <1>1, <1>2 DEF RegistryInv, Loading
<1>5. HandedOutAlive'
  BY <1>1, <1>2 DEF RegistryInv, HandedOutAlive, Alive
<1>6. QED
  BY <1>1, <1>2, <1>3, <1>4, <1>5 DEF RegistryInv

LEMMA RegistryStep == RegistryInv /\ [RegistryNext]_registryVars => RegistryInv'
<1> SUFFICES ASSUME RegistryInv, [RegistryNext]_registryVars PROVE RegistryInv'
  OBVIOUS
<1>1. ASSUME NEW t \in ConfigThreads, NEW h \in Hosts \cup {OwnHost}, SetHostname(t, h) PROVE RegistryInv'
  <2>1. /\ DOMAIN configs' = {} /\ Holding' = Holding /\ orphaned' = Holding
        /\ UNCHANGED <<loadedFrom, client>> /\ hostname' = h
    BY <1>1 DEF SetHostname, Holding
  <2>2. QED
    BY <2>1 DEF RegistryInv, RegistryTypeOK, HandedOutAlive, Alive
<1>2. CASE UNCHANGED registryVars
  BY <1>2 DEF registryVars, RegistryInv, RegistryTypeOK, HandedOutAlive, Alive, Holding, Loading
<1>3. QED
  BY <1>1, <1>2, FindStep, OpenStep, OtherSteps DEF RegistryNext, ResetHostname

\* A pointer that operator[] returned is to the configuration the map holds, unless the host name
\* was changed while it was held, or a thread that had missed the name loaded it after another one;
\* after either it is dead. So it is for any number of threads, names, hosts and files, races and
\* changes of the host name included.
THEOREM PointersAreAlive == RegistrySpec => []HandedOutAlive
<1>1. RegistryInit => RegistryInv
  <2> SUFFICES ASSUME RegistryInit PROVE RegistryInv
    OBVIOUS
  <2>1. DOMAIN configs = {} /\ client = [t \in ConfigThreads |-> IdleClient]
    BY DEF RegistryInit
  <2>2. IdleClient \in Clients
    BY DEF Clients, Names, Client, IdleClient
  <2>3. Holding = {}
    BY <2>1 DEF Holding, Client, IdleClient
  <2>4. QED
    BY <2>1, <2>2, <2>3 DEF RegistryInit, RegistryInv, RegistryTypeOK, HandedOutAlive
<1>2. RegistryInv => HandedOutAlive
  BY DEF RegistryInv
<1>3. QED
  BY <1>1, <1>2, RegistryStep, PTL DEF RegistrySpec
=============================================================================
