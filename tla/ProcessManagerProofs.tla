------------------------ MODULE ProcessManagerProofs ------------------------
(***************************************************************************)
(* Theorems about ProcessManager for every team, every registry, every     *)
(* command line and every sequence of commands, crashes and restarts.      *)
(***************************************************************************)
EXTENDS ProcessManager, TLAPS

F == INSTANCE FoldFacts WITH Op <- Enqueue

-----------------------------------------------------------------------------
(* The inductive invariant *)

Executable ==
  [desiredRunState : {"SHOULD_RUN", "SHOULDNT_RUN", "MANUAL_STARTED"},
   desiredParamSet : Nat \cup {UNKNOWN_PARAMS}, managed : BOOLEAN,
   runningParamSet : Nat \cup {UNKNOWN_PARAMS}, need2ReadParams : BOOLEAN]

\* A call of changeDesiredState carries a parameter set that is known.
Jobs ==
  {j \in [cmd : {"START", "STOP", "START_LOG_PUBLISHING", "STOP_LOG_PUBLISHING"},
          robot : Int, exec : Int, params : Nat \cup {UNKNOWN_PARAMS}] :
     j.cmd \in {"START", "STOP"} => j.params \in Nat}

Wishes ==
  {w \in [cmd : {"none", "START", "STOP"}, params : Nat \cup {UNKNOWN_PARAMS}] :
     w.cmd = "START" => w.params \in Nat}

\* robotMap and its executableMaps
Memories == UNION {[D -> Executable] : D \in SUBSET Keys}

FleetTypeOK ==
  /\ alive \in [Managers -> BOOLEAN]
  /\ executables \in [Managers -> Memories]
  /\ commandQueue \in [Managers -> Seq(ProcessCommands)]
  /\ todo \in [Managers -> Seq(Jobs)]
  /\ procs \in [Managers -> [Keys -> Nat \cup {NoProcess}]]
  /\ wish \in [Managers -> [Keys -> Wishes]]
  /\ commanded \in [Managers -> SUBSET Keys]

\* The executable k of a manager's memory; one that is not there is created as a new one.
ExecOf(execs, k) == IF k \in DOMAIN execs THEN execs[k] ELSE NewExecutable

\* What a manager read of a process, or manages, is there and as it read it.
Knows(x, p) ==
  /\ ~x.need2ReadParams => p # NoProcess /\ x.runningParamSet = p
  /\ x.managed => p # NoProcess

MemoryInv ==
  \A m \in Managers :
    /\ \A k \in Keys : Knows(ExecOf(executables[m], k), procs[m][k])
    /\ Len(commandQueue[m]) <= QueueSize
    /\ ~alive[m] => commandQueue[m] = <<>> /\ todo[m] = <<>>

\* The commands in queue q, and the calls in jobs, that are about executable k.
MeantIn(m, q, k) == {i \in DOMAIN q : Meant(m, q[i], k) # {}}

JobsFor(jobs, k) ==
  {i \in DOMAIN jobs : jobs[i].cmd \in {"START", "STOP"} /\ jobs[i].robot = k[1] /\ jobs[i].exec = k[2]}

Latest(i, S) == \A j \in S : j <= i

WishOf(job) == [cmd |-> job.cmd, params |-> job.params]

Agrees(x, w) ==
  /\ w.cmd = "START" => x.desiredRunState = "SHOULD_RUN" /\ x.desiredParamSet = w.params
  /\ w.cmd = "STOP" => x.desiredRunState # "SHOULD_RUN"

\* The last command for k that waits, else the last call for k that is left to do, is the wish;
\* when there is neither, the executable agrees with it.
Obeys(m, k) ==
  /\ \A i \in MeantIn(m, commandQueue[m], k) : Latest(i, MeantIn(m, commandQueue[m], k)) =>
       wish[m][k] = Wished(m, commandQueue[m][i], k)
  /\ MeantIn(m, commandQueue[m], k) = {} =>
       \A i \in JobsFor(todo[m], k) : Latest(i, JobsFor(todo[m], k)) => wish[m][k] = WishOf(todo[m][i])
  /\ MeantIn(m, commandQueue[m], k) = {} /\ JobsFor(todo[m], k) = {} =>
       Agrees(ExecOf(executables[m], k), wish[m][k])

\* Nobody asked for the executable: if it runs, it was started by hand or by an earlier manager.
Idle(x) == x.desiredRunState # "SHOULD_RUN" /\ (x.desiredRunState = "SHOULDNT_RUN" => ~x.managed)

Untouched(m, k) ==
  MeantIn(m, commandQueue[m], k) = {} /\ JobsFor(todo[m], k) = {} /\ Idle(ExecOf(executables[m], k))

WishAt(m, k) ==
  /\ k \in commanded[m] /\ wish[m][k].cmd # "none" => Obeys(m, k)
  /\ k \notin commanded[m] \cup DOMAIN Constructed(m) => Untouched(m, k)

WishInv == \A m \in Managers : alive[m] => \A k \in Keys : WishAt(m, k)

FleetInv == FleetTypeOK /\ MemoryInv /\ WishInv
-----------------------------------------------------------------------------
(* One executable *)

LEMMA NewTyped == NewExecutable \in Executable
BY DEF NewExecutable, Executable, UNKNOWN_PARAMS

LEMMA DesiringTyped ==
  ASSUME NEW x \in Executable, NEW wanted \in BOOLEAN, NEW p \in Nat \cup {UNKNOWN_PARAMS}
  PROVE  /\ Desiring(x, wanted, p) \in Executable
         /\ Desiring(x, wanted, p).desiredRunState = IF wanted THEN "SHOULD_RUN" ELSE "SHOULDNT_RUN"
         /\ Desiring(x, wanted, p).desiredParamSet = p
         /\ Desiring(x, wanted, p).managed = x.managed
         /\ Desiring(x, wanted, p).need2ReadParams = x.need2ReadParams
         /\ Desiring(x, wanted, p).runningParamSet = x.runningParamSet
BY DEF Desiring, Executable

LEMMA ClearedTyped ==
  ASSUME NEW x \in Executable
  PROVE  /\ Cleared(x) \in Executable
         /\ Cleared(x).desiredRunState = x.desiredRunState
         /\ Cleared(x).desiredParamSet = x.desiredParamSet
         /\ ~Cleared(x).managed /\ Cleared(x).need2ReadParams
BY DEF Cleared, Executable, UNKNOWN_PARAMS

LEMMA StatsTyped ==
  ASSUME NEW x \in Executable, NEW p \in Nat, Knows(x, p)
  PROVE  /\ StatsUpdated(x, p) \in Executable
         /\ StatsUpdated(x, p).desiredRunState = x.desiredRunState
         /\ x.desiredParamSet # UNKNOWN_PARAMS => StatsUpdated(x, p).desiredParamSet = x.desiredParamSet
         /\ StatsUpdated(x, p).managed = x.managed
         /\ ~StatsUpdated(x, p).need2ReadParams
         /\ StatsUpdated(x, p).runningParamSet = p
BY DEF StatsUpdated, Knows, Executable, UNKNOWN_PARAMS, NoProcess

\* update keeps what a manager knows of the process true.
LEMMA UpdatedKnows ==
  ASSUME NEW x \in Executable, NEW p \in Nat \cup {NoProcess}, Knows(x, p)
  PROVE  /\ Updated(x, p).exec \in Executable
         /\ Updated(x, p).proc \in Nat \cup {NoProcess}
         /\ Knows(Updated(x, p).exec, Updated(x, p).proc)
<1>1. CASE p = NoProcess
  <2>1. Updated(x, p) = UpdatedNothingRuns(x)
    BY <1>1 DEF Updated
  <2>2. CASE x.desiredRunState # "SHOULD_RUN"
    BY <2>1, <2>2, ClearedTyped DEF UpdatedNothingRuns, Knows
  <2>3. CASE x.desiredRunState = "SHOULD_RUN" /\ x.desiredParamSet = UNKNOWN_PARAMS
    BY <1>1, <2>1, <2>3 DEF UpdatedNothingRuns
  <2>4. CASE x.desiredRunState = "SHOULD_RUN" /\ x.desiredParamSet # UNKNOWN_PARAMS
    <3> DEFINE z == [x EXCEPT !.managed = TRUE]
    <3>1. Updated(x, p).exec = z /\ Updated(x, p).proc = x.desiredParamSet
      BY <2>1, <2>4 DEF UpdatedNothingRuns
    <3>2. z \in Executable /\ z.need2ReadParams = x.need2ReadParams
      BY DEF Executable
    <3>3. x.desiredParamSet \in Nat /\ x.desiredParamSet # NoProcess
      BY <2>4 DEF Executable, NoProcess
    <3>4. x.need2ReadParams
      BY <1>1 DEF Knows, Executable
    <3>5. QED
      <4> HIDE DEF z
      <4> QED BY <3>1, <3>2, <3>3, <3>4 DEF Knows
  <2>5. QED
    BY <2>2, <2>3, <2>4
<1>2. CASE p \in Nat
  <2> DEFINE y == StatsUpdated(x, p)
             hand == [x EXCEPT !.desiredRunState = "MANUAL_STARTED"]
  <2>1. p # NoProcess
    BY <1>2 DEF NoProcess
  <2>2. Updated(x, p) \in {Killed(x), Killed(y), Adopted(x, p), Adopted(hand, p)}
    BY <2>1 DEF Updated, UpdatedSomethingRuns
  <2>3. hand \in Executable /\ Knows(hand, p)
    BY DEF Executable, Knows
  <2>4. y \in Executable
    BY <1>2, StatsTyped
  <2>5. ASSUME NEW z \in Executable
        PROVE  Killed(z).exec \in Executable /\ Killed(z).proc = NoProcess /\ Knows(Killed(z).exec, NoProcess)
    BY ClearedTyped DEF Killed, Knows
  <2>6. ASSUME NEW z \in Executable, Knows(z, p)
        PROVE  Adopted(z, p).exec \in Executable /\ Adopted(z, p).proc = p /\ Knows(Adopted(z, p).exec, p)
    BY <1>2, <2>1, <2>6, StatsTyped DEF Adopted, Knows, Executable
  <2>7. QED
    <3> HIDE DEF y, hand
    <3> QED BY <1>2, <2>2, <2>3, <2>4, <2>5, <2>6
<1>3. QED
  BY <1>1, <1>2

\* update keeps to what was commanded.
LEMMA UpdatedAgrees ==
  ASSUME NEW x \in Executable, NEW p \in Nat \cup {NoProcess}, Knows(x, p),
         NEW w \in Wishes, Agrees(x, w)
  PROVE  Agrees(Updated(x, p).exec, w)
<1>1. CASE p = NoProcess
  BY <1>1, ClearedTyped
     DEF Updated, UpdatedNothingRuns, Agrees, Wishes, Executable, UNKNOWN_PARAMS
<1>2. CASE p \in Nat
  <2> DEFINE y == StatsUpdated(x, p)
             hand == [x EXCEPT !.desiredRunState = "MANUAL_STARTED"]
  <2>1. p # NoProcess
    BY <1>2 DEF NoProcess
  <2>2. \/ Updated(x, p) \in {Killed(x), Killed(y), Adopted(x, p)}
        \/ x.desiredRunState = "SHOULDNT_RUN" /\ Updated(x, p) = Adopted(hand, p)
    BY <2>1 DEF Updated, UpdatedSomethingRuns
  <2>3. hand \in Executable /\ Knows(hand, p) /\ hand.desiredRunState = "MANUAL_STARTED"
        /\ hand.desiredParamSet = x.desiredParamSet
    BY DEF Executable, Knows
  <2>4. y \in Executable /\ Agrees(y, w)
    BY <1>2, StatsTyped DEF Agrees, Wishes, UNKNOWN_PARAMS
  <2>5. ASSUME NEW z \in Executable, Agrees(z, w) PROVE Agrees(Killed(z).exec, w)
    BY <2>5, ClearedTyped DEF Killed, Agrees
  <2>6. ASSUME NEW z \in Executable, Knows(z, p), Agrees(z, w) PROVE Agrees(Adopted(z, p).exec, w)
    <3>1. StatsUpdated(z, p) \in Executable /\ Agrees(StatsUpdated(z, p), w)
      BY <1>2, <2>6, StatsTyped DEF Agrees, Wishes, UNKNOWN_PARAMS
    <3>2. QED
      BY <3>1 DEF Adopted, Agrees, Executable
  <2>7. x.desiredRunState = "SHOULDNT_RUN" => Agrees(hand, w)
    BY <2>3 DEF Agrees, Wishes
  <2>8. QED
    <3> HIDE DEF y, hand
    <3> QED BY <2>2, <2>3, <2>4, <2>5, <2>6, <2>7
<1>3. QED
  BY <1>1, <1>2

\* update of an executable nobody asked for does not start or kill it.
LEMMA UpdatedIdle ==
  ASSUME NEW x \in Executable, NEW p \in Nat \cup {NoProcess}, Knows(x, p), Idle(x)
  PROVE  Idle(Updated(x, p).exec) /\ Updated(x, p).proc = p
<1>1. CASE p = NoProcess
  BY <1>1, ClearedTyped DEF Updated, UpdatedNothingRuns, Idle
<1>2. CASE p \in Nat
  <2> DEFINE y == StatsUpdated(x, p)
             hand == [x EXCEPT !.desiredRunState = "MANUAL_STARTED"]
  <2>1. p # NoProcess
    BY <1>2 DEF NoProcess
  <2>2. y.desiredRunState = x.desiredRunState
    BY <1>2, StatsTyped
  <2>3. \/ x.desiredRunState = "MANUAL_STARTED" /\ Updated(x, p) = Adopted(x, p)
        \/ x.desiredRunState = "SHOULDNT_RUN" /\ Updated(x, p) = Adopted(hand, p)
    <3> HIDE DEF hand
    <3>1. x.desiredRunState \in {"MANUAL_STARTED", "SHOULDNT_RUN"}
      BY DEF Idle, Executable
    <3>2. QED
      BY <2>1, <2>2, <3>1 DEF Updated, UpdatedSomethingRuns, Idle, hand
  <2>4. hand \in Executable /\ Knows(hand, p) /\ hand.desiredRunState = "MANUAL_STARTED"
    BY DEF Executable, Knows
  <2>5. ASSUME NEW z \in Executable, Knows(z, p), z.desiredRunState = "MANUAL_STARTED"
        PROVE  Idle(Adopted(z, p).exec) /\ Adopted(z, p).proc = p
    BY <1>2, <2>5, StatsTyped DEF Adopted, Idle, Executable
  <2>6. QED
    <3> HIDE DEF hand
    <3> QED BY <2>3, <2>4, <2>5
<1>3. QED
  BY <1>1, <1>2

\* update does not kill a process that runs as commanded.
LEMMA UpdatedKeepsWanted ==
  ASSUME NEW x \in Executable, NEW p \in Nat, Knows(x, p),
         x.desiredRunState = "SHOULD_RUN", x.desiredParamSet = p
  PROVE  Updated(x, p).proc = p
<1>1. p # NoProcess /\ p # UNKNOWN_PARAMS
  BY DEF NoProcess, UNKNOWN_PARAMS
<1>2. StatsUpdated(x, p).desiredParamSet = StatsUpdated(x, p).runningParamSet
  BY <1>1, StatsTyped
<1>3. QED
  BY <1>1, <1>2 DEF Updated, UpdatedSomethingRuns, Adopted

-----------------------------------------------------------------------------
(* Commands and their calls *)

LEMMA CallPlace ==
  ASSUME NEW n \in Nat, NEW l \in Nat, NEW i \in 1 .. l * n
  PROVE  ((i - 1) % n) + 1 \in 1 .. n /\ ((i - 1) \div n) + 1 \in 1 .. l
<1>1. n # 0
  BY Z3
<1> DEFINE d == (i - 1) \div n
           r == (i - 1) % n
<1>2. i - 1 = n * d + r /\ d \in Int /\ r \in 0 .. n - 1
  BY <1>1
<1>3. QED
  BY <1>1, <1>2

\* The calls of a command that is not refused
LEMMA JobsTyped ==
  ASSUME NEW c \in ProcessCommands, ~Malformed(c)
  PROVE  /\ JobsOf(c) \in Seq(Jobs)
         /\ \A i \in DOMAIN JobsOf(c) : JobsOf(c)[i].cmd = c.cmd
<1> DEFINE n == Len(c.processKeys)
           l == Len(c.robotIds)
           d(i) == ((i - 1) \div n) + 1
           r(i) == ((i - 1) % n) + 1
           job(i) == [cmd |-> c.cmd, robot |-> c.robotIds[d(i)], exec |-> c.processKeys[r(i)],
                      params |-> IF c.cmd \in {"START", "STOP"} THEN c.paramSets[r(i)] ELSE UNKNOWN_PARAMS]
<1>1. n \in Nat /\ l \in Nat
  BY DEF ProcessCommands
<1>2. JobsOf(c) = [i \in 1 .. l * n |-> job(i)]
  BY DEF JobsOf
<1>3. ASSUME NEW i \in 1 .. l * n PROVE job(i) \in Jobs /\ job(i).cmd = c.cmd
  <2>1. r(i) \in 1 .. n /\ d(i) \in 1 .. l
    BY <1>1, CallPlace
  <2>2. c.robotIds[d(i)] \in Int /\ c.processKeys[r(i)] \in Int
    <3> HIDE DEF d, r
    <3> QED BY <2>1 DEF ProcessCommands
  <2>3. c.cmd \in {"START", "STOP"} => c.paramSets[r(i)] \in Nat
    <3> HIDE DEF d, r
    <3> QED BY <2>1 DEF ProcessCommands, Malformed
  <2>4. c.cmd \in {"START", "STOP", "START_LOG_PUBLISHING", "STOP_LOG_PUBLISHING"}
    BY DEF ProcessCommands
  <2>5. QED
    <3> HIDE DEF d, r
    <3> QED BY <2>2, <2>3, <2>4 DEF Jobs, UNKNOWN_PARAMS
<1>4. l * n \in Nat
  <2> HIDE DEF n, l
  <2> QED BY <1>1
<1>5. QED
  <2> HIDE DEF job, n, l
  <2> QED BY <1>2, <1>3, <1>4

LEMMA MeantJobs ==
  ASSUME NEW m, NEW c, NEW k
  PROVE  /\ Meant(m, c, k) \subseteq JobsFor(JobsOf(c), k)
         /\ IsForMe(m, c) /\ ~Malformed(c) => JobsFor(JobsOf(c), k) \subseteq Meant(m, c, k)
         /\ Meant(m, c, k) # {} => IsForMe(m, c) /\ ~Malformed(c) /\ c.cmd \in {"START", "STOP"}
<1>1. \A i \in DOMAIN JobsOf(c) : JobsOf(c)[i].cmd = c.cmd
  BY DEF JobsOf
<1>2. QED
  BY <1>1 DEF Meant, JobsFor, IsForMe

LEMMA HasLast ==
  ASSUME NEW n \in Nat, NEW S \in SUBSET (1 .. n), S # {}
  PROVE  \E i \in S : Latest(i, S)
<1>1. F!Top(S) \in S /\ \A j \in S : F!Top(S) >= j
  BY F!MaxBelow
<1>2. \A i, j \in 1 .. n : i >= j => j <= i
  OBVIOUS
<1>3. QED
  BY <1>1, <1>2 DEF Latest

LEMMA WishedIs ==
  ASSUME NEW m, NEW c \in ProcessCommands, NEW k, NEW i \in Meant(m, c, k), Latest(i, Meant(m, c, k))
  PROVE  Wished(m, c, k) = WishOf(JobsOf(c)[i])
<1>1. ~Malformed(c) /\ Meant(m, c, k) \subseteq DOMAIN JobsOf(c)
  BY DEF Meant
<1>2. JobsOf(c) \in Seq(Jobs) /\ JobsOf(c)[i].cmd = c.cmd
  BY <1>1, JobsTyped
<1>3. Meant(m, c, k) \subseteq Int
  BY <1>1, <1>2
<1>4. i = CHOOSE x \in Meant(m, c, k) : \A j \in Meant(m, c, k) : j <= x
  BY <1>3 DEF Latest
<1>5. QED
  BY <1>2, <1>4 DEF Wished, WishOf

LEMMA WishOfTyped ==
  ASSUME NEW job \in Jobs, job.cmd \in {"START", "STOP"}
  PROVE  WishOf(job) \in Wishes /\ WishOf(job).cmd # "none"
BY DEF WishOf, Wishes, Jobs

\* What a command wishes is a START or a STOP with a known parameter set.
LEMMA WishedTyped ==
  ASSUME NEW m, NEW c \in ProcessCommands, NEW k, Meant(m, c, k) # {}
  PROVE  Wished(m, c, k) \in Wishes /\ Wished(m, c, k).cmd # "none"
<1>1. ~Malformed(c) /\ Meant(m, c, k) \subseteq DOMAIN JobsOf(c) /\ c.cmd \in {"START", "STOP"}
  BY DEF Meant
<1>2. JobsOf(c) \in Seq(Jobs) /\ \A j \in DOMAIN JobsOf(c) : JobsOf(c)[j].cmd = c.cmd
  BY <1>1, JobsTyped
<1>3. PICK i \in Meant(m, c, k) : Latest(i, Meant(m, c, k))
  <2>1. Meant(m, c, k) \in SUBSET (1 .. Len(JobsOf(c))) /\ Len(JobsOf(c)) \in Nat
    BY <1>1, <1>2
  <2>2. QED
    BY <2>1, HasLast
<1>4. JobsOf(c)[i] \in Jobs /\ JobsOf(c)[i].cmd \in {"START", "STOP"}
  BY <1>1, <1>2, <1>3
<1>5. WishOf(JobsOf(c)[i]) \in Wishes /\ WishOf(JobsOf(c)[i]).cmd # "none"
  BY <1>4, WishOfTyped
<1>6. QED
  BY <1>3, <1>5, WishedIs

-----------------------------------------------------------------------------
(* Queues *)

\* The first of a queue is taken: T are the places after, S the places before.
LEMMA Shifted ==
  ASSUME NEW S, NEW T, S \subseteq Nat, T \subseteq Nat, 0 \notin S,
         \A i \in Nat : i \in T <=> i >= 1 /\ i + 1 \in S
  PROVE  /\ T = {} => S \subseteq {1}
         /\ 1 \notin S /\ S # {} => T # {}
         /\ \A i \in T : i + 1 \in S
         /\ \A i \in T : Latest(i, T) => Latest(i + 1, S)
<1>1. \A s \in S : s # 1 => s - 1 \in T
  OBVIOUS
<1>2. ASSUME NEW i \in T, Latest(i, T) PROVE Latest(i + 1, S)
  <2>1. ASSUME NEW s \in S PROVE s <= i + 1
    <3>1. CASE s = 1
      BY <3>1
    <3>2. CASE s # 1
      <4>1. s - 1 <= i
        BY <1>1, <1>2, <3>2 DEF Latest
      <4>2. QED
        BY <4>1
    <3>3. QED
      BY <3>1, <3>2
  <2>2. QED
    BY <2>1 DEF Latest
<1>3. QED
  BY <1>1, <1>2

LEMMA PlacesTyped ==
  ASSUME NEW m, NEW k
  PROVE  /\ \A q \in Seq(ProcessCommands) : MeantIn(m, q, k) \subseteq 1 .. Len(q)
         /\ \A jobs \in Seq(Jobs) : JobsFor(jobs, k) \subseteq 1 .. Len(jobs)
         /\ MeantIn(m, <<>>, k) = {} /\ JobsFor(<<>>, k) = {}
BY DEF MeantIn, JobsFor

\* What waits for executable k, before and after the first command is taken.
LEMMA MeantInTail ==
  ASSUME NEW m, NEW k, NEW q \in Seq(ProcessCommands), q # <<>>
  PROVE  LET S == MeantIn(m, q, k)
             T == MeantIn(m, Tail(q), k)
         IN  /\ T = {} => S \subseteq {1}
             /\ 1 \notin S /\ S # {} => T # {}
             /\ \A i \in T : i + 1 \in S /\ Tail(q)[i] = q[i + 1]
             /\ \A i \in T : Latest(i, T) => Latest(i + 1, S)
<1> DEFINE S == MeantIn(m, q, k)
           T == MeantIn(m, Tail(q), k)
<1>1. \A i \in Nat : i \in T <=> i >= 1 /\ i + 1 \in S
  BY DEF MeantIn
<1>2. S \subseteq Nat /\ T \subseteq Nat /\ 0 \notin S
  BY DEF MeantIn
<1>3. \A i \in T : Tail(q)[i] = q[i + 1]
  BY DEF MeantIn
<1>4. QED
  <2> HIDE DEF S, T
  <2>1. /\ T = {} => S \subseteq {1}
        /\ 1 \notin S /\ S # {} => T # {}
        /\ \A i \in T : i + 1 \in S
        /\ \A i \in T : Latest(i, T) => Latest(i + 1, S)
    BY <1>1, <1>2, Shifted
  <2>2. QED
    BY <1>3, <2>1 DEF S, T

\* What is left to do about executable k, before and after the first call.
LEMMA JobsForTail ==
  ASSUME NEW k, NEW jobs \in Seq(Jobs), jobs # <<>>
  PROVE  LET S == JobsFor(jobs, k)
             T == JobsFor(Tail(jobs), k)
         IN  /\ T = {} => S \subseteq {1}
             /\ \A i \in T : i + 1 \in S /\ Tail(jobs)[i] = jobs[i + 1]
             /\ \A i \in T : Latest(i, T) => Latest(i + 1, S)
<1> DEFINE S == JobsFor(jobs, k)
           T == JobsFor(Tail(jobs), k)
<1>1. \A i \in Nat : i \in T <=> i >= 1 /\ i + 1 \in S
  BY DEF JobsFor
<1>2. S \subseteq Nat /\ T \subseteq Nat /\ 0 \notin S
  BY DEF JobsFor
<1>3. \A i \in T : Tail(jobs)[i] = jobs[i + 1]
  BY DEF JobsFor
<1>4. QED
  <2> HIDE DEF S, T
  <2>1. /\ T = {} => S \subseteq {1}
        /\ \A i \in T : i + 1 \in S
        /\ \A i \in T : Latest(i, T) => Latest(i + 1, S)
    BY <1>1, <1>2, Shifted
  <2>2. QED
    BY <1>3, <2>1 DEF S, T

LEMMA EnqueueTyped ==
  ASSUME NEW q \in Seq(ProcessCommands), Len(q) <= QueueSize, NEW c \in ProcessCommands
  PROVE  /\ Enqueue(q, c) \in Seq(ProcessCommands)
         /\ Len(Enqueue(q, c)) \in 1 .. QueueSize
         /\ Enqueue(q, c)[Len(Enqueue(q, c))] = c
         /\ Len(q) < QueueSize => Enqueue(q, c) = Append(q, c)
         /\ Len(q) = QueueSize => Enqueue(q, c) = Append(Tail(q), c) /\ q # <<>>
BY ProcessManagerAssumption DEF Enqueue

LEMMA MeantInAppend ==
  ASSUME NEW m, NEW k, NEW q \in Seq(ProcessCommands), NEW c \in ProcessCommands
  PROVE  /\ Meant(m, c, k) = {} => MeantIn(m, Append(q, c), k) = MeantIn(m, q, k)
         /\ Meant(m, c, k) # {} => /\ Len(q) + 1 \in MeantIn(m, Append(q, c), k)
                                   /\ \A i \in MeantIn(m, Append(q, c), k) :
                                        Latest(i, MeantIn(m, Append(q, c), k)) => i = Len(q) + 1
<1>1. DOMAIN Append(q, c) = 1 .. Len(q) + 1 /\ DOMAIN q = 1 .. Len(q) /\ Len(q) \in Nat
  OBVIOUS
<1>2. \A i \in 1 .. Len(q) : Append(q, c)[i] = q[i]
  OBVIOUS
<1>3. Append(q, c)[Len(q) + 1] = c
  OBVIOUS
<1>4. Meant(m, c, k) = {} => MeantIn(m, Append(q, c), k) = MeantIn(m, q, k)
  BY <1>1, <1>2, <1>3 DEF MeantIn
<1>5. ASSUME Meant(m, c, k) # {} PROVE Len(q) + 1 \in MeantIn(m, Append(q, c), k)
  BY <1>1, <1>3, <1>5 DEF MeantIn
<1>6. MeantIn(m, Append(q, c), k) \subseteq 1 .. Len(q) + 1
  BY <1>1 DEF MeantIn
<1>7. QED
  BY <1>1, <1>4, <1>5, <1>6 DEF Latest

-----------------------------------------------------------------------------
(* What the steps of a manager do to its memory *)

LEMMA MemoryTyped ==
  ASSUME NEW f
  PROVE  f \in Memories <=> f \in [DOMAIN f -> Executable] /\ DOMAIN f \subseteq Keys
BY DEF Memories

LEMMA ExecOfTyped ==
  ASSUME NEW f \in Memories, NEW k
  PROVE  ExecOf(f, k) \in Executable
BY MemoryTyped, NewTyped DEF ExecOf

LEMMA UpdatedNew ==
  /\ Updated(NewExecutable, NoProcess).exec = NewExecutable
  /\ Updated(NewExecutable, NoProcess).proc = NoProcess
BY DEF Updated, UpdatedNothingRuns, NewExecutable, Cleared

LEMMA RunStep ==
  ASSUME FleetTypeOK, MemoryInv, NEW m \in Managers, run(m)
  PROVE  /\ executables' \in [Managers -> Memories]
         /\ procs' \in [Managers -> [Keys -> Nat \cup {NoProcess}]]
         /\ \A k \in Keys :
              /\ ExecOf(executables'[m], k) = Updated(ExecOf(executables[m], k), procs[m][k]).exec
              /\ procs'[m][k] = Updated(ExecOf(executables[m], k), procs[m][k]).proc
         /\ \A n \in Managers : n # m => executables'[n] = executables[n] /\ procs'[n] = procs[n]
         /\ DOMAIN executables'[m] =
              DOMAIN executables[m] \cup {k \in Keys : procs[m][k] # NoProcess}
<1> DEFINE dom == DOMAIN executables[m] \cup {k \in Keys : procs[m][k] # NoProcess}
           u(k) == Updated(ExecOf(executables[m], k), procs[m][k])
           mem == [k \in dom |-> u(k).exec]
           ran == [k \in Keys |-> IF k \in dom THEN u(k).proc ELSE procs[m][k]]
<1>1. /\ executables \in [Managers -> Memories] /\ procs \in [Managers -> [Keys -> Nat \cup {NoProcess}]]
      /\ executables[m] \in Memories /\ DOMAIN executables[m] \subseteq Keys
  BY MemoryTyped DEF FleetTypeOK
<1>2. Found(m) = [k \in dom |-> ExecOf(executables[m], k)]
  BY DEF Found, ExecOf
<1>3. executables' = [executables EXCEPT ![m] = mem] /\ procs' = [procs EXCEPT ![m] = ran]
  BY <1>2 DEF run
<1>4. ASSUME NEW k \in Keys PROVE u(k).exec \in Executable /\ u(k).proc \in Nat \cup {NoProcess}
  <2>1. procs[m][k] \in Nat \cup {NoProcess} /\ ExecOf(executables[m], k) \in Executable
        /\ Knows(ExecOf(executables[m], k), procs[m][k])
    BY <1>1, ExecOfTyped DEF MemoryInv
  <2>2. QED
    BY <2>1, UpdatedKnows
<1>5. dom \subseteq Keys
  BY <1>1
<1>6. mem \in Memories /\ DOMAIN mem = dom /\ ran \in [Keys -> Nat \cup {NoProcess}]
  <2> HIDE DEF u, dom
  <2> QED BY <1>1, <1>4, <1>5, MemoryTyped
<1>7. ASSUME NEW k \in Keys PROVE ExecOf(mem, k) = u(k).exec /\ ran[k] = u(k).proc
  <2>1. CASE k \in dom
    <3> HIDE DEF u, dom
    <3> QED BY <2>1 DEF ExecOf
  <2>2. CASE k \notin dom
    <3>1. ExecOf(executables[m], k) = NewExecutable /\ procs[m][k] = NoProcess
      BY <2>2 DEF ExecOf
    <3>2. u(k).exec = NewExecutable /\ u(k).proc = NoProcess
      BY <3>1, UpdatedNew
    <3>3. ExecOf(mem, k) = NewExecutable /\ ran[k] = procs[m][k]
      <4> HIDE DEF u, dom
      <4> QED BY <2>2 DEF ExecOf
    <3>4. QED
      BY <3>1, <3>2, <3>3
  <2>3. QED
    BY <2>1, <2>2
<1>8. QED
  <2>1. executables'[m] = mem /\ procs'[m] = ran
    <3> HIDE DEF mem, ran
    <3> QED BY <1>1, <1>3
  <2>2. executables' \in [Managers -> Memories] /\ procs' \in [Managers -> [Keys -> Nat \cup {NoProcess}]]
        /\ \A n \in Managers : n # m => executables'[n] = executables[n] /\ procs'[n] = procs[n]
    <3> HIDE DEF mem, ran
    <3> QED BY <1>1, <1>3, <1>6
  <2>3. QED
    <3> HIDE DEF mem, ran, u
    <3> QED BY <1>6, <1>7, <2>1, <2>2 DEF u

LEMMA ThrowStep ==
  ASSUME FleetTypeOK, MemoryInv, NEW m \in Managers, runThrows(m)
  PROVE  /\ procs' \in [Managers -> [Keys -> Nat \cup {NoProcess}]]
         /\ \A k \in Keys :
              procs'[m][k] \in {procs[m][k], Updated(ExecOf(executables[m], k), procs[m][k]).proc}
         /\ \A n \in Managers : n # m => procs'[n] = procs[n]
<1> DEFINE u(k) == Updated(ExecOf(executables[m], k), procs[m][k]).proc
<1>1. procs \in [Managers -> [Keys -> Nat \cup {NoProcess}]] /\ executables[m] \in Memories
  BY DEF FleetTypeOK
<1>2. PICK t : procs' = [procs EXCEPT ![m] = [j \in Keys |-> IF j \in DOMAIN Found(m) /\ Before(j, t)
                                                            THEN Updated(Found(m)[j], procs[m][j]).proc
                                                            ELSE procs[m][j]]]
  BY DEF runThrows
<1>3. \A j \in DOMAIN Found(m) : Found(m)[j] = ExecOf(executables[m], j)
  BY DEF Found, ExecOf
<1> DEFINE ran == [j \in Keys |-> IF j \in DOMAIN Found(m) /\ Before(j, t) THEN u(j) ELSE procs[m][j]]
<1>4. procs' = [procs EXCEPT ![m] = ran]
  BY <1>2, <1>3
<1>5. ASSUME NEW k \in Keys PROVE u(k) \in Nat \cup {NoProcess}
  <2>1. procs[m][k] \in Nat \cup {NoProcess} /\ ExecOf(executables[m], k) \in Executable
        /\ Knows(ExecOf(executables[m], k), procs[m][k])
    BY <1>1, ExecOfTyped DEF MemoryInv
  <2>2. QED
    BY <2>1, UpdatedKnows
<1>6. ran \in [Keys -> Nat \cup {NoProcess}] /\ \A k \in Keys : ran[k] \in {procs[m][k], u(k)}
  <2> HIDE DEF u
  <2> QED BY <1>1, <1>5
<1>7. QED
  <2>1. /\ procs' \in [Managers -> [Keys -> Nat \cup {NoProcess}]] /\ procs'[m] = ran
        /\ \A n \in Managers : n # m => procs'[n] = procs[n]
    <3> HIDE DEF ran
    <3> QED BY <1>1, <1>4, <1>6
  <2>2. QED
    <3> HIDE DEF ran
    <3> QED BY <1>6, <2>1

LEMMA CommandedTyped ==
  ASSUME NEW x \in Executable, NEW job \in Jobs
  PROVE  /\ Commanded(x, job) \in Executable
         /\ \A p : Knows(x, p) => Knows(Commanded(x, job), p)
         /\ job.cmd \in {"START", "STOP"} => Agrees(Commanded(x, job), WishOf(job))
         /\ job.cmd \notin {"START", "STOP"} => Commanded(x, job) = x
<1>1. CASE job.cmd \in {"START", "STOP"}
  <2>1. job.params \in Nat \cup {UNKNOWN_PARAMS}
    BY DEF Jobs
  <2>2. /\ job.cmd = "START" => Commanded(x, job) = Desiring(x, TRUE, job.params)
        /\ job.cmd # "START" => Commanded(x, job) = Desiring(x, FALSE, job.params)
    BY <1>1 DEF Commanded, Desiring
  <2>3. /\ Commanded(x, job) \in Executable
        /\ Commanded(x, job).desiredRunState = IF job.cmd = "START" THEN "SHOULD_RUN" ELSE "SHOULDNT_RUN"
        /\ Commanded(x, job).desiredParamSet = job.params
        /\ Commanded(x, job).managed = x.managed
        /\ Commanded(x, job).need2ReadParams = x.need2ReadParams
        /\ Commanded(x, job).runningParamSet = x.runningParamSet
    <3> DEFINE p == job.params
    <3>1. p \in Nat \cup {UNKNOWN_PARAMS}
      BY <2>1
    <3> HIDE DEF p
    <3>2. /\ Desiring(x, TRUE, p).desiredRunState = "SHOULD_RUN"
          /\ Desiring(x, FALSE, p).desiredRunState = "SHOULDNT_RUN"
      BY <3>1, DesiringTyped
    <3>3. ASSUME NEW wanted \in BOOLEAN
          PROVE  /\ Desiring(x, wanted, p) \in Executable
                 /\ Desiring(x, wanted, p).desiredParamSet = p
                 /\ Desiring(x, wanted, p).managed = x.managed
                 /\ Desiring(x, wanted, p).need2ReadParams = x.need2ReadParams
                 /\ Desiring(x, wanted, p).runningParamSet = x.runningParamSet
      BY <3>1, DesiringTyped
    <3>4. QED
      BY <2>2, <3>2, <3>3 DEF p
  <2>4. \A p : Knows(x, p) => Knows(Commanded(x, job), p)
    BY <2>3, Zenon DEF Knows
  <2>5. Agrees(Commanded(x, job), WishOf(job))
    BY <1>1, <2>3 DEF Agrees, WishOf
  <2>6. QED
    BY <1>1, <2>3, <2>4, <2>5
<1>2. CASE job.cmd \notin {"START", "STOP"}
  BY <1>2 DEF Commanded
<1>3. QED
  BY <1>1, <1>2

KeyOf(job) == <<job.robot, job.exec>>

LEMMA ChangeStep ==
  ASSUME FleetTypeOK, NEW m \in Managers, changeDesiredState(m)
  PROVE  /\ executables' \in [Managers -> Memories]
         /\ \A k \in Keys :
              ExecOf(executables'[m], k) = IF KeyOf(Head(todo[m])) = k
                                           THEN Commanded(ExecOf(executables[m], k), Head(todo[m]))
                                           ELSE ExecOf(executables[m], k)
         /\ \A n \in Managers : n # m => executables'[n] = executables[n]
<1> DEFINE job == Head(todo[m])
           key == KeyOf(job)
           x == ExecOf(executables[m], key)
           mem == [j \in DOMAIN executables[m] \cup {key} |->
                     IF j = key THEN Commanded(x, job) ELSE executables[m][j]]
<1>1. /\ executables \in [Managers -> Memories] /\ executables[m] \in Memories
      /\ DOMAIN executables[m] \subseteq Keys /\ executables[m] \in [DOMAIN executables[m] -> Executable]
      /\ job \in Jobs
  BY MemoryTyped DEF FleetTypeOK, changeDesiredState
<1>2. executables' = IF key \in Keys THEN [executables EXCEPT ![m] = mem] ELSE executables
  BY DEF changeDesiredState, KeyOf, ExecOf
<1>3. CASE key \notin Keys
  <2> HIDE DEF key, mem
  <2>1. executables' = executables
    BY <1>2, <1>3
  <2>2. \A k \in Keys : KeyOf(Head(todo[m])) # k
    BY <1>3 DEF key
  <2>3. QED
    BY <1>1, <2>1, <2>2
<1>4. CASE key \in Keys
  <2>1. x \in Executable /\ Commanded(x, job) \in Executable
    BY <1>1, ExecOfTyped, CommandedTyped
  <2>2. mem \in Memories
    <3>1. DOMAIN mem \subseteq Keys
      BY <1>1, <1>4
    <3>2. mem \in [DOMAIN mem -> Executable]
      <4> HIDE DEF key, x, job
      <4> QED BY <1>1, <2>1
    <3>3. QED
      <4> HIDE DEF mem
      <4> QED BY <3>1, <3>2, MemoryTyped
  <2>3. \A k \in Keys : ExecOf(mem, k) = IF key = k THEN Commanded(ExecOf(executables[m], k), job)
                                         ELSE ExecOf(executables[m], k)
    <3> HIDE DEF key, job
    <3> QED BY DEF ExecOf
  <2>4. executables' = [executables EXCEPT ![m] = mem]
    BY <1>2, <1>4
  <2>5. QED
    <3>1. executables' \in [Managers -> Memories] /\ executables'[m] = mem
          /\ \A n \in Managers : n # m => executables'[n] = executables[n]
      <4> HIDE DEF mem
      <4> QED BY <1>1, <2>2, <2>4
    <3>2. QED
      <4> HIDE DEF mem, x
      <4> QED BY <2>3, <3>1
<1>5. QED
  BY <1>3, <1>4

LEMMA LowestTyped ==
  ASSUME NEW S, S \subseteq Nat, S # {}
  PROVE  Lowest(S) \in S
<1>1. \E p \in S : \A q \in S : p <= q
  BY F!LeastNat
<1>2. QED
  BY <1>1 DEF Lowest

LEMMA ConstructedTyped ==
  ASSUME NEW m \in Managers
  PROVE  /\ Constructed(m) \in Memories
         /\ \A k : ExecOf(Constructed(m), k).need2ReadParams /\ ~ExecOf(Constructed(m), k).managed
         /\ \A k : k \notin DOMAIN Constructed(m) => ExecOf(Constructed(m), k) = NewExecutable
<1> DEFINE dom == IF autostart(m) THEN {m} \X AutostartExecs ELSE {}
           x == Desiring(NewExecutable, TRUE, Lowest(Params))
<1>1. Constructed(m) = [k \in dom |-> x]
  BY DEF Constructed
<1>2. dom \subseteq Keys
  BY ProcessManagerAssumption DEF Keys
<1>3. x \in Executable /\ x.need2ReadParams /\ ~x.managed
  <2>1. Lowest(Params) \in Nat \cup {UNKNOWN_PARAMS}
    BY RegistryAssumption, LowestTyped
  <2>2. NewExecutable.need2ReadParams /\ ~NewExecutable.managed
    BY DEF NewExecutable
  <2>3. QED
    BY <2>1, <2>2, NewTyped, DesiringTyped, ZenonT(60)
<1>4. NewExecutable.need2ReadParams /\ ~NewExecutable.managed
  BY DEF NewExecutable
<1>5. QED
  <2> HIDE DEF dom, x
  <2>1. Constructed(m) \in Memories
    BY <1>1, <1>2, <1>3, MemoryTyped
  <2>2. \A k : ExecOf(Constructed(m), k) = IF k \in dom THEN x ELSE NewExecutable
    BY <1>1 DEF ExecOf
  <2>3. DOMAIN Constructed(m) = dom
    BY <1>1
  <2>4. QED
    BY <1>3, <1>4, <2>1, <2>2, <2>3

LEMMA HandleStep ==
  ASSUME FleetTypeOK, NEW m \in Managers, handleProcessCommand(m)
  PROVE  LET q == commandQueue[m]
             c == Head(q)
         IN  /\ commandQueue' \in [Managers -> Seq(ProcessCommands)]
             /\ todo' \in [Managers -> Seq(Jobs)]
             /\ q \in Seq(ProcessCommands) /\ q # <<>> /\ c \in ProcessCommands /\ todo[m] = <<>>
             /\ commandQueue'[m] = Tail(q)
             /\ todo'[m] = IF IsForMe(m, c) /\ ~Malformed(c) THEN JobsOf(c) ELSE <<>>
             /\ \A n \in Managers : n # m => commandQueue'[n] = commandQueue[n] /\ todo'[n] = todo[n]
<1> DEFINE q == commandQueue[m]
           c == Head(q)
           calls == IF IsForMe(m, c) /\ ~Malformed(c) THEN JobsOf(c) ELSE <<>>
<1>1. /\ commandQueue \in [Managers -> Seq(ProcessCommands)] /\ todo \in [Managers -> Seq(Jobs)]
      /\ q \in Seq(ProcessCommands) /\ q # <<>> /\ todo[m] = <<>>
  BY DEF FleetTypeOK, handleProcessCommand
<1>2. Tail(q) \in Seq(ProcessCommands) /\ c \in ProcessCommands
  BY <1>1
<1>3. calls \in Seq(Jobs)
  <2> HIDE DEF c
  <2> QED BY <1>2, JobsTyped
<1>4. commandQueue' = [commandQueue EXCEPT ![m] = Tail(q)] /\ todo' = [todo EXCEPT ![m] = calls]
  BY DEF handleProcessCommand
<1>5. QED
  <2>1. /\ commandQueue' \in [Managers -> Seq(ProcessCommands)] /\ todo' \in [Managers -> Seq(Jobs)]
        /\ commandQueue'[m] = Tail(q) /\ todo'[m] = calls
        /\ \A n \in Managers : n # m => commandQueue'[n] = commandQueue[n] /\ todo'[n] = todo[n]
    <3> HIDE DEF calls, q
    <3> QED BY <1>1, <1>2, <1>3, <1>4
  <2>2. QED
    BY <1>1, <1>2, <2>1

-----------------------------------------------------------------------------
(* Types, and what is known of the processes *)

FleetSafe == FleetTypeOK /\ MemoryInv

LEMMA SafeInit == ManagersInit => FleetSafe
<1> SUFFICES ASSUME ManagersInit PROVE FleetSafe
  OBVIOUS
<1>1. /\ alive = [m \in Managers |-> TRUE]
      /\ executables = [m \in Managers |-> Constructed(m)]
      /\ commandQueue = [m \in Managers |-> <<>>]
      /\ todo = [m \in Managers |-> <<>>]
      /\ procs = [m \in Managers |-> [k \in Keys |-> NoProcess]]
      /\ wish = [m \in Managers |-> [k \in Keys |-> NoWish]]
      /\ commanded = [m \in Managers |-> {}]
  BY DEF ManagersInit
<1>2. \A m \in Managers : Constructed(m) \in Memories
  BY ConstructedTyped
<1>3. NoWish \in Wishes
  BY DEF NoWish, Wishes, UNKNOWN_PARAMS
<1>4. FleetTypeOK
  BY <1>1, <1>2, <1>3 DEF FleetTypeOK
<1>5. ASSUME NEW m \in Managers, NEW k \in Keys
      PROVE  Knows(ExecOf(executables[m], k), procs[m][k])
  BY <1>1, ConstructedTyped DEF Knows
<1>6. QED
  BY <1>1, <1>4, <1>5, ProcessManagerAssumption DEF FleetSafe, MemoryInv

LEMMA SafeRun ==
  ASSUME FleetSafe, NEW m \in Managers, run(m)
  PROVE  FleetSafe'
<1> USE DEF FleetSafe
<1>1. UNCHANGED <<alive, commandQueue, todo, wish, commanded>>
  BY DEF run, historyVars
<1>2. FleetTypeOK'
  BY <1>1, RunStep DEF FleetTypeOK
<1>3. ASSUME NEW n \in Managers, NEW k \in Keys
      PROVE  Knows(ExecOf(executables'[n], k), procs'[n][k])
  <2>1. CASE n # m
    BY <2>1, RunStep DEF MemoryInv
  <2>2. CASE n = m
    <3>1. ExecOf(executables[m], k) \in Executable /\ procs[m][k] \in Nat \cup {NoProcess}
          /\ Knows(ExecOf(executables[m], k), procs[m][k])
      BY ExecOfTyped DEF FleetTypeOK, MemoryInv
    <3>2. QED
      BY <2>2, <3>1, UpdatedKnows, RunStep
  <2>3. QED
    BY <2>1, <2>2
<1>4. QED
  BY <1>1, <1>2, <1>3 DEF MemoryInv

LEMMA SafeHandle ==
  ASSUME FleetSafe, NEW m \in Managers, handleProcessCommand(m)
  PROVE  FleetSafe'
<1> USE DEF FleetSafe
<1>1. UNCHANGED <<alive, executables, procs, wish, commanded>> /\ alive[m]
  BY DEF handleProcessCommand, historyVars
<1>2. FleetTypeOK'
  BY <1>1, HandleStep DEF FleetTypeOK
<1>3. ASSUME NEW n \in Managers
      PROVE  /\ Len(commandQueue'[n]) <= QueueSize
             /\ ~alive[n] => commandQueue'[n] = <<>> /\ todo'[n] = <<>>
  <2>1. CASE n = m
    <3>1. commandQueue[m] \in Seq(ProcessCommands) /\ commandQueue[m] # <<>>
          /\ Len(commandQueue[m]) <= QueueSize /\ commandQueue'[m] = Tail(commandQueue[m])
      BY HandleStep DEF MemoryInv
    <3>2. QED
      BY <1>1, <2>1, <3>1, ProcessManagerAssumption
  <2>2. CASE n # m
    BY <2>2, HandleStep DEF MemoryInv
  <2>3. QED
    BY <2>1, <2>2
<1>4. QED
  BY <1>1, <1>2, <1>3 DEF MemoryInv

LEMMA SafeChange ==
  ASSUME FleetSafe, NEW m \in Managers, changeDesiredState(m)
  PROVE  FleetSafe'
<1> USE DEF FleetSafe
<1>1. /\ UNCHANGED <<alive, commandQueue, procs, wish, commanded>> /\ alive[m]
      /\ todo' = [todo EXCEPT ![m] = Tail(@)] /\ todo[m] # <<>>
  BY DEF changeDesiredState, historyVars
<1>2. todo' \in [Managers -> Seq(Jobs)]
  BY <1>1 DEF FleetTypeOK
<1>3. FleetTypeOK'
  BY <1>1, <1>2, ChangeStep DEF FleetTypeOK
<1>4. ASSUME NEW n \in Managers, NEW k \in Keys
      PROVE  Knows(ExecOf(executables'[n], k), procs'[n][k])
  <2>1. Head(todo[m]) \in Jobs
    BY <1>1 DEF FleetTypeOK
  <2>2. ExecOf(executables[m], k) \in Executable /\ Knows(ExecOf(executables[n], k), procs[n][k])
    BY ExecOfTyped DEF FleetTypeOK, MemoryInv
  <2>3. CASE n = m
    BY <1>1, <2>1, <2>2, <2>3, ChangeStep, CommandedTyped
  <2>4. CASE n # m
    BY <1>1, <2>2, <2>4, ChangeStep
  <2>5. QED
    BY <2>3, <2>4
<1>5. \A n \in Managers : ~alive[n] => todo'[n] = <<>>
  BY <1>1 DEF MemoryInv, FleetTypeOK
<1>6. QED
  BY <1>1, <1>3, <1>4, <1>5 DEF MemoryInv

LEMMA PublishStep ==
  ASSUME FleetSafe, NEW c \in ProcessCommands, Publish(c)
  PROVE  /\ UNCHANGED <<alive, executables, todo, procs>>
         /\ \A m \in Managers :
              /\ commandQueue'[m] = IF alive[m] THEN Enqueue(commandQueue[m], c) ELSE <<>>
              /\ commandQueue[m] \in Seq(ProcessCommands) /\ Len(commandQueue[m]) <= QueueSize
              /\ commanded'[m] = commanded[m] \cup {k \in Keys : alive[m] /\ Meant(m, c, k) # {}}
              /\ \A k \in Keys :
                   wish'[m][k] =
                     IF ~alive[m] THEN wish[m][k]
                     ELSE IF Meant(m, c, k) # {} THEN Wished(m, c, k)
                     ELSE IF Len(commandQueue[m]) = QueueSize /\ Meant(m, Head(commandQueue[m]), k) # {}
                          THEN NoWish ELSE wish[m][k]
BY DEF Publish, FleetSafe, FleetTypeOK, MemoryInv

LEMMA SafePublish ==
  ASSUME FleetSafe, NEW c \in ProcessCommands, Publish(c)
  PROVE  FleetSafe'
<1> USE DEF FleetSafe
<1>1. commandQueue' \in [Managers -> Seq(ProcessCommands)]
  <2>1. commandQueue' = [m \in Managers |-> IF alive[m] THEN Enqueue(commandQueue[m], c) ELSE <<>>]
    BY DEF Publish
  <2>2. QED
    BY <2>1, PublishStep, EnqueueTyped
<1>2. wish' \in [Managers -> [Keys -> Wishes]]
  <2>1. ASSUME NEW m \in Managers, NEW k \in Keys PROVE wish'[m][k] \in Wishes
    <3>1. NoWish \in Wishes
      BY DEF NoWish, Wishes, UNKNOWN_PARAMS
    <3>2. Meant(m, c, k) # {} => Wished(m, c, k) \in Wishes
      BY WishedTyped
    <3>3. wish[m][k] \in Wishes
      BY DEF FleetTypeOK
    <3>4. QED
      BY <3>1, <3>2, <3>3, PublishStep
  <2>2. wish' = [m \in Managers |-> [k \in Keys |-> wish'[m][k]]]
    BY DEF Publish
  <2>3. QED
    BY <2>1, <2>2
<1>3. commanded' \in [Managers -> SUBSET Keys]
  BY DEF Publish, FleetTypeOK
<1>4. FleetTypeOK'
  BY <1>1, <1>2, <1>3, PublishStep DEF FleetTypeOK
<1>5. \A m \in Managers : /\ Len(commandQueue'[m]) <= QueueSize
                          /\ ~alive[m] => commandQueue'[m] = <<>>
  BY PublishStep, EnqueueTyped, ProcessManagerAssumption, SMTT(30)
<1>6. QED
  BY <1>4, <1>5, PublishStep DEF MemoryInv

LEMMA SafeEnvironment ==
  ASSUME FleetSafe, Environment
  PROVE  FleetSafe'
<1> USE DEF FleetSafe
<1>1. ASSUME NEW m \in Managers, Ends(m), UNCHANGED <<wish, commanded>>,
             procs' \in [Managers -> [Keys -> Nat \cup {NoProcess}]],
             \A n \in Managers : n # m => procs'[n] = procs[n]
      PROVE  FleetSafe'
  <2>1. <<>> \in Memories
    <3>1. <<>> \in [{} -> Executable]
      OBVIOUS
    <3>2. QED
      BY <3>1 DEF Memories
  <2>2. FleetTypeOK'
    BY <1>1, <2>1 DEF Ends, FleetTypeOK
  <2>3. \A k : ExecOf(<<>>, k) = NewExecutable
    BY DEF ExecOf
  <2>4. \A p : Knows(NewExecutable, p)
    BY DEF Knows, NewExecutable
  <2>5. ASSUME NEW n \in Managers, NEW k \in Keys
        PROVE  Knows(ExecOf(executables'[n], k), procs'[n][k])
    BY <1>1, <2>3, <2>4 DEF Ends, FleetTypeOK, MemoryInv
  <2>6. QED
    BY <1>1, <2>2, <2>5, ProcessManagerAssumption DEF Ends, FleetTypeOK, MemoryInv
<1>2. ASSUME NEW m \in Managers, Start(m) PROVE FleetSafe'
  <2>1. FleetTypeOK'
    BY <1>2, ConstructedTyped DEF Start, FleetTypeOK
  <2>2. ASSUME NEW n \in Managers, NEW k \in Keys
        PROVE  Knows(ExecOf(executables'[n], k), procs'[n][k])
    <3>1. CASE n # m
      BY <1>2, <3>1 DEF Start, FleetTypeOK, MemoryInv
    <3>2. CASE n = m
      <4>1. executables'[n] = Constructed(n)
        BY <1>2, <3>2 DEF Start, FleetTypeOK
      <4>2. QED
        BY <4>1, ConstructedTyped DEF Knows
    <3>3. QED
      BY <3>1, <3>2
  <2>3. QED
    BY <1>2, <2>1, <2>2 DEF Start, FleetTypeOK, MemoryInv
<1>3. ASSUME NEW s \in StartedByUsers, StartedByHand(s[1], s[2], s[3]) PROVE FleetSafe'
  <2>1. s[1] \in Managers /\ s[2] \in Keys /\ s[3] \in Nat
    BY ProcessManagerAssumption, RegistryAssumption DEF Keys
  <2> DEFINE m == s[1]
             k == s[2]
  <2>2. /\ procs' = [procs EXCEPT ![m][k] = s[3]] /\ procs[m][k] = NoProcess
        /\ UNCHANGED <<alive, executables, commandQueue, todo, wish, commanded>>
    BY <1>3 DEF StartedByHand, managerVars
  <2>3. FleetTypeOK'
    BY <2>1, <2>2 DEF FleetTypeOK
  <2>4. ASSUME NEW n \in Managers, NEW j \in Keys
        PROVE  Knows(ExecOf(executables[n], j), procs'[n][j])
    <3>1. CASE n = m /\ j = k
      <4>1. s[3] # NoProcess
        BY <2>1 DEF NoProcess
      <4>2. Knows(ExecOf(executables[n], j), NoProcess)
        BY <2>2, <3>1 DEF MemoryInv
      <4>3. procs'[n][j] = s[3]
        BY <2>1, <2>2, <3>1 DEF FleetTypeOK
      <4>4. QED
        BY <4>1, <4>2, <4>3 DEF Knows
    <3>2. CASE ~(n = m /\ j = k)
      <4>1. procs'[n][j] = procs[n][j]
        BY <2>1, <2>2, <3>2 DEF FleetTypeOK
      <4>2. QED
        BY <4>1 DEF MemoryInv
    <3>3. QED
      BY <3>1, <3>2
  <2>5. QED
    BY <2>2, <2>3, <2>4 DEF MemoryInv
<1>4. ASSUME NEW m \in Managers, Crash(m) PROVE FleetSafe'
  BY <1>1, <1>4 DEF Crash, FleetTypeOK
<1>5. ASSUME NEW m \in Managers, runThrows(m) PROVE FleetSafe'
  BY <1>1, <1>5, ThrowStep DEF runThrows, historyVars
<1>6. QED
  BY <1>2, <1>3, <1>4, <1>5 DEF Environment

-----------------------------------------------------------------------------
(* The wishes *)

LEMMA WishSame ==
  ASSUME NEW m, NEW k, WishAt(m, k),
         executables'[m] = executables[m], commandQueue'[m] = commandQueue[m], todo'[m] = todo[m],
         wish'[m] = wish[m], commanded'[m] = commanded[m]
  PROVE  WishAt(m, k)'
BY DEF WishAt, Obeys, Untouched

LEMMA WishInit == ManagersInit => WishInv
<1> SUFFICES ASSUME ManagersInit, NEW m \in Managers, NEW k \in Keys PROVE WishAt(m, k)
  BY DEF WishInv
<1>1. /\ executables[m] = Constructed(m) /\ commandQueue[m] = <<>> /\ todo[m] = <<>>
      /\ commanded[m] = {}
  BY DEF ManagersInit
<1>2. k \notin DOMAIN Constructed(m) => Idle(ExecOf(Constructed(m), k))
  BY ConstructedTyped DEF Idle, NewExecutable
<1>3. QED
  BY <1>1, <1>2, PlacesTyped DEF WishAt, Untouched

LEMMA WishRun ==
  ASSUME FleetInv, NEW m \in Managers, run(m)
  PROVE  WishInv'
<1>1. FleetTypeOK /\ MemoryInv /\ WishInv
  BY DEF FleetInv
<1>2. UNCHANGED <<alive, commandQueue, todo, wish, commanded>> /\ alive[m]
  BY DEF run, historyVars
<1>3. ASSUME NEW n \in Managers, n # m, alive[n], NEW k \in Keys PROVE WishAt(n, k)'
  BY <1>1, <1>2, <1>3, RunStep, WishSame DEF WishInv
<1>4. ASSUME NEW k \in Keys PROVE WishAt(m, k)'
  <2> DEFINE x == ExecOf(executables[m], k)
             p == procs[m][k]
  <2>1. x \in Executable /\ p \in Nat \cup {NoProcess} /\ Knows(x, p) /\ wish[m][k] \in Wishes
    BY <1>1, ExecOfTyped DEF FleetTypeOK, MemoryInv
  <2>2. ExecOf(executables'[m], k) = Updated(x, p).exec
    BY <1>1, RunStep
  <2>3. WishAt(m, k)
    BY <1>1, <1>2 DEF WishInv
  <2>4. Agrees(x, wish[m][k]) => Agrees(ExecOf(executables'[m], k), wish[m][k])
    BY <2>1, <2>2, UpdatedAgrees
  <2>5. Idle(x) => Idle(ExecOf(executables'[m], k))
    BY <2>1, <2>2, UpdatedIdle
  <2>6. QED
    BY <1>2, <2>3, <2>4, <2>5 DEF WishAt, Obeys, Untouched
<1>5. QED
  BY <1>2, <1>3, <1>4 DEF WishInv

LEMMA WishHandle ==
  ASSUME FleetInv, NEW m \in Managers, handleProcessCommand(m)
  PROVE  WishInv'
<1>1. FleetTypeOK /\ MemoryInv /\ WishInv
  BY DEF FleetInv
<1>2. UNCHANGED <<alive, executables, procs, wish, commanded>> /\ alive[m]
  BY DEF handleProcessCommand, historyVars
<1>3. ASSUME NEW n \in Managers, n # m, alive[n], NEW k \in Keys PROVE WishAt(n, k)'
  BY <1>1, <1>2, <1>3, HandleStep, WishSame DEF WishInv
<1>4. ASSUME NEW k \in Keys PROVE WishAt(m, k)'
  <2> DEFINE q == commandQueue[m]
             c == Head(q)
             S == MeantIn(m, q, k)
             T == MeantIn(m, Tail(q), k)
             J == JobsFor(todo'[m], k)
  <2>1. /\ q \in Seq(ProcessCommands) /\ q # <<>> /\ c \in ProcessCommands /\ todo[m] = <<>>
        /\ commandQueue'[m] = Tail(q)
        /\ todo'[m] = IF IsForMe(m, c) /\ ~Malformed(c) THEN JobsOf(c) ELSE <<>>
    BY <1>1, HandleStep
  <2>2. WishAt(m, k)
    BY <1>1, <1>2 DEF WishInv
  <2>3. /\ T = {} => S \subseteq {1}
        /\ 1 \notin S /\ S # {} => T # {}
        /\ \A i \in T : i + 1 \in S
        /\ \A i \in T : Latest(i, T) => Latest(i + 1, S)
    BY <2>1, MeantInTail
  <2>4. 1 \in S <=> Meant(m, c, k) # {}
    BY <2>1 DEF MeantIn
  <2>5. J = {} <=> Meant(m, c, k) = {}
    BY <2>1, MeantJobs, PlacesTyped
  <2>6. JobsFor(todo[m], k) = {}
    BY <2>1, PlacesTyped
  <2>7. ASSUME k \in commanded[m], wish[m][k].cmd # "none" PROVE Obeys(m, k)'
    <3>1. Obeys(m, k)
      BY <2>2, <2>7 DEF WishAt
    <3>2. \A i \in T : Latest(i, T) => wish[m][k] = Wished(m, Tail(q)[i], k)
      <4>1. ASSUME NEW i \in T, Latest(i, T) PROVE wish[m][k] = Wished(m, Tail(q)[i], k)
        <5>1. i + 1 \in S /\ Latest(i + 1, S)
          BY <2>3, <4>1
        <5>2. Tail(q)[i] = q[i + 1]
          BY <2>1 DEF MeantIn
        <5>3. QED
          BY <3>1, <5>1, <5>2 DEF Obeys
      <4>2. QED
        BY <4>1
    <3>3. ASSUME T = {}, NEW i \in J, Latest(i, J) PROVE wish[m][k] = WishOf(todo'[m][i])
      <4>1. Meant(m, c, k) # {}
        BY <2>5, <3>3
      <4>2. IsForMe(m, c) /\ ~Malformed(c)
        BY <4>1, MeantJobs
      <4>3. todo'[m] = JobsOf(c) /\ J = Meant(m, c, k)
        <5>1. JobsFor(JobsOf(c), k) = Meant(m, c, k)
          <6> HIDE DEF c
          <6>1. /\ Meant(m, c, k) \subseteq JobsFor(JobsOf(c), k)
                /\ JobsFor(JobsOf(c), k) \subseteq Meant(m, c, k)
            BY <4>2, MeantJobs
          <6>2. QED
            BY <6>1
        <5>2. todo'[m] = JobsOf(c)
          BY <2>1, <4>2
        <5>3. QED
          BY <5>1, <5>2
      <4>4. Wished(m, c, k) = WishOf(JobsOf(c)[i])
        BY <2>1, <3>3, <4>3, WishedIs
      <4>5. 1 \in S /\ Latest(1, S)
        BY <2>3, <2>4, <3>3, <4>1 DEF Latest
      <4>6. wish[m][k] = Wished(m, q[1], k)
        BY <3>1, <4>5 DEF Obeys
      <4>7. QED
        BY <2>1, <4>3, <4>4, <4>6
    <3>4. ASSUME T = {}, J = {} PROVE Agrees(ExecOf(executables[m], k), wish[m][k])
      <4>1. S = {}
        BY <2>3, <2>4, <2>5, <3>4
      <4>2. QED
        BY <2>6, <3>1, <4>1 DEF Obeys
    <3>5. QED
      BY <1>2, <2>1, <3>2, <3>3, <3>4 DEF Obeys
  <2>8. ASSUME Untouched(m, k) PROVE Untouched(m, k)'
    <3>1. S = {} /\ Idle(ExecOf(executables[m], k))
      BY <2>8 DEF Untouched
    <3>2. T = {} /\ J = {}
      BY <2>3, <2>4, <2>5, <3>1
    <3>3. QED
      BY <1>2, <2>1, <3>1, <3>2 DEF Untouched
  <2>9. QED
    BY <1>2, <2>2, <2>7, <2>8 DEF WishAt
<1>5. QED
  BY <1>2, <1>3, <1>4 DEF WishInv

LEMMA WishChange ==
  ASSUME FleetInv, NEW m \in Managers, changeDesiredState(m)
  PROVE  WishInv'
<1>1. FleetTypeOK /\ MemoryInv /\ WishInv
  BY DEF FleetInv
<1>2. UNCHANGED <<alive, commandQueue, procs, wish, commanded>> /\ alive[m]
      /\ todo' = [todo EXCEPT ![m] = Tail(@)] /\ todo[m] # <<>>
  BY DEF changeDesiredState, historyVars
<1>3. todo \in [Managers -> Seq(Jobs)] /\ todo'[m] = Tail(todo[m])
      /\ \A n \in Managers : n # m => todo'[n] = todo[n]
  BY <1>1, <1>2 DEF FleetTypeOK
<1>4. ASSUME NEW n \in Managers, n # m, alive[n], NEW k \in Keys PROVE WishAt(n, k)'
  <2>1. executables'[n] = executables[n]
    BY <1>1, <1>4, ChangeStep
  <2>2. WishAt(n, k)
    BY <1>1, <1>4 DEF WishInv
  <2>3. QED
    BY <1>2, <1>3, <1>4, <2>1, <2>2, WishSame
<1>5. ASSUME NEW k \in Keys PROVE WishAt(m, k)'
  <2> DEFINE jobs == todo[m]
             job == Head(jobs)
             S == JobsFor(jobs, k)
             T == JobsFor(Tail(jobs), k)
             M == MeantIn(m, commandQueue[m], k)
             x == ExecOf(executables[m], k)
             y == ExecOf(executables'[m], k)
  <2>1. jobs \in Seq(Jobs) /\ jobs # <<>> /\ job = jobs[1] /\ job \in Jobs /\ todo'[m] = Tail(jobs)
        /\ x \in Executable
    BY <1>1, <1>2, <1>3, ExecOfTyped DEF FleetTypeOK
  <2>2. y = IF KeyOf(job) = k THEN Commanded(x, job) ELSE x
    BY <1>1, ChangeStep
  <2>3. WishAt(m, k)
    BY <1>1, <1>2 DEF WishInv
  <2>4. /\ T = {} => S \subseteq {1}
        /\ \A i \in T : i + 1 \in S
        /\ \A i \in T : Latest(i, T) => Latest(i + 1, S)
    BY <2>1, JobsForTail
  <2>5. 1 \in S <=> job.cmd \in {"START", "STOP"} /\ KeyOf(job) = k
    BY <2>1 DEF JobsFor, KeyOf, Keys
  <2>6. 1 \notin S => y = x
    BY <2>1, <2>2, <2>5, CommandedTyped
  <2>7. ASSUME k \in commanded[m], wish[m][k].cmd # "none" PROVE Obeys(m, k)'
    <3>1. Obeys(m, k)
      BY <2>3, <2>7 DEF WishAt
    <3>2. ASSUME M = {}, NEW i \in T, Latest(i, T) PROVE wish[m][k] = WishOf(Tail(jobs)[i])
      <4>1. i + 1 \in S /\ Latest(i + 1, S)
        BY <2>4, <3>2
      <4>2. Tail(jobs)[i] = jobs[i + 1]
        BY <2>1 DEF JobsFor
      <4>3. QED
        BY <3>1, <3>2, <4>1, <4>2 DEF Obeys
    <3>3. ASSUME M = {}, T = {} PROVE Agrees(y, wish[m][k])
      <4>1. CASE 1 \in S
        <5>1. Latest(1, S)
          BY <2>4, <3>3 DEF Latest
        <5>2. wish[m][k] = WishOf(job)
          BY <2>1, <3>1, <3>3, <4>1, <5>1 DEF Obeys
        <5>3. QED
          BY <2>1, <2>2, <2>5, <4>1, <5>2, CommandedTyped
      <4>2. CASE 1 \notin S
        <5>1. S = {}
          BY <2>4, <3>3, <4>2
        <5>2. Agrees(x, wish[m][k])
          BY <3>1, <3>3, <5>1 DEF Obeys
        <5>3. QED
          BY <2>6, <4>2, <5>2
      <4>3. QED
        BY <4>1, <4>2
    <3>4. QED
      BY <1>2, <2>1, <3>1, <3>2, <3>3 DEF Obeys
  <2>8. ASSUME Untouched(m, k) PROVE Untouched(m, k)'
    <3>1. S = {} /\ M = {} /\ Idle(x)
      BY <2>8 DEF Untouched
    <3>2. T = {} /\ y = x
      BY <2>4, <2>6, <3>1
    <3>3. QED
      BY <1>2, <2>1, <3>1, <3>2 DEF Untouched
  <2>9. QED
    BY <1>2, <2>3, <2>7, <2>8 DEF WishAt
<1>6. QED
  BY <1>2, <1>4, <1>5 DEF WishInv

LEMMA EnqueueCases ==
  ASSUME NEW q \in Seq(ProcessCommands), Len(q) <= QueueSize, NEW c \in ProcessCommands
  PROVE  \/ Len(q) < QueueSize /\ Enqueue(q, c) = Append(q, c)
         \/ Len(q) = QueueSize /\ q # <<>> /\ Enqueue(q, c) = Append(Tail(q), c)
<1>1. Len(q) \in Nat /\ (Len(q) < QueueSize \/ Len(q) = QueueSize)
  BY ProcessManagerAssumption
<1>2. QED
  BY <1>1, EnqueueTyped

LEMMA WishPublish ==
  ASSUME FleetInv, NEW c \in ProcessCommands, Publish(c)
  PROVE  WishInv'
<1>1. FleetSafe /\ WishInv
  BY DEF FleetInv, FleetSafe
<1>2. UNCHANGED <<alive, executables, todo, procs>>
  BY <1>1, PublishStep
<1>3. ASSUME NEW m \in Managers, alive[m], NEW k \in Keys PROVE WishAt(m, k)'
  <2> DEFINE q == commandQueue[m]
             S == MeantIn(m, q, k)
             R == MeantIn(m, Tail(q), k)
             T == MeantIn(m, commandQueue'[m], k)
             dropped == Len(q) = QueueSize /\ Meant(m, Head(q), k) # {}
  <2>1. /\ q \in Seq(ProcessCommands) /\ Len(q) <= QueueSize /\ Len(q) \in Nat
        /\ commandQueue'[m] = Enqueue(q, c)
        /\ k \in commanded'[m] <=> k \in commanded[m] \/ Meant(m, c, k) # {}
        /\ wish'[m][k] = IF Meant(m, c, k) # {} THEN Wished(m, c, k)
                         ELSE IF dropped THEN NoWish ELSE wish[m][k]
    <3>1. q \in Seq(ProcessCommands) /\ Len(q) <= QueueSize /\ commandQueue'[m] = Enqueue(q, c)
      BY <1>1, <1>3, PublishStep
    <3>2. commanded'[m] = commanded[m] \cup {j \in Keys : alive[m] /\ Meant(m, c, j) # {}}
      BY <1>1, PublishStep
    <3>3. wish'[m][k] = IF Meant(m, c, k) # {} THEN Wished(m, c, k)
                        ELSE IF dropped THEN NoWish ELSE wish[m][k]
      BY <1>1, <1>3, PublishStep
    <3>4. QED
      BY <1>3, <3>1, <3>2, <3>3
  <2>2. WishAt(m, k)
    BY <1>1, <1>3 DEF WishInv
  <2>3. \/ Len(q) < QueueSize /\ commandQueue'[m] = Append(q, c)
        \/ Len(q) = QueueSize /\ q # <<>> /\ commandQueue'[m] = Append(Tail(q), c)
    BY <2>1, EnqueueCases
  <2>4. CASE Meant(m, c, k) # {}
    <3>1. T # {} /\ \A i \in T : Latest(i, T) => commandQueue'[m][i] = c
      <4>1. ASSUME NEW r \in Seq(ProcessCommands)
            PROVE  /\ MeantIn(m, Append(r, c), k) # {}
                   /\ \A i \in MeantIn(m, Append(r, c), k) :
                        Latest(i, MeantIn(m, Append(r, c), k)) => Append(r, c)[i] = c
        <5>1. Append(r, c)[Len(r) + 1] = c
          OBVIOUS
        <5>2. QED
          BY <2>4, <5>1, MeantInAppend
      <4>2. q \in Seq(ProcessCommands) /\ (q # <<>> => Tail(q) \in Seq(ProcessCommands))
        BY <2>1
      <4>3. QED
        <5> HIDE DEF q
        <5> QED BY <2>3, <4>1, <4>2
    <3>2. Obeys(m, k)'
      BY <2>1, <2>4, <3>1 DEF Obeys
    <3>3. QED
      BY <2>1, <2>4, <3>2 DEF WishAt
  <2>5. CASE Meant(m, c, k) = {}
    <3>1. \/ T = S /\ \A i \in T : commandQueue'[m][i] = q[i]
          \/ Len(q) = QueueSize /\ q # <<>> /\ T = MeantIn(m, Tail(q), k)
             /\ \A i \in T : commandQueue'[m][i] = Tail(q)[i]
      <4>1. ASSUME NEW r \in Seq(ProcessCommands)
            PROVE  /\ MeantIn(m, Append(r, c), k) = MeantIn(m, r, k)
                   /\ \A i \in MeantIn(m, r, k) : Append(r, c)[i] = r[i]
        <5>1. MeantIn(m, r, k) \subseteq 1 .. Len(r)
          BY PlacesTyped
        <5>2. QED
          BY <2>5, <5>1, MeantInAppend
      <4>2. q \in Seq(ProcessCommands) /\ (q # <<>> => Tail(q) \in Seq(ProcessCommands))
        BY <2>1
      <4>3. QED
        <5> HIDE DEF q
        <5> QED BY <2>3, <4>1, <4>2
    <3>2. ASSUME q # <<>>
          PROVE  /\ 1 \notin S /\ S # {} => R # {}
                 /\ \A i \in R : i + 1 \in S /\ Tail(q)[i] = q[i + 1]
                 /\ \A i \in R : Latest(i, R) => Latest(i + 1, S)
      <4>1. q \in Seq(ProcessCommands)
        BY <2>1
      <4>2. \A i \in R : Tail(q)[i] = q[i + 1]
        BY <3>2, <4>1 DEF MeantIn
      <4>3. /\ 1 \notin S /\ S # {} => R # {}
            /\ \A i \in R : i + 1 \in S
            /\ \A i \in R : Latest(i, R) => Latest(i + 1, S)
        BY <3>2, <4>1, MeantInTail
      <4>4. QED
        BY <4>2, <4>3
    <3>3. 1 \in S /\ q # <<>> /\ Len(q) = QueueSize => dropped
      BY <2>1 DEF MeantIn
    <3>4. ASSUME k \in commanded'[m], wish'[m][k].cmd # "none" PROVE Obeys(m, k)'
      <4>1. ~dropped /\ wish'[m][k] = wish[m][k] /\ k \in commanded[m]
        <5>1. NoWish.cmd = "none"
          BY DEF NoWish
        <5>2. QED
          BY <2>1, <2>5, <3>4, <5>1
      <4>2. Obeys(m, k)
        BY <2>2, <3>4, <4>1 DEF WishAt
      <4>3. \A i \in T : Latest(i, T) => wish[m][k] = Wished(m, commandQueue'[m][i], k)
        <5>1. CASE T = S /\ \A i \in T : commandQueue'[m][i] = q[i]
          BY <4>2, <5>1 DEF Obeys
        <5>2. CASE /\ Len(q) = QueueSize /\ q # <<>> /\ T = MeantIn(m, Tail(q), k)
                   /\ \A i \in T : commandQueue'[m][i] = Tail(q)[i]
          <6>1. ASSUME NEW i \in T, Latest(i, T) PROVE wish[m][k] = Wished(m, commandQueue'[m][i], k)
            <7>1. i + 1 \in S /\ Latest(i + 1, S) /\ commandQueue'[m][i] = q[i + 1]
              BY <3>2, <5>2, <6>1
            <7>2. QED
              BY <4>2, <7>1 DEF Obeys
          <6>2. QED
            BY <6>1
        <5>3. QED
          BY <3>1, <5>1, <5>2
      <4>4. T = {} => S = {}
        BY <3>1, <3>2, <3>3, <4>1
      <4>5. QED
        BY <1>2, <4>1, <4>2, <4>3, <4>4 DEF Obeys
    <3>5. ASSUME Untouched(m, k) PROVE Untouched(m, k)'
      <4>1. S = {}
        BY <3>5 DEF Untouched
      <4>2. T = {}
        BY <3>1, <3>2, <4>1
      <4>3. QED
        BY <1>2, <3>5, <4>2 DEF Untouched
    <3>6. QED
      BY <2>1, <2>2, <2>5, <3>4, <3>5 DEF WishAt
  <2>6. QED
    BY <2>4, <2>5
<1>4. QED
  BY <1>2, <1>3 DEF WishInv

LEMMA WishEnvironment ==
  ASSUME FleetInv, Environment
  PROVE  WishInv'
<1>1. FleetTypeOK /\ MemoryInv /\ WishInv
  BY DEF FleetInv
<1>2. ASSUME NEW m \in Managers, Crash(m) \/ runThrows(m) PROVE WishInv'
  <2>1. ASSUME NEW n \in Managers, alive'[n], NEW k \in Keys PROVE WishAt(n, k)'
    <3>1. /\ n # m /\ alive[n] /\ executables'[n] = executables[n] /\ commandQueue'[n] = commandQueue[n]
          /\ todo'[n] = todo[n] /\ UNCHANGED <<wish, commanded>>
      BY <1>1, <1>2, <2>1 DEF Crash, runThrows, Ends, historyVars, FleetTypeOK
    <3>2. QED
      BY <1>1, <3>1, WishSame DEF WishInv
  <2>2. QED
    BY <2>1 DEF WishInv
<1>3. ASSUME NEW m \in Managers, Start(m) PROVE WishInv'
  <2>1. ASSUME NEW n \in Managers, n # m, alive'[n], NEW k \in Keys PROVE WishAt(n, k)'
    <3>1. /\ alive[n] /\ executables'[n] = executables[n] /\ commanded'[n] = commanded[n]
          /\ UNCHANGED <<commandQueue, todo, wish>>
      BY <1>1, <1>3, <2>1 DEF Start, FleetTypeOK
    <3>2. QED
      BY <1>1, <3>1, WishSame DEF WishInv
  <2>2. ASSUME NEW k \in Keys PROVE WishAt(m, k)'
    <3>1. /\ executables'[m] = Constructed(m) /\ commanded'[m] = {}
          /\ commandQueue'[m] = <<>> /\ todo'[m] = <<>>
      BY <1>1, <1>3 DEF Start, FleetTypeOK, MemoryInv
    <3>2. k \notin DOMAIN Constructed(m) => Idle(ExecOf(Constructed(m), k))
      BY ConstructedTyped DEF Idle, NewExecutable
    <3>3. QED
      BY <3>1, <3>2, PlacesTyped DEF WishAt, Untouched
  <2>3. QED
    BY <2>1, <2>2 DEF WishInv
<1>4. ASSUME NEW s \in StartedByUsers, StartedByHand(s[1], s[2], s[3]) PROVE WishInv'
  BY <1>1, <1>4, WishSame DEF StartedByHand, managerVars, WishInv
<1>5. QED
  BY <1>2, <1>3, <1>4 DEF Environment

-----------------------------------------------------------------------------
(* The theorems *)

LEMMA FleetInvStep ==
  ASSUME FleetInv, [FleetNext]_pmVars
  PROVE  FleetInv'
<1>1. FleetSafe /\ WishInv
  BY DEF FleetInv, FleetSafe
<1>2. SUFFICES FleetSafe' /\ WishInv'
  BY DEF FleetInv, FleetSafe
<1>3. ASSUME NEW m \in Managers, ManagerStep(m) PROVE FleetSafe' /\ WishInv'
  BY <1>1, <1>3, SafeHandle, SafeChange, SafeRun, WishHandle, WishChange, WishRun DEF ManagerStep
<1>4. ASSUME NEW c \in PublishedCommands, Publish(c) PROVE FleetSafe' /\ WishInv'
  BY <1>1, <1>4, SafePublish, WishPublish, ProcessManagerAssumption
<1>5. CASE Environment
  BY <1>1, <1>5, SafeEnvironment, WishEnvironment
<1>6. CASE UNCHANGED pmVars
  <2>1. UNCHANGED <<alive, executables, commandQueue, todo, procs, wish, commanded>>
    BY <1>6 DEF pmVars, managerVars, historyVars
  <2>2. FleetSafe'
    BY <1>1, <2>1 DEF FleetSafe, FleetTypeOK, MemoryInv
  <2>3. WishInv'
    BY <1>1, <2>1, WishSame DEF WishInv
  <2>4. QED
    BY <2>2, <2>3
<1>7. QED
  BY <1>3, <1>4, <1>5, <1>6 DEF FleetNext

\* Every state of a fleet is typed, every manager knows the processes it manages as they run, and
\* what waits in its queue or is left of a command is all that separates it from the wishes.
THEOREM FleetInvariant == FleetSpec => []FleetInv
<1>1. ManagersInit => FleetInv
  BY SafeInit, WishInit DEF FleetInv, FleetSafe
<1>2. FleetInv /\ [FleetNext]_pmVars => FleetInv'
  BY FleetInvStep
<1>3. QED
  BY <1>1, <1>2, PTL DEF FleetSpec

LEMMA InvGivesLastCommand == FleetInv => LastCommandWins
<1> SUFFICES ASSUME FleetInv, NEW m \in Managers, Settled(m), NEW k \in Keys
             PROVE  LET x == ExecOf(executables[m], k)
                    IN  /\ k \in commanded[m] /\ wish[m][k].cmd = "START" =>
                             x.desiredRunState = "SHOULD_RUN" /\ x.desiredParamSet = wish[m][k].params
                        /\ k \in commanded[m] /\ wish[m][k].cmd = "STOP" => x.desiredRunState # "SHOULD_RUN"
                        /\ k \notin commanded[m] \cup DOMAIN Constructed(m) => x.desiredRunState # "SHOULD_RUN"
  BY DEF LastCommandWins, ExecOf
<1>1. WishAt(m, k) /\ commandQueue[m] = <<>> /\ todo[m] = <<>>
  BY DEF FleetInv, WishInv, Settled
<1>2. k \in commanded[m] /\ wish[m][k].cmd # "none" => Agrees(ExecOf(executables[m], k), wish[m][k])
  BY <1>1, PlacesTyped DEF WishAt, Obeys
<1>3. k \notin commanded[m] \cup DOMAIN Constructed(m) => Idle(ExecOf(executables[m], k))
  BY <1>1 DEF WishAt, Untouched
<1>4. QED
  BY <1>2, <1>3 DEF Agrees, Idle

\* Once a manager has handled its queue, every executable is desired as the last command that named
\* it said, for every sequence of commands, every drop from the queue and every restart.
THEOREM LastCommandAlwaysWins == FleetSpec => []LastCommandWins
<1>1. FleetInv => LastCommandWins
  BY InvGivesLastCommand
<1>2. QED
  BY <1>1, FleetInvariant, PTL

LEMMA StepKeepsWanted ==
  ASSUME FleetInv, [FleetNext]_pmVars, NEW m \in Managers, Settled(m),
         NEW k \in Keys \ DOMAIN Constructed(m),
         wish[m][k] = [cmd |-> "START", params |-> procs[m][k]]
  PROVE  procs'[m][k] = procs[m][k]
<1> DEFINE x == ExecOf(executables[m], k)
           p == procs[m][k]
<1>1. FleetTypeOK /\ MemoryInv /\ WishInv
  BY DEF FleetInv
<1>2. p \in Nat
  <2>1. wish[m][k] \in Wishes /\ wish[m][k].cmd = "START" /\ wish[m][k].params = p
    BY <1>1 DEF FleetTypeOK
  <2>2. QED
    BY <2>1 DEF Wishes
<1>3. p # NoProcess
  BY <1>2 DEF NoProcess
<1>4. Updated(x, p).proc = p
  <2>1. x \in Executable /\ Knows(x, p) /\ WishAt(m, k)
    BY <1>1, ExecOfTyped DEF FleetTypeOK, MemoryInv, WishInv, Settled
  <2>2. CASE k \in commanded[m]
    <3>1. wish[m][k].cmd = "START" /\ wish[m][k].params = p
      OBVIOUS
    <3>2. Agrees(x, wish[m][k])
      BY <2>1, <2>2, <3>1, PlacesTyped DEF WishAt, Obeys, Settled
    <3>3. QED
      BY <1>2, <2>1, <3>1, <3>2, UpdatedKeepsWanted DEF Agrees
  <2>3. CASE k \notin commanded[m]
    <3>1. Idle(x)
      BY <2>1, <2>3 DEF WishAt, Untouched
    <3>2. QED
      BY <1>2, <2>1, <3>1, UpdatedIdle
  <2>4. QED
    BY <2>2, <2>3
<1>5. ASSUME NEW n \in Managers, ManagerStep(n) \/ runThrows(n) PROVE procs'[m][k] = p
  <2>1. CASE run(n)
    <3>1. n # m => procs'[m] = procs[m]
      BY <1>1, <2>1, RunStep
    <3>2. n = m => procs'[m][k] = Updated(x, p).proc
      BY <1>1, <2>1, RunStep
    <3>3. QED
      BY <1>4, <3>1, <3>2
  <2>2. CASE runThrows(n)
    <3>1. n # m => procs'[m] = procs[m]
      BY <1>1, <2>2, ThrowStep
    <3>2. n = m => procs'[m][k] \in {p, Updated(x, p).proc}
      BY <1>1, <2>2, ThrowStep
    <3>3. QED
      BY <1>4, <3>1, <3>2
  <2>3. CASE handleProcessCommand(n) \/ changeDesiredState(n)
    BY <2>3 DEF handleProcessCommand, changeDesiredState
  <2>4. QED
    BY <1>5, <2>1, <2>2, <2>3 DEF ManagerStep
<1>6. ASSUME NEW c \in PublishedCommands, Publish(c) PROVE procs'[m][k] = p
  BY <1>6 DEF Publish
<1>7. CASE Environment
  <2>1. ASSUME NEW n \in Managers, Crash(n) \/ Start(n) \/ runThrows(n) PROVE procs'[m][k] = p
    BY <1>5, <2>1 DEF Crash, Start
  <2>2. ASSUME NEW s \in StartedByUsers, StartedByHand(s[1], s[2], s[3]) PROVE procs'[m][k] = p
    <3>1. procs' = [procs EXCEPT ![s[1]][s[2]] = s[3]] /\ procs[s[1]][s[2]] = NoProcess
      BY <2>2 DEF StartedByHand
    <3>2. ~(s[1] = m /\ s[2] = k)
      BY <1>3, <3>1
    <3>3. QED
      BY <1>1, <3>1, <3>2 DEF FleetTypeOK
  <2>3. QED
    BY <1>7, <2>1, <2>2 DEF Environment
<1>8. CASE UNCHANGED pmVars
  BY <1>8 DEF pmVars
<1>9. QED
  BY <1>5, <1>6, <1>7, <1>8 DEF FleetNext

\* No step of any manager, old or restarted, and of nobody else, ends a process that runs as the
\* last command wished.
THEOREM WantedIsNeverKilled == FleetSpec => NeverKillsWanted
<1>1. FleetInv /\ [FleetNext]_pmVars =>
        [\A m \in Managers : Settled(m) =>
           \A k \in Keys \ DOMAIN Constructed(m) :
             wish[m][k] = [cmd |-> "START", params |-> procs[m][k]] => procs'[m][k] = procs[m][k]]_pmVars
  BY StepKeepsWanted
<1>2. QED
  BY <1>1, FleetInvariant, PTL DEF FleetSpec, NeverKillsWanted

=============================================================================
