--------------------------- MODULE DisplayProofs ---------------------------
(***************************************************************************)
(* Theorems about the operators' displays: what pm_control and             *)
(* robot_control show after a refresh was true a bounded time ago, for     *)
(* every team, every time-out and any number of messages that wait.        *)
(***************************************************************************)
EXTENDS Control, RobotsControl, ProcessManagerProofs

ByStats == INSTANCE FoldFacts WITH Op <- StatsOfRobots
ByInfos == INSTANCE FoldFacts WITH Op <- InfoOfRobots
ByQueue == INSTANCE FoldFacts WITH Op <- StatsHandled

-----------------------------------------------------------------------------
(* Folds over the queues: what the start has and a message keeps, the end has. *)

LEMMA StatsFolded ==
  ASSUME NEW base, NEW seq, NEW n \in Nat, DOMAIN seq = 1 .. n,
         NEW Good, base \in Good, \A a \in Good : \A i \in 1 .. n : StatsOfRobots(a, seq[i]) \in Good
  PROVE  FoldLeft(StatsOfRobots, base, seq) \in Good
<1> DEFINE Shape(g) == g = [s \in SUBSET DOMAIN seq |-> IF s = {} THEN base
                                                        ELSE StatsOfRobots(g[s \ {Max(s)}], seq[Max(s)])]
<1>1. \A g : Shape(g) <=> ByStats!Table(g, base, seq, 1 .. n)
  BY DEF ByStats!Table, ByStats!Top, Max
<1>2. \E g : Shape(g)
  BY <1>1, ByStats!TableExists
<1>3. FoldLeft(StatsOfRobots, base, seq) = (CHOOSE g : Shape(g))[DOMAIN seq]
  BY DEF FoldLeft, MapThenFoldSet
<1> HIDE DEF Shape
<1>4. PICK g : Shape(g) /\ FoldLeft(StatsOfRobots, base, seq) = g[1 .. n]
  BY <1>2, <1>3
<1>5. ByStats!Table(g, base, seq, 1 .. n)
  BY <1>1, <1>4
<1>6. g[1 .. n] \in Good
  BY <1>5, ByStats!FoldIn
<1>7. QED
  BY <1>4, <1>6

LEMMA InfosFolded ==
  ASSUME NEW base, NEW seq, NEW n \in Nat, DOMAIN seq = 1 .. n,
         NEW Good, base \in Good, \A a \in Good : \A i \in 1 .. n : InfoOfRobots(a, seq[i]) \in Good
  PROVE  FoldLeft(InfoOfRobots, base, seq) \in Good
<1> DEFINE Shape(g) == g = [s \in SUBSET DOMAIN seq |-> IF s = {} THEN base
                                                        ELSE InfoOfRobots(g[s \ {Max(s)}], seq[Max(s)])]
<1>1. \A g : Shape(g) <=> ByInfos!Table(g, base, seq, 1 .. n)
  BY DEF ByInfos!Table, ByInfos!Top, Max
<1>2. \E g : Shape(g)
  BY <1>1, ByInfos!TableExists
<1>3. FoldLeft(InfoOfRobots, base, seq) = (CHOOSE g : Shape(g))[DOMAIN seq]
  BY DEF FoldLeft, MapThenFoldSet
<1> HIDE DEF Shape
<1>4. PICK g : Shape(g) /\ FoldLeft(InfoOfRobots, base, seq) = g[1 .. n]
  BY <1>2, <1>3
<1>5. ByInfos!Table(g, base, seq, 1 .. n)
  BY <1>1, <1>4
<1>6. g[1 .. n] \in Good
  BY <1>5, ByInfos!FoldIn
<1>7. QED
  BY <1>4, <1>6

LEMMA QueueFolded ==
  ASSUME NEW base, NEW seq, NEW n \in Nat, DOMAIN seq = 1 .. n,
         NEW Good, base \in Good, \A a \in Good : \A i \in 1 .. n : StatsHandled(a, seq[i]) \in Good
  PROVE  FoldLeft(StatsHandled, base, seq) \in Good
<1> DEFINE Shape(g) == g = [s \in SUBSET DOMAIN seq |-> IF s = {} THEN base
                                                        ELSE StatsHandled(g[s \ {Max(s)}], seq[Max(s)])]
<1>1. \A g : Shape(g) <=> ByQueue!Table(g, base, seq, 1 .. n)
  BY DEF ByQueue!Table, ByQueue!Top, Max
<1>2. \E g : Shape(g)
  BY <1>1, ByQueue!TableExists
<1>3. FoldLeft(StatsHandled, base, seq) = (CHOOSE g : Shape(g))[DOMAIN seq]
  BY DEF FoldLeft, MapThenFoldSet
<1> HIDE DEF Shape
<1>4. PICK g : Shape(g) /\ FoldLeft(StatsHandled, base, seq) = g[1 .. n]
  BY <1>2, <1>3
<1>5. ByQueue!Table(g, base, seq, 1 .. n)
  BY <1>1, <1>4
<1>6. g[1 .. n] \in Good
  BY <1>5, ByQueue!FoldIn
<1>7. QED
  BY <1>4, <1>6

-----------------------------------------------------------------------------
(* Messages and what is made of them *)

\* The functions to S from some of A
Partial(A, S) == UNION {[D -> S] : D \in SUBSET A}

States == {"S", "T", "Z", "U", "X"}
Stat   == [paramSet : Nat \cup {UNKNOWN_PARAMS}, state : States]

\* The messages of senders P about the executables E of the robots R
Reports(R, E) == Partial(R \X E, Stat)
StatsMessages(P, R, E) == [senderId : P, stats : Reports(R, E), age : Ages]

ShownExecutable ==
  [heard : Ages, state : States, runningParamSet : Nat \cup {UNKNOWN_PARAMS}, desiredParamSet : Nat,
   light : {"none", "green", "red", "gray"}, checked : BOOLEAN, enabled : BOOLEAN, shown : BOOLEAN]

Fresh(x) == x.light = "green" => x.heard <= MsgTimeOut

Widget(P) == [parentPMid : P, heard : Ages, execs : [Execs -> ShownExecutable]]

-----------------------------------------------------------------------------
(* robot_control: the inductive invariant *)

ShownRobot ==
  [heard : Ages, alica : {"", "plan"}, widget : Widget(HeardRobots \cup {-1}), shown : BOOLEAN]

Since(r) == IF r \in HeardRobots THEN lastHeard[r] ELSE Silent

\* No time stamp of a robot is younger than the last message about it.
Honest(robot, since) ==
  robot.heard >= since /\ \A e \in Execs : robot.widget.execs[e].heard >= since

HonestRobots == {f \in [ShownRobots -> ShownRobot] : \A r \in ShownRobots : Honest(f[r], Since(r))}

\* What a refresh leaves
Refreshed(robot) ==
  /\ robot.alica # "" => robot.heard <= RobotTimeOut
  /\ \A e \in Execs : Fresh(robot.widget.execs[e])

StatsHonest(msg) == \A k \in DOMAIN msg.stats : lastHeard[k[1]] <= msg.age
HonestStats == {msg \in StatsMessages(HeardRobots, HeardRobots, StatKeys) : StatsHonest(msg)}

Infos == [senderId : HeardRobots, plan : {"plan"}, age : Ages]
HonestInfos == {msg \in Infos : lastHeard[msg.senderId] <= msg.age}

RobotsInv ==
  /\ lastHeard \in [HeardRobots -> Ages]
  /\ processStatMsgQueue \in Seq(HonestStats)
  /\ alicaInfoMsgQueue \in Seq(HonestInfos)
  /\ controlledRobotsMap \in HonestRobots
  /\ upToDate => \A r \in ShownRobots : Refreshed(controlledRobotsMap[r])

-----------------------------------------------------------------------------
(* pm_control: the inductive invariant *)

\* What a manager m may be shown to have on the screen: no executable with a time stamp younger
\* than the last iteration of m at whose end its process ran.
WidgetsOf(m, r) == {w \in Widget(Managers) : \A e \in Execs : lastRan[m][<<r, e>>] <= w.execs[e].heard}

ShownManager == [heard : Ages, robots : Partial(Robots, Widget(Managers))]
ManagersOf(m) == {pm \in ShownManager : \A r \in DOMAIN pm.robots : pm.robots[r] \in WidgetsOf(m, r)}

Displays == {f \in Partial(Managers, ShownManager) :
               \A m \in DOMAIN f : f[m] \in ManagersOf(m)}

HonestReports ==
  {msg \in StatsMessages(Managers, Robots, Execs) :
     \A k \in DOMAIN msg.stats : lastRan[msg.senderId][k] <= msg.age}

AllFresh(pm) == \A r \in DOMAIN pm.robots : \A e \in Execs : Fresh(pm.robots[r].execs[e])

DisplayInv ==
  /\ lastRan \in [Managers -> [Keys -> Ages]]
  /\ processStatMsgQueue \in Seq(HonestReports)
  /\ processManagersMap \in Displays
  /\ refreshed => \A m \in DOMAIN processManagersMap : AllFresh(processManagersMap[m])

ControlInv == FleetInv /\ DisplayInv

-----------------------------------------------------------------------------
(* Functions to S from some of A *)

LEMMA PartialIs ==
  ASSUME NEW A, NEW S, NEW f \in Partial(A, S)
  PROVE  DOMAIN f \subseteq A /\ (\A a \in DOMAIN f : f[a] \in S)
BY DEF Partial

LEMMA PartialOf ==
  ASSUME NEW A, NEW S, NEW f, f = [a \in DOMAIN f |-> f[a]], DOMAIN f \subseteq A,
         \A a \in DOMAIN f : f[a] \in S
  PROVE  f \in Partial(A, S)
<1>1. f \in [DOMAIN f -> S]
  OBVIOUS
<1>2. QED
  BY <1>1 DEF Partial

-----------------------------------------------------------------------------
(* Queues *)

LEMMA Appended ==
  ASSUME NEW S, NEW T, NEW q \in Seq(S), S \subseteq T, NEW x \in T
  PROVE  Append(q, x) \in Seq(T)
OBVIOUS

LEMMA Mapped ==
  ASSUME NEW S, NEW T, NEW q \in Seq(S), NEW q2, q2 = [i \in DOMAIN q |-> q2[i]],
         \A i \in DOMAIN q : q2[i] \in T
  PROVE  q2 \in Seq(T)
<1>1. Len(q) \in Nat /\ DOMAIN q = 1 .. Len(q)
  OBVIOUS
<1>2. q2 \in [1 .. Len(q) -> T]
  BY <1>1
<1>3. QED
  BY <1>1, <1>2

LEMMA Members ==
  ASSUME NEW S, NEW q \in Seq(S)
  PROVE  DOMAIN q = 1 .. Len(q) /\ Len(q) \in Nat /\ \A i \in 1 .. Len(q) : q[i] \in S
OBVIOUS

-----------------------------------------------------------------------------
(* Ages and widgets *)

LEMMA SilentTyped == Silent \in Ages /\ 0 \in Ages /\ Ages \subseteq Nat /\ \A a \in Ages : a <= Silent /\ 0 <= a
BY PMControlAssumption DEF Silent, Ages

LEMMA OlderTyped ==
  ASSUME NEW a \in Ages
  PROVE  Older(a) \in Ages /\ \A b \in Ages : b <= a => Older(b) <= Older(a)
BY PMControlAssumption DEF Older, Silent, Ages

LEMMA OlderSilent == Older(Silent) = Silent
BY PMControlAssumption DEF Older, Silent

LEMMA NewWidget ==
  ASSUME NEW P, NEW m \in P
  PROVE  /\ NewControlledRobot(m) \in Widget(P)
         /\ NewControlledRobot(m).heard = Silent
         /\ \A e \in Execs : NewControlledRobot(m).execs[e] = NewControlledExecutable
         /\ NewControlledExecutable \in ShownExecutable
         /\ NewControlledExecutable.heard = Silent /\ NewControlledExecutable.light = "none"
<1>1. Lowest(Params) \in Nat
  BY RegistryAssumption, LowestTyped
<1>2. NewControlledExecutable \in ShownExecutable
  BY <1>1, SilentTyped DEF NewControlledExecutable, ShownExecutable, States, UNKNOWN_PARAMS
<1>3. NewControlledExecutable.heard = Silent /\ NewControlledExecutable.light = "none"
  BY DEF NewControlledExecutable
<1>4. QED
  BY <1>2, <1>3, SilentTyped DEF NewControlledRobot, Widget

LEMMA handleStatTyped ==
  ASSUME NEW x \in ShownExecutable, NEW s \in Stat, NEW a \in Ages
  PROVE  /\ handleStat(x, s, a) \in ShownExecutable
         /\ handleStat(x, s, a).heard = a /\ handleStat(x, s, a).state = s.state
BY DEF handleStat, ShownExecutable, Stat

LEMMA handleProcessStatTyped ==
  ASSUME NEW P, NEW w \in Widget(P), NEW r, NEW stats, \A k \in DOMAIN stats : stats[k] \in Stat,
         NEW a \in Ages, NEW m \in P
  PROVE  /\ handleProcessStat(w, r, stats, a, m) \in Widget(P)
         /\ \A e \in Execs :
              handleProcessStat(w, r, stats, a, m).execs[e] =
                IF <<r, e>> \in DOMAIN stats THEN handleStat(w.execs[e], stats[<<r, e>>], a) ELSE w.execs[e]
         /\ (\E e \in Execs : <<r, e>> \in DOMAIN stats) => handleProcessStat(w, r, stats, a, m).heard = a
<1> DEFINE execs == [e \in Execs |-> IF <<r, e>> \in DOMAIN stats
                                     THEN handleStat(w.execs[e], stats[<<r, e>>], a)
                                     ELSE w.execs[e]]
           some == \E e \in Execs : <<r, e>> \in DOMAIN stats
           h == handleProcessStat(w, r, stats, a, m)
<1>2. execs \in [Execs -> ShownExecutable]
  <2>1. ASSUME NEW e \in Execs
        PROVE  (IF <<r, e>> \in DOMAIN stats THEN handleStat(w.execs[e], stats[<<r, e>>], a)
                ELSE w.execs[e]) \in ShownExecutable
    BY handleStatTyped DEF Widget
  <2>2. QED
    BY <2>1
<1>3. h = [w EXCEPT !.parentPMid = m, !.heard = IF some THEN a ELSE @, !.execs = execs]
  BY DEF handleProcessStat
<1>4. h \in Widget(P) /\ h.execs = execs /\ (some => h.heard = a)
  <2> HIDE DEF execs, some, h
  <2> QED BY <1>2, <1>3 DEF Widget
<1>5. QED
  BY <1>4

LEMMA updateExecutableTyped ==
  ASSUME NEW x \in ShownExecutable
  PROVE  /\ updateExecutable(x) \in ShownExecutable
         /\ updateExecutable(x).heard = x.heard
         /\ updateExecutable(x).state = x.state
         /\ Fresh(updateExecutable(x))
<1>1. x.heard \in Nat /\ x.state \in States
  BY SilentTyped DEF ShownExecutable
<1> DEFINE red  == [x EXCEPT !.light = "red", !.runningParamSet = UNKNOWN_PARAMS]
           lit(l) == [x EXCEPT !.light = l]
<1>2. red \in ShownExecutable /\ red.heard = x.heard /\ red.state = x.state /\ red.light = "red"
  BY DEF ShownExecutable, UNKNOWN_PARAMS
<1>3. \A l \in {"green", "gray"} : /\ lit(l) \in ShownExecutable /\ lit(l).heard = x.heard
                                   /\ lit(l).state = x.state /\ lit(l).light = l
  BY DEF ShownExecutable
<1>4. \/ updateExecutable(x) = red
      \/ updateExecutable(x) = lit("green") /\ x.heard <= MsgTimeOut /\ x.state = "S"
      \/ updateExecutable(x) = lit("gray")
  <2>1. CASE x.heard > MsgTimeOut
    BY <1>1, <2>1, PMControlAssumption DEF updateExecutable
  <2>2. CASE x.heard <= MsgTimeOut /\ x.state = "S"
    BY <1>1, <2>2, PMControlAssumption DEF updateExecutable
  <2>3. CASE x.heard <= MsgTimeOut /\ x.state \in {"T", "Z"}
    BY <1>1, <2>3, PMControlAssumption DEF updateExecutable
  <2>4. CASE x.heard <= MsgTimeOut /\ x.state \in {"U", "X"}
    BY <1>1, <2>4, PMControlAssumption DEF updateExecutable
  <2>5. QED
    BY <1>1, <2>1, <2>2, <2>3, <2>4, PMControlAssumption DEF States
<1>5. QED
  <2> HIDE DEF red, lit
  <2> QED BY <1>2, <1>3, <1>4 DEF Fresh

-----------------------------------------------------------------------------
(* robot_control: one lemma per step *)

LEMMA NewRobotHonest ==
  ASSUME lastHeard \in [HeardRobots -> Ages]
  PROVE  [r \in ShownRobots |-> NewRobot] \in HonestRobots
<1>1. NewControlledRobot(-1) \in Widget(HeardRobots \cup {-1})
  BY NewWidget
<1>2. NewRobot \in ShownRobot /\ NewRobot.heard = Silent /\ NewRobot.widget = NewControlledRobot(-1)
  BY <1>1, SilentTyped DEF NewRobot, ShownRobot
<1>3. \A r : Since(r) \in Ages /\ Since(r) <= Silent
  BY SilentTyped DEF Since
<1>4. \A r : Honest(NewRobot, Since(r))
  BY <1>2, <1>3, NewWidget, SilentTyped DEF Honest
<1>5. QED
  BY <1>2, <1>4 DEF HonestRobots

LEMMA StatsKeepHonest ==
  ASSUME lastHeard \in [HeardRobots -> Ages], NEW f \in HonestRobots,
         NEW msg \in StatsMessages(HeardRobots, HeardRobots, StatKeys), StatsHonest(msg)
  PROVE  StatsOfRobots(f, msg) \in HonestRobots
<1> DEFINE about(r) == \E k \in DOMAIN msg.stats : k[1] = r
           w(r) == handleProcessStat(f[r].widget, r, msg.stats, msg.age, msg.senderId)
           new(r) == [f[r] EXCEPT !.heard = msg.age, !.widget = w(r)]
           g == StatsOfRobots(f, msg)
<1>1. /\ msg.age \in Ages /\ msg.stats \in Reports(HeardRobots, StatKeys)
      /\ msg.senderId \in HeardRobots \cup {-1}
      /\ \A k \in DOMAIN msg.stats : k[1] \in HeardRobots /\ msg.stats[k] \in Stat
  BY DEF StatsMessages, Reports, Partial
<1>2. f \in [ShownRobots -> ShownRobot] /\ \A r \in ShownRobots : Honest(f[r], Since(r))
  BY DEF HonestRobots
<1>3. g = [r \in ShownRobots |-> IF about(r) THEN new(r) ELSE f[r]]
  BY <1>2 DEF StatsOfRobots
<1>4. ASSUME NEW r \in ShownRobots, about(r)
      PROVE  new(r) \in ShownRobot /\ Honest(new(r), Since(r))
  <2>1. Since(r) \in Ages /\ Since(r) <= msg.age
    BY <1>1, <1>4, SilentTyped DEF Since, StatsHonest
  <2>2. f[r] \in ShownRobot /\ f[r].widget \in Widget(HeardRobots \cup {-1})
    BY <1>2 DEF ShownRobot
  <2>3. /\ w(r) \in Widget(HeardRobots \cup {-1})
        /\ \A e \in Execs : w(r).execs[e] = IF <<r, e>> \in DOMAIN msg.stats
                                            THEN handleStat(f[r].widget.execs[e], msg.stats[<<r, e>>], msg.age)
                                            ELSE f[r].widget.execs[e]
    <3> DEFINE old == f[r].widget
               stats == msg.stats
               age == msg.age
               sender == msg.senderId
               P == HeardRobots \cup {-1}
    <3>1. old \in Widget(P) /\ (\A k \in DOMAIN stats : stats[k] \in Stat) /\ age \in Ages /\ sender \in P
      BY <1>1, <2>2
    <3>2. w(r) = handleProcessStat(old, r, stats, age, sender)
      OBVIOUS
    <3> HIDE DEF old, stats, age, sender, P, w, new, about, g
    <3>3. handleProcessStat(old, r, stats, age, sender) \in Widget(P)
      BY <3>1, handleProcessStatTyped
    <3>4. \A e \in Execs : handleProcessStat(old, r, stats, age, sender).execs[e] =
            IF <<r, e>> \in DOMAIN stats THEN handleStat(old.execs[e], stats[<<r, e>>], age) ELSE old.execs[e]
      BY <3>1, handleProcessStatTyped
    <3>5. QED
      BY <3>2, <3>3, <3>4 DEF old, stats, age, P
  <2>4. new(r) \in ShownRobot /\ new(r).heard = msg.age /\ new(r).widget = w(r)
    <3> HIDE DEF w
    <3> QED BY <1>1, <2>2, <2>3 DEF ShownRobot
  <2>5. ASSUME NEW e \in Execs PROVE w(r).execs[e].heard >= Since(r)
    <3>1. CASE <<r, e>> \in DOMAIN msg.stats
      <4>1. f[r].widget.execs[e] \in ShownExecutable /\ msg.stats[<<r, e>>] \in Stat
        BY <1>1, <2>2, <3>1 DEF Widget
      <4>2. w(r).execs[e].heard = msg.age
        BY <1>1, <2>3, <3>1, <4>1, handleStatTyped
      <4>3. QED
        BY <1>1, <2>1, <4>2, SilentTyped
    <3>2. CASE <<r, e>> \notin DOMAIN msg.stats
      BY <1>2, <2>3, <3>2 DEF Honest
    <3>3. QED
      BY <3>1, <3>2
  <2>6. msg.age >= Since(r)
    BY <1>1, <2>1, SilentTyped
  <2>7. QED
    <3> HIDE DEF new, w
    <3> QED BY <2>4, <2>5, <2>6 DEF Honest
<1>5. QED
  <2> HIDE DEF new, about, g
  <2> QED BY <1>2, <1>3, <1>4 DEF g, HonestRobots

LEMMA InfosKeepHonest ==
  ASSUME lastHeard \in [HeardRobots -> Ages], NEW f \in HonestRobots,
         NEW msg \in Infos, lastHeard[msg.senderId] <= msg.age
  PROVE  InfoOfRobots(f, msg) \in HonestRobots
<1> DEFINE s == msg.senderId
           new == [f[s] EXCEPT !.heard = msg.age, !.alica = msg.plan]
<1>1. f \in [ShownRobots -> ShownRobot] /\ \A r \in ShownRobots : Honest(f[r], Since(r))
  BY DEF HonestRobots
<1>2. msg.age \in Ages /\ s \in HeardRobots /\ msg.plan \in {"", "plan"} /\ Since(s) <= msg.age
  BY DEF Infos, Since
<1>3. InfoOfRobots(f, msg) = [f EXCEPT ![s] = new]
  BY DEF InfoOfRobots
<1>4. s \in ShownRobots => new \in ShownRobot /\ new.heard = msg.age /\ new.widget = f[s].widget
  BY <1>1, <1>2 DEF ShownRobot
<1>5. s \in ShownRobots => Honest(new, Since(s))
  <2>1. Since(s) \in Ages
    BY <1>2, SilentTyped DEF Since
  <2>2. msg.age >= Since(s)
    BY <1>2, <2>1, SilentTyped
  <2>3. QED
    BY <1>1, <1>4, <2>2 DEF Honest
<1>6. QED
  <2> HIDE DEF new
  <2> QED BY <1>1, <1>3, <1>4, <1>5 DEF HonestRobots

LEMMA ProcessedHonest ==
  ASSUME RobotsInv
  PROVE  processMessages \in HonestRobots
<1> DEFINE afterStats == FoldLeft(StatsOfRobots, controlledRobotsMap, processStatMsgQueue)
<1>1. /\ DOMAIN processStatMsgQueue = 1 .. Len(processStatMsgQueue) /\ Len(processStatMsgQueue) \in Nat
      /\ \A i \in 1 .. Len(processStatMsgQueue) : processStatMsgQueue[i] \in HonestStats
  BY Members DEF RobotsInv
<1>2. /\ DOMAIN alicaInfoMsgQueue = 1 .. Len(alicaInfoMsgQueue) /\ Len(alicaInfoMsgQueue) \in Nat
      /\ \A i \in 1 .. Len(alicaInfoMsgQueue) : alicaInfoMsgQueue[i] \in HonestInfos
  BY Members DEF RobotsInv
<1>3. afterStats \in HonestRobots
  <2>1. \A a \in HonestRobots : \A i \in 1 .. Len(processStatMsgQueue) :
          StatsOfRobots(a, processStatMsgQueue[i]) \in HonestRobots
    BY <1>1, StatsKeepHonest DEF RobotsInv, HonestStats
  <2>2. controlledRobotsMap \in HonestRobots
    BY DEF RobotsInv
  <2>3. QED
    BY <1>1, <2>1, <2>2, StatsFolded
<1>4. FoldLeft(InfoOfRobots, afterStats, alicaInfoMsgQueue) \in HonestRobots
  <2>1. \A a \in HonestRobots : \A i \in 1 .. Len(alicaInfoMsgQueue) :
          InfoOfRobots(a, alicaInfoMsgQueue[i]) \in HonestRobots
    BY <1>2, InfosKeepHonest DEF RobotsInv, HonestInfos
  <2> HIDE DEF afterStats
  <2> QED BY <1>2, <1>3, <2>1, InfosFolded
<1>5. QED
  BY <1>4 DEF processMessages

LEMMA RobotUpdatedTyped ==
  ASSUME NEW robot \in ShownRobot, NEW since, Honest(robot, since)
  PROVE  /\ RobotUpdated(robot) \in ShownRobot
         /\ Honest(RobotUpdated(robot), since)
         /\ Refreshed(RobotUpdated(robot))
<1> DEFINE plan == IF robot.heard > RobotTimeOut THEN "" ELSE robot.alica
           execs == [e \in Execs |-> updateExecutable(robot.widget.execs[e])]
           w == [robot.widget EXCEPT !.execs = execs]
           new == [robot EXCEPT !.alica = plan, !.widget = w]
<1>1. RobotUpdated(robot) = new
  BY DEF RobotUpdated
<1>2. robot.widget \in Widget(HeardRobots \cup {-1}) /\ robot.heard \in Nat /\ plan \in {"", "plan"}
  BY SilentTyped DEF ShownRobot
<1>3. ASSUME NEW e \in Execs
      PROVE  /\ updateExecutable(robot.widget.execs[e]) \in ShownExecutable
             /\ updateExecutable(robot.widget.execs[e]).heard = robot.widget.execs[e].heard
             /\ Fresh(updateExecutable(robot.widget.execs[e]))
  BY <1>2, updateExecutableTyped DEF Widget
<1>4. w \in Widget(HeardRobots \cup {-1}) /\ w.execs = execs
  BY <1>2, <1>3 DEF Widget
<1>5. new \in ShownRobot /\ new.heard = robot.heard /\ new.alica = plan /\ new.widget = w
  <2> HIDE DEF w, plan
  <2> QED BY <1>2, <1>4 DEF ShownRobot
<1>6. Honest(new, since)
  <2> HIDE DEF new, w
  <2> QED BY <1>3, <1>4, <1>5 DEF Honest
<1>7. plan # "" => robot.heard <= RobotTimeOut
  <2>1. RobotTimeOut \in Int
    BY RobotsControlAssumption, PMControlAssumption
  <2>2. robot.heard > RobotTimeOut => plan = ""
    OBVIOUS
  <2>3. robot.heard > RobotTimeOut \/ robot.heard <= RobotTimeOut
    <3>1. robot.heard \in Nat
      BY <1>2
    <3> HIDE DEF plan, execs, w, new
    <3> QED BY ONLY <3>1, <2>1
  <2>4. QED
    <3> HIDE DEF plan
    <3> QED BY <2>2, <2>3
<1>8. Refreshed(new)
  <2> HIDE DEF new, w, plan
  <2> QED BY <1>3, <1>4, <1>5, <1>7 DEF Refreshed
<1>9. QED
  BY <1>1, <1>5, <1>6, <1>8

LEMMA RobotsRefresh ==
  ASSUME RobotsInv, runRobots
  PROVE  RobotsInv'
<1>1. /\ processStatMsgQueue' = <<>> /\ alicaInfoMsgQueue' = <<>> /\ lastHeard' = lastHeard
      /\ \/ UNCHANGED <<controlledRobotsMap, upToDate>>
         \/ controlledRobotsMap' = [r \in ShownRobots |-> RobotUpdated(processMessages[r])]
  BY DEF runRobots
<1>2. HonestRobots' = HonestRobots /\ processStatMsgQueue' \in Seq(HonestStats') /\ alicaInfoMsgQueue' \in Seq(HonestInfos')
  BY <1>1 DEF HonestRobots, Since
<1>3. CASE UNCHANGED <<controlledRobotsMap, upToDate>>
  BY <1>1, <1>2, <1>3 DEF RobotsInv
<1>4. CASE controlledRobotsMap' = [r \in ShownRobots |-> RobotUpdated(processMessages[r])]
  <2>1. ASSUME NEW r \in ShownRobots
        PROVE  processMessages[r] \in ShownRobot /\ Honest(processMessages[r], Since(r))
    BY ProcessedHonest DEF HonestRobots
  <2>2. ASSUME NEW r \in ShownRobots
        PROVE  /\ RobotUpdated(processMessages[r]) \in ShownRobot
               /\ Honest(RobotUpdated(processMessages[r]), Since(r))
               /\ Refreshed(RobotUpdated(processMessages[r]))
    BY <2>1, RobotUpdatedTyped
  <2>3. controlledRobotsMap' \in HonestRobots /\ \A r \in ShownRobots : Refreshed(controlledRobotsMap'[r])
    BY <1>4, <2>2 DEF HonestRobots
  <2>4. QED
    BY <1>1, <1>2, <2>3 DEF RobotsInv
<1>5. QED
  BY <1>1, <1>3, <1>4

\* What was honest stays so when a robot is heard of again.
LEMMA HeardAgain ==
  ASSUME RobotsInv, NEW r \in HeardRobots, Heard(r)
  PROVE  /\ lastHeard' \in [HeardRobots -> Ages] /\ lastHeard'[r] = 0
         /\ HonestRobots \subseteq HonestRobots'
         /\ HonestStats \subseteq HonestStats'
         /\ HonestInfos \subseteq HonestInfos'
<1>1. lastHeard \in [HeardRobots -> Ages] /\ lastHeard' = [lastHeard EXCEPT ![r] = 0]
  BY DEF RobotsInv, Heard
<1>2. \A q \in HeardRobots : lastHeard[q] \in Nat /\ 0 <= lastHeard[q]
  BY <1>1, SilentTyped
<1>3. /\ lastHeard' \in [HeardRobots -> Ages] /\ lastHeard'[r] = 0
      /\ \A q \in HeardRobots : lastHeard'[q] <= lastHeard[q] /\ lastHeard'[q] \in Nat
  BY <1>1, <1>2, SilentTyped
<1>4. \A q : Since(q) \in Nat /\ Since(q)' \in Nat /\ Since(q)' <= Since(q)
  BY <1>1, <1>3, SilentTyped DEF Since
<1>5. ASSUME NEW robot \in ShownRobot, NEW q, Honest(robot, Since(q))
      PROVE  Honest(robot, Since(q)')
  <2>1. robot.heard \in Nat /\ \A e \in Execs : robot.widget.execs[e].heard \in Nat
    BY SilentTyped DEF ShownRobot, Widget, ShownExecutable
  <2>2. QED
    BY <1>4, <1>5, <2>1 DEF Honest
<1>6. HonestRobots \subseteq HonestRobots'
  BY <1>5 DEF HonestRobots
<1>7. ASSUME NEW msg \in HonestStats
      PROVE  msg \in HonestStats'
  <2>1. msg.age \in Nat
    BY SilentTyped DEF HonestStats, StatsMessages
  <2>2. \A k \in DOMAIN msg.stats : k[1] \in HeardRobots
    BY DEF HonestStats, StatsMessages, Reports, Partial
  <2>3. \A k \in DOMAIN msg.stats : lastHeard[k[1]] <= msg.age
    BY DEF HonestStats, StatsHonest
  <2>4. \A k \in DOMAIN msg.stats : lastHeard'[k[1]] <= msg.age
    BY <1>2, <1>3, <2>1, <2>2, <2>3
  <2>5. QED
    BY <2>4 DEF HonestStats, StatsHonest
<1>8. ASSUME NEW msg \in HonestInfos
      PROVE  msg \in HonestInfos'
  <2>1. msg.age \in Nat /\ msg.senderId \in HeardRobots /\ lastHeard[msg.senderId] <= msg.age
    BY SilentTyped DEF HonestInfos, Infos
  <2>2. QED
    BY <1>2, <1>3, <2>1 DEF HonestInfos
<1>9. QED
  BY <1>3, <1>6, <1>7, <1>8

LEMMA ReceiveStatsStep ==
  ASSUME RobotsInv, NEW r \in HeardRobots, NEW e \in StatKeys, NEW s \in {"S", "T"},
         receiveRobotStats(r, r, [k \in {<<r, e>>} |-> [paramSet |-> Lowest(Params), state |-> s]])
  PROVE  RobotsInv'
<1> DEFINE stats == [k \in {<<r, e>>} |-> [paramSet |-> Lowest(Params), state |-> s]]
           msg == [senderId |-> r, stats |-> stats, age |-> 0]
<1>1. /\ processStatMsgQueue' = Append(processStatMsgQueue, msg) /\ Heard(r) /\ upToDate' = FALSE
      /\ UNCHANGED <<alicaInfoMsgQueue, controlledRobotsMap>>
  BY DEF receiveRobotStats
<1>2. /\ lastHeard' \in [HeardRobots -> Ages] /\ lastHeard'[r] = 0
      /\ HonestRobots \subseteq HonestRobots' /\ HonestStats \subseteq HonestStats'
      /\ HonestInfos \subseteq HonestInfos'
  BY <1>1, HeardAgain
<1>3. stats \in Reports(HeardRobots, StatKeys) /\ DOMAIN stats = {<<r, e>>}
  <2>1. [paramSet |-> Lowest(Params), state |-> s] \in Stat
    BY RegistryAssumption, LowestTyped DEF Stat, States
  <2>2. stats \in [{<<r, e>>} -> Stat] /\ {<<r, e>>} \in SUBSET (HeardRobots \X StatKeys)
    BY <2>1
  <2>3. QED
    <3> HIDE DEF stats
    <3> QED BY <2>2 DEF Reports, Partial
<1>4. msg \in HonestStats'
  <2>1. msg \in StatsMessages(HeardRobots, HeardRobots, StatKeys)
    <3> HIDE DEF stats
    <3> QED BY <1>3, SilentTyped DEF StatsMessages
  <2>2. StatsHonest(msg)'
    BY <1>2, <1>3 DEF StatsHonest
  <2>3. QED
    BY <2>1, <2>2 DEF HonestStats
<1>5. processStatMsgQueue' \in Seq(HonestStats')
  <2>1. processStatMsgQueue \in Seq(HonestStats)
    BY DEF RobotsInv
  <2> HIDE DEF msg
  <2> QED BY <1>1, <1>2, <1>4, <2>1, Appended
<1>6. alicaInfoMsgQueue' \in Seq(HonestInfos') /\ controlledRobotsMap' \in HonestRobots'
  BY <1>1, <1>2 DEF RobotsInv
<1>7. QED
  BY <1>1, <1>2, <1>5, <1>6 DEF RobotsInv

LEMMA ReceiveInfoStep ==
  ASSUME RobotsInv, NEW r \in HeardRobots, receiveAlicaInfo(r, "plan")
  PROVE  RobotsInv'
<1> DEFINE msg == [senderId |-> r, plan |-> "plan", age |-> 0]
<1>1. /\ alicaInfoMsgQueue' = Append(alicaInfoMsgQueue, msg) /\ Heard(r) /\ upToDate' = FALSE
      /\ UNCHANGED <<processStatMsgQueue, controlledRobotsMap>>
  BY DEF receiveAlicaInfo
<1>2. /\ lastHeard' \in [HeardRobots -> Ages] /\ lastHeard'[r] = 0
      /\ HonestRobots \subseteq HonestRobots' /\ HonestStats \subseteq HonestStats'
      /\ HonestInfos \subseteq HonestInfos'
  BY <1>1, HeardAgain
<1>3. msg \in HonestInfos'
  BY <1>2, SilentTyped DEF HonestInfos, Infos
<1>4. alicaInfoMsgQueue' \in Seq(HonestInfos')
  <2>1. alicaInfoMsgQueue \in Seq(HonestInfos)
    BY DEF RobotsInv
  <2> HIDE DEF msg
  <2> QED BY <1>1, <1>2, <1>3, <2>1, Appended
<1>5. processStatMsgQueue' \in Seq(HonestStats') /\ controlledRobotsMap' \in HonestRobots'
  BY <1>1, <1>2 DEF RobotsInv
<1>6. QED
  BY <1>1, <1>2, <1>4, <1>5 DEF RobotsInv

LEMMA ToggleStep ==
  ASSUME RobotsInv, NEW r \in ShownRobots, toggle(r)
  PROVE  RobotsInv'
<1> DEFINE old == controlledRobotsMap[r]
           new == [old EXCEPT !.shown = ~@]
<1>1. /\ controlledRobotsMap' = [controlledRobotsMap EXCEPT ![r] = new]
      /\ UNCHANGED <<processStatMsgQueue, alicaInfoMsgQueue, upToDate, lastHeard>>
  BY DEF toggle
<1>2. controlledRobotsMap \in HonestRobots /\ HonestRobots' = HonestRobots
  BY <1>1 DEF RobotsInv, HonestRobots, Since
<1>3. /\ new \in ShownRobot /\ new.heard = old.heard /\ new.widget = old.widget
      /\ new.alica = old.alica
  <2>1. old \in ShownRobot
    BY <1>2 DEF HonestRobots
  <2> HIDE DEF old
  <2> QED BY <2>1, Zenon DEF ShownRobot
<1>4. Honest(new, Since(r)) /\ (upToDate => Refreshed(new))
  <2>1. Honest(old, Since(r)) /\ (upToDate => Refreshed(old))
    BY <1>2 DEF HonestRobots, RobotsInv
  <2>2. QED
    <3> HIDE DEF old, new
    <3> QED BY <1>3, <2>1 DEF Honest, Refreshed
<1>5. controlledRobotsMap' \in HonestRobots /\ (upToDate => \A q \in ShownRobots : Refreshed(controlledRobotsMap'[q]))
  <2> HIDE DEF new
  <2>1. controlledRobotsMap \in [ShownRobots -> ShownRobot]
        /\ \A q \in ShownRobots : Honest(controlledRobotsMap[q], Since(q))
    BY <1>2 DEF HonestRobots
  <2>2. controlledRobotsMap' \in [ShownRobots -> ShownRobot]
    BY <1>1, <1>3, <2>1
  <2>3. \A q \in ShownRobots : controlledRobotsMap'[q] = IF q = r THEN new ELSE controlledRobotsMap[q]
    BY <1>1, <2>1
  <2>4. \A q \in ShownRobots : Honest(controlledRobotsMap'[q], Since(q))
    BY <1>4, <2>1, <2>3
  <2>5. upToDate => \A q \in ShownRobots : Refreshed(controlledRobotsMap'[q])
    BY <1>4, <2>3 DEF RobotsInv
  <2>6. QED
    BY <2>2, <2>4, <2>5 DEF HonestRobots
<1>6. QED
  BY <1>1, <1>2, <1>5 DEF RobotsInv, HonestStats, HonestInfos, StatsHonest

LEMMA ReopenStep ==
  ASSUME RobotsInv, ReopenRobots
  PROVE  RobotsInv'
<1>1. /\ processStatMsgQueue' = <<>> /\ alicaInfoMsgQueue' = <<>> /\ lastHeard' = lastHeard
      /\ controlledRobotsMap' = [r \in ShownRobots |-> NewRobot] /\ upToDate' = FALSE
  BY DEF ReopenRobots
<1>2. HonestRobots' = HonestRobots /\ controlledRobotsMap' \in HonestRobots
  BY <1>1, NewRobotHonest DEF HonestRobots, Since, RobotsInv
<1>3. processStatMsgQueue' \in Seq(HonestStats') /\ alicaInfoMsgQueue' \in Seq(HonestInfos')
  BY <1>1
<1>4. QED
  BY <1>1, <1>2, <1>3 DEF RobotsInv

LEMMA AgedTyped ==
  ASSUME NEW x \in ShownExecutable
  PROVE  Aged(x) \in ShownExecutable /\ Aged(x).heard = Older(x.heard) /\ Aged(x).light = x.light
<1>1. Older(x.heard) \in Ages
  BY OlderTyped DEF ShownExecutable
<1>2. QED
  BY <1>1 DEF Aged, ShownExecutable

LEMMA AgedRobotTyped ==
  ASSUME NEW P, NEW w \in Widget(P)
  PROVE  /\ AgedRobot(w) \in Widget(P) /\ AgedRobot(w).heard = Older(w.heard)
         /\ \A e \in Execs : AgedRobot(w).execs[e] = Aged(w.execs[e])
<1> DEFINE execs == [e \in Execs |-> Aged(w.execs[e])]
           a == Older(w.heard)
<1>1. execs \in [Execs -> ShownExecutable] /\ a \in Ages
  BY AgedTyped, OlderTyped DEF Widget
<1>2. AgedRobot(w) = [w EXCEPT !.heard = a, !.execs = execs]
  BY DEF AgedRobot, Aged, Widget
<1>3. AgedRobot(w) \in Widget(P) /\ AgedRobot(w).heard = a /\ AgedRobot(w).execs = execs
  <2> HIDE DEF execs, a
  <2> QED BY <1>1, <1>2 DEF Widget
<1>4. QED
  BY <1>3

LEMMA AgedHonest ==
  ASSUME NEW robot \in ShownRobot, NEW since \in Ages, Honest(robot, since),
         NEW new, new = [Aged(robot) EXCEPT !.widget = AgedRobot(@)]
  PROVE  new \in ShownRobot /\ Honest(new, Older(since))
<1> DEFINE w == AgedRobot(robot.widget)
           a == Older(robot.heard)
<1>1. robot.widget \in Widget(HeardRobots \cup {-1}) /\ robot.heard \in Ages /\ robot.heard >= since
  BY DEF ShownRobot, Honest
<1>2. w \in Widget(HeardRobots \cup {-1}) /\ \A e \in Execs : w.execs[e] = Aged(robot.widget.execs[e])
  BY <1>1, AgedRobotTyped
<1>3. ASSUME NEW h \in Ages, h >= since
      PROVE  Older(h) \in Ages /\ Older(h) >= Older(since)
  <2>1. since <= h
    BY <1>3, SilentTyped
  <2>2. Older(since) <= Older(h) /\ Older(h) \in Ages /\ Older(since) \in Ages
    BY <2>1, OlderTyped
  <2>3. QED
    BY <2>2, SilentTyped
<1>4. new = [robot EXCEPT !.heard = a, !.widget = w]
  BY DEF Aged, ShownRobot
<1>5. new \in ShownRobot /\ new.heard = a /\ new.widget = w
  <2>1. a \in Ages
    BY <1>1, OlderTyped
  <2> HIDE DEF w, a
  <2> QED BY <1>2, <1>4, <2>1 DEF ShownRobot
<1>6. \A e \in Execs : w.execs[e].heard >= Older(since)
  <2> SUFFICES ASSUME NEW e \in Execs PROVE w.execs[e].heard >= Older(since)
    OBVIOUS
  <2>1. robot.widget.execs[e] \in ShownExecutable /\ robot.widget.execs[e].heard >= since
    BY <1>1 DEF Widget, Honest
  <2>2. robot.widget.execs[e].heard \in Ages
    BY <2>1 DEF ShownExecutable
  <2>3. w.execs[e].heard = Older(robot.widget.execs[e].heard)
    BY <1>2, <2>1, AgedTyped
  <2>4. QED
    BY <1>3, <2>1, <2>2, <2>3
<1>7. QED
  <2> HIDE DEF w, a
  <2>1. a >= Older(since)
    BY <1>1, <1>3 DEF a
  <2> QED BY <1>5, <1>6, <2>1 DEF Honest

LEMMA TickStep ==
  ASSUME RobotsInv, RobotsTick
  PROVE  RobotsInv'
<1> DEFINE old(r) == [Aged(controlledRobotsMap[r]) EXCEPT !.widget = AgedRobot(@)]
<1>1. /\ lastHeard \in [HeardRobots -> Ages]
      /\ lastHeard' = [r \in HeardRobots |-> Older(lastHeard[r])]
      /\ controlledRobotsMap' = [r \in ShownRobots |-> old(r)]
      /\ upToDate' = FALSE
  BY DEF RobotsInv, RobotsTick
<1>2. lastHeard' \in [HeardRobots -> Ages]
  BY <1>1, OlderTyped
<1>3. \A r : Since(r) \in Ages /\ Since(r)' = Older(Since(r))
  BY <1>1, OlderSilent, SilentTyped DEF Since
<1>4. controlledRobotsMap' \in HonestRobots'
  <2>1. ASSUME NEW r \in ShownRobots
        PROVE  old(r) \in ShownRobot /\ Honest(old(r), Since(r)')
    <3>1. controlledRobotsMap[r] \in ShownRobot /\ Honest(controlledRobotsMap[r], Since(r))
      BY DEF RobotsInv, HonestRobots
    <3>2. QED
      BY <1>3, <3>1, AgedHonest
  <2>2. \A r \in ShownRobots : controlledRobotsMap'[r] = old(r)
    BY <1>1
  <2>3. controlledRobotsMap' \in [ShownRobots -> ShownRobot]
    BY <1>1, <2>1
  <2>4. QED
    <3> HIDE DEF old
    <3> QED BY <2>1, <2>2, <2>3 DEF HonestRobots
<1>5. processStatMsgQueue' \in Seq(HonestStats')
  <2> DEFINE q == processStatMsgQueue
             aged(i) == [q[i] EXCEPT !.age = Older(@)]
  <2>1. q \in Seq(HonestStats) /\ processStatMsgQueue' = [i \in DOMAIN q |-> aged(i)]
    BY DEF RobotsInv, RobotsTick
  <2>2. ASSUME NEW i \in DOMAIN q
        PROVE  aged(i) \in HonestStats'
    <3> DEFINE msg == q[i]
    <3>1. msg \in HonestStats
      BY <2>1, Members
    <3>2. msg \in StatsMessages(HeardRobots, HeardRobots, StatKeys) /\ \A k \in DOMAIN msg.stats : lastHeard[k[1]] <= msg.age
      BY <3>1 DEF HonestStats, StatsHonest
    <3>3. msg.age \in Ages /\ Older(msg.age) \in Ages
      BY <3>2, OlderTyped DEF StatsMessages
    <3>4. \A k \in DOMAIN msg.stats : k[1] \in HeardRobots
      BY <3>2 DEF StatsMessages, Reports, Partial
    <3>5. \A k \in DOMAIN msg.stats : lastHeard'[k[1]] <= Older(msg.age)
      BY <1>1, <3>2, <3>3, <3>4, OlderTyped
    <3>6. /\ aged(i) \in StatsMessages(HeardRobots, HeardRobots, StatKeys)
          /\ aged(i).age = Older(msg.age) /\ aged(i).stats = msg.stats
      <4>1. aged(i) = [msg EXCEPT !.age = Older(msg.age)]
        OBVIOUS
      <4> HIDE DEF msg, aged
      <4>2. QED
        BY <3>2, <3>3, <4>1 DEF StatsMessages
    <3>7. QED
      <4> HIDE DEF msg, aged
      <4> QED BY <3>5, <3>6 DEF HonestStats, StatsHonest
  <2>3. QED
    <3> HIDE DEF aged
    <3>1. processStatMsgQueue' = [i \in DOMAIN q |-> processStatMsgQueue'[i]]
      BY <2>1
    <3>2. \A i \in DOMAIN q : processStatMsgQueue'[i] \in HonestStats'
      BY <2>1, <2>2
    <3> HIDE DEF q
    <3>3. QED
      BY <2>1, <3>1, <3>2, Mapped
<1>6. alicaInfoMsgQueue' \in Seq(HonestInfos')
  <2> DEFINE q == alicaInfoMsgQueue
             aged(i) == [q[i] EXCEPT !.age = Older(@)]
  <2>1. q \in Seq(HonestInfos) /\ alicaInfoMsgQueue' = [i \in DOMAIN q |-> aged(i)]
    BY DEF RobotsInv, RobotsTick
  <2>2. ASSUME NEW i \in DOMAIN q
        PROVE  aged(i) \in HonestInfos'
    <3> DEFINE msg == q[i]
    <3>1. msg \in HonestInfos
      BY <2>1, Members
    <3>2. /\ msg \in Infos /\ msg.age \in Ages /\ msg.senderId \in HeardRobots
          /\ lastHeard[msg.senderId] <= msg.age
      BY <3>1 DEF HonestInfos, Infos
    <3>3. Older(msg.age) \in Ages /\ lastHeard'[msg.senderId] <= Older(msg.age)
      BY <1>1, <3>2, OlderTyped
    <3>4. /\ aged(i) \in Infos
          /\ aged(i).age = Older(msg.age) /\ aged(i).senderId = msg.senderId
      <4>1. aged(i) = [msg EXCEPT !.age = Older(msg.age)]
        OBVIOUS
      <4> HIDE DEF msg, aged
      <4>2. QED
        BY <3>2, <3>3, <4>1 DEF Infos
    <3>5. QED
      <4> HIDE DEF msg, aged
      <4> QED BY <3>3, <3>4 DEF HonestInfos
  <2>3. QED
    <3> HIDE DEF aged
    <3>1. alicaInfoMsgQueue' = [i \in DOMAIN q |-> alicaInfoMsgQueue'[i]]
      BY <2>1
    <3>2. \A i \in DOMAIN q : alicaInfoMsgQueue'[i] \in HonestInfos'
      BY <2>1, <2>2
    <3> HIDE DEF q
    <3>3. QED
      BY <2>1, <3>1, <3>2, Mapped
<1>7. QED
  BY <1>1, <1>2, <1>4, <1>5, <1>6 DEF RobotsInv

\* The display of robot_control is honest and, once refreshed, shows nothing that is too old.
THEOREM RobotsInvariant == RobotsSpec => []RobotsInv
<1>1. processStatMsgQueue = <<>> /\ RobotsInit => RobotsInv
  <2> SUFFICES ASSUME processStatMsgQueue = <<>>, RobotsInit
               PROVE  RobotsInv
    OBVIOUS
  <2>1. lastHeard \in [HeardRobots -> Ages]
    BY SilentTyped DEF RobotsInit
  <2>2. controlledRobotsMap \in HonestRobots
    BY <2>1, NewRobotHonest DEF RobotsInit
  <2>3. processStatMsgQueue \in Seq(HonestStats) /\ alicaInfoMsgQueue \in Seq(HonestInfos)
    BY DEF RobotsInit
  <2>4. QED
    BY <2>1, <2>2, <2>3 DEF RobotsInit, RobotsInv
<1>2. RobotsInv /\ [RobotsNext]_robotsVars => RobotsInv'
  <2> SUFFICES ASSUME RobotsInv, [RobotsNext]_robotsVars
               PROVE  RobotsInv'
    OBVIOUS
  <2>1. CASE \E r \in HeardRobots, e \in StatKeys, s \in {"S", "T"} :
               receiveRobotStats(r, r, [k \in {<<r, e>>} |-> [paramSet |-> Lowest(Params), state |-> s]])
    BY <2>1, ReceiveStatsStep
  <2>2. CASE \E r \in HeardRobots : receiveAlicaInfo(r, "plan")
    BY <2>2, ReceiveInfoStep
  <2>3. CASE runRobots
    BY <2>3, RobotsRefresh
  <2>4. CASE RobotsTick
    BY <2>4, TickStep
  <2>5. CASE \E r \in ShownRobots : toggle(r)
    BY <2>5, ToggleStep
  <2>6. CASE ReopenRobots
    BY <2>6, ReopenStep
  <2>7. CASE UNCHANGED robotsVars
    BY <2>7 DEF robotsVars, RobotsInv, HonestRobots, HonestStats, HonestInfos, StatsHonest, Since
  <2>8. QED
    BY <2>1, <2>2, <2>3, <2>4, <2>5, <2>6, <2>7 DEF RobotsNext, RobotsRun
<1>3. QED
  BY <1>1, <1>2, PTL DEF RobotsSpec

\* RobotsControl.cpp and Robot.cpp: what a refreshed display shows was heard within the time-outs,
\* whatever the order in which the two queues were filled.
THEOREM RobotsNeverShowStale == RobotsSpec => []NothingStale
<1>1. RobotsInv => NothingStale
  <2> SUFFICES ASSUME RobotsInv, upToDate, NEW r \in ShownRobots
               PROVE  /\ controlledRobotsMap[r].alica # "" => lastHeard[r] <= RobotTimeOut
                      /\ (\E e \in Execs : controlledRobotsMap[r].widget.execs[e].light = "green")
                            => lastHeard[r] <= MsgTimeOut
    BY DEF NothingStale
  <2> DEFINE robot == controlledRobotsMap[r]
             age == Since(r)
  <2>1. robot \in ShownRobot /\ Honest(robot, age) /\ Refreshed(robot)
    BY DEF RobotsInv, HonestRobots
  <2>2. age \in Nat
    <3>1. age \in Ages
      BY SilentTyped DEF RobotsInv, Since
    <3> HIDE DEF age
    <3>2. QED
      BY <3>1, SilentTyped
  <2>3. RobotTimeOut \in Int /\ MsgTimeOut \in Int /\ Silent > RobotTimeOut /\ Silent > MsgTimeOut
    BY RobotsControlAssumption, PMControlAssumption DEF Silent
  <2>4. robot.heard \in Nat /\ \A e \in Execs : robot.widget.execs[e].heard \in Nat
    <3> HIDE DEF robot
    <3> QED BY <2>1, SilentTyped DEF ShownRobot, Widget, ShownExecutable
  <2>5. robot.alica # "" => age <= RobotTimeOut
    <3> HIDE DEF robot, age
    <3> DEFINE h == robot.heard
    <3>1. h >= age /\ h \in Nat
      BY <2>1, <2>4 DEF Honest
    <3>2. robot.alica # "" => h <= RobotTimeOut
      BY <2>1 DEF Refreshed
    <3> HIDE DEF h
    <3>3. h <= RobotTimeOut => age <= RobotTimeOut
      BY ONLY <2>2, <2>3, <3>1
    <3>4. QED
      BY <3>2, <3>3
  <2>6. ASSUME NEW e \in Execs, robot.widget.execs[e].light = "green"
        PROVE  age <= MsgTimeOut
    <3> HIDE DEF robot, age
    <3>1. robot.widget.execs[e].heard >= age /\ robot.widget.execs[e].heard <= MsgTimeOut
      BY <2>1, <2>6 DEF Honest, Refreshed, Fresh
    <3>2. QED
      BY <2>2, <2>3, <2>4, <3>1
  <2>7. CASE r \in HeardRobots
    <3>1. age = lastHeard[r]
      BY <2>7 DEF Since
    <3> HIDE DEF age
    <3>2. QED
      BY <2>5, <2>6, <3>1
  <2>8. CASE r \notin HeardRobots
    <3>1. age = Silent
      BY <2>8 DEF Since
    <3>2. Silent \in Nat
      BY SilentTyped
    <3> HIDE DEF age
    <3>3. ~(age <= RobotTimeOut) /\ ~(age <= MsgTimeOut)
      BY <2>3, <3>1, <3>2
    <3>4. QED
      BY <2>5, <2>6, <3>3
  <2>9. QED
    BY <2>7, <2>8
<1>2. QED
  BY <1>1, RobotsInvariant, PTL

-----------------------------------------------------------------------------
(* pm_control: one lemma per operator *)

RanTyped == lastRan \in [Managers -> [Keys -> Ages]]

LEMMA SinceTyped ==
  ASSUME RanTyped, NEW m \in Managers, NEW r \in Robots, NEW e \in Execs
  PROVE  lastRan[m][<<r, e>>] \in Nat /\ lastRan[m][<<r, e>>] \in Ages /\ lastRan[m][<<r, e>>] <= Silent
<1>1. lastRan[m] \in [Keys -> Ages] /\ <<r, e>> \in Keys
  BY DEF RanTyped, Keys
<1>2. lastRan[m][<<r, e>>] \in Ages
  BY <1>1
<1>3. QED
  BY <1>2, SilentTyped

LEMMA NewWidgetHonest ==
  ASSUME RanTyped, NEW m \in Managers, NEW r \in Robots
  PROVE  NewControlledRobot(m) \in WidgetsOf(m, r)
<1>1. NewControlledRobot(m) \in Widget(Managers)
  BY NewWidget
<1>2. \A e \in Execs : NewControlledRobot(m).execs[e].heard = Silent
  BY NewWidget
<1>3. QED
  BY <1>1, <1>2, SinceTyped DEF WidgetsOf

LEMMA ReportTyped ==
  ASSUME NEW msg \in HonestReports
  PROVE  /\ msg.senderId \in Managers /\ msg.age \in Ages /\ DOMAIN msg.stats \subseteq Robots \X Execs
         /\ \A k \in DOMAIN msg.stats : msg.stats[k] \in Stat /\ lastRan[msg.senderId][k] <= msg.age
<1>1. msg.senderId \in Managers /\ msg.age \in Ages /\ msg.stats \in Reports(Robots, Execs)
  BY DEF HonestReports, StatsMessages
<1>2. \A k \in DOMAIN msg.stats : lastRan[msg.senderId][k] <= msg.age
  BY DEF HonestReports
<1>3. QED
  BY <1>1, <1>2, PartialIs DEF Reports

LEMMA StatsOnWidget ==
  ASSUME RanTyped, NEW m \in Managers, NEW r \in Robots, NEW w \in WidgetsOf(m, r),
         NEW msg \in HonestReports, msg.senderId = m
  PROVE  handleProcessStat(w, r, msg.stats, msg.age, msg.senderId) \in WidgetsOf(m, r)
<1> DEFINE stats == msg.stats
           age == msg.age
           sender == msg.senderId
           h == handleProcessStat(w, r, stats, age, sender)
<1>1. /\ sender \in Managers /\ age \in Ages
      /\ \A k \in DOMAIN stats : stats[k] \in Stat
      /\ \A k \in DOMAIN stats : lastRan[m][k] <= age
  BY ReportTyped
<1>2. w \in Widget(Managers) /\ \A e \in Execs : lastRan[m][<<r, e>>] <= w.execs[e].heard
  BY DEF WidgetsOf
<1> HIDE DEF stats, age, sender
<1>3. h \in Widget(Managers)
  BY <1>1, <1>2, handleProcessStatTyped
<1> HIDE DEF h
<1>4. \A e \in Execs : h.execs[e] = IF <<r, e>> \in DOMAIN stats THEN handleStat(w.execs[e], stats[<<r, e>>], age)
                                    ELSE w.execs[e]
  <2>1. w \in Widget(Managers)
    BY <1>2
  <2>2. sender \in Managers /\ age \in Ages /\ \A k \in DOMAIN stats : stats[k] \in Stat
    BY <1>1
  <2>3. \A e \in Execs : handleProcessStat(w, r, stats, age, sender).execs[e] =
           IF <<r, e>> \in DOMAIN stats THEN handleStat(w.execs[e], stats[<<r, e>>], age) ELSE w.execs[e]
    BY <2>1, <2>2, handleProcessStatTyped
  <2>4. QED
    BY <2>3 DEF h
<1>5. ASSUME NEW e \in Execs PROVE lastRan[m][<<r, e>>] <= h.execs[e].heard
  <2>1. CASE <<r, e>> \in DOMAIN stats
    <3>1. w.execs[e] \in ShownExecutable /\ stats[<<r, e>>] \in Stat
      BY <1>1, <1>2, <2>1 DEF Widget
    <3>2. h.execs[e].heard = age
      BY <1>1, <1>4, <2>1, <3>1, handleStatTyped
    <3>3. QED
      BY <1>1, <2>1, <3>2
  <2>2. CASE <<r, e>> \notin DOMAIN stats
    BY <1>2, <1>4, <2>2
  <2>3. QED
    BY <2>1, <2>2
<1>6. QED
  BY <1>3, <1>5 DEF WidgetsOf, h, stats, age, sender

LEMMA ManagerTyped ==
  ASSUME NEW m, NEW pm \in ManagersOf(m)
  PROVE  /\ pm.heard \in Ages /\ DOMAIN pm.robots \subseteq Robots
         /\ \A r \in DOMAIN pm.robots : pm.robots[r] \in WidgetsOf(m, r) /\ pm.robots[r] \in Widget(Managers)
<1>1. pm \in ShownManager /\ \A r \in DOMAIN pm.robots : pm.robots[r] \in WidgetsOf(m, r)
  BY DEF ManagersOf
<1>2. pm.heard \in Ages /\ pm.robots \in Partial(Robots, Widget(Managers))
  BY <1>1 DEF ShownManager
<1>3. QED
  BY <1>1, <1>2, PartialIs

LEMMA ManagerMade ==
  ASSUME NEW m, NEW a \in Ages, NEW f, f = [r \in DOMAIN f |-> f[r]], DOMAIN f \subseteq Robots,
         \A r \in DOMAIN f : f[r] \in WidgetsOf(m, r)
  PROVE  [heard |-> a, robots |-> f] \in ManagersOf(m)
<1>1. \A r \in DOMAIN f : f[r] \in Widget(Managers)
  BY DEF WidgetsOf
<1>2. f \in Partial(Robots, Widget(Managers))
  BY <1>1, PartialOf
<1>3. QED
  BY <1>2 DEF ManagersOf, ShownManager

LEMMA ManagerHeardHonest ==
  ASSUME RanTyped, NEW m \in Managers, NEW pm \in ManagersOf(m),
         NEW msg \in HonestReports, msg.senderId = m
  PROVE  ManagerHeard(pm, m, msg) \in ManagersOf(m)
<1> DEFINE D == DOMAIN pm.robots \cup Reported(msg.stats)
           robot(r) == IF r \in DOMAIN pm.robots THEN pm.robots[r] ELSE NewControlledRobot(m)
           new(r) == IF r \in Reported(msg.stats)
                     THEN handleProcessStat(robot(r), r, msg.stats, msg.age, msg.senderId)
                     ELSE robot(r)
           f == [r \in D |-> new(r)]
<1>1. D \subseteq Robots
  BY ManagerTyped DEF Reported
<1>2. ASSUME NEW r \in D PROVE new(r) \in WidgetsOf(m, r)
  <2>1. robot(r) \in WidgetsOf(m, r)
    BY <1>1, NewWidgetHonest, ManagerTyped
  <2>2. handleProcessStat(robot(r), r, msg.stats, msg.age, msg.senderId) \in WidgetsOf(m, r)
    <3> HIDE DEF robot
    <3> QED BY <1>1, <2>1, StatsOnWidget
  <2>3. QED
    BY <2>1, <2>2
<1>3. ManagerHeard(pm, m, msg) = [heard |-> msg.age, robots |-> f]
  BY DEF ManagerHeard
<1>4. f = [r \in DOMAIN f |-> f[r]] /\ DOMAIN f = D /\ \A r \in D : f[r] = new(r)
  OBVIOUS
<1> HIDE DEF new, f, D
<1>5. msg.age \in Ages
  BY ReportTyped
<1>6. QED
  BY <1>1, <1>2, <1>3, <1>4, <1>5, ManagerMade

LEMMA DisplayTyped ==
  ASSUME NEW f \in Displays
  PROVE  DOMAIN f \subseteq Managers /\ \A m \in DOMAIN f : f[m] \in ManagersOf(m)
BY PartialIs DEF Displays

LEMMA DisplayMade ==
  ASSUME NEW f, f = [m \in DOMAIN f |-> f[m]], DOMAIN f \subseteq Managers,
         \A m \in DOMAIN f : f[m] \in ManagersOf(m)
  PROVE  f \in Displays
<1>1. \A m \in DOMAIN f : f[m] \in ShownManager
  BY DEF ManagersOf
<1>2. f \in Partial(Managers, ShownManager)
  BY <1>1, PartialOf
<1>3. QED
  BY <1>2 DEF Displays

LEMMA StatsHandledHonest ==
  ASSUME RanTyped, NEW f \in Displays, NEW msg \in HonestReports
  PROVE  StatsHandled(f, msg) \in Displays
<1> DEFINE m == msg.senderId
           D == DOMAIN f \cup ({m} \cap Robots)
           old == IF m \in DOMAIN f THEN f[m] ELSE NewManager
           new(i) == IF i # m THEN f[i] ELSE ManagerHeard(old, m, msg)
           g == [i \in D |-> new(i)]
<1>1. DOMAIN f \subseteq Managers /\ m \in Managers /\ \A i \in DOMAIN f : f[i] \in ManagersOf(i)
  BY DisplayTyped, ReportTyped
<1>2. D \subseteq Managers
  BY <1>1
<1>3. NewManager \in ManagersOf(m)
  <2> DEFINE none == <<>>
  <2>1. none = [r \in DOMAIN none |-> none[r]] /\ DOMAIN none = {}
    OBVIOUS
  <2> HIDE DEF none
  <2>2. [heard |-> Silent, robots |-> none] \in ManagersOf(m)
    BY <2>1, SilentTyped, ManagerMade
  <2>3. QED
    BY <2>2 DEF NewManager, none
<1>4. old \in ManagersOf(m)
  BY <1>1, <1>3
<1>5. ManagerHeard(old, m, msg) \in ManagersOf(m)
  <2> HIDE DEF old
  <2> QED BY <1>1, <1>4, ManagerHeardHonest
<1>6. \A i \in D : new(i) \in ManagersOf(i)
  BY <1>1, <1>5
<1>7. StatsHandled(f, msg) = g
  BY DEF StatsHandled
<1>8. g = [i \in DOMAIN g |-> g[i]] /\ DOMAIN g = D /\ \A i \in D : g[i] = new(i)
  OBVIOUS
<1>9. QED
  <2> HIDE DEF g, D, new
  <2> QED BY <1>2, <1>6, <1>7, <1>8, DisplayMade

LEMMA HandledHonest ==
  ASSUME DisplayInv
  PROVE  handleProcessStats \in Displays
<1>1. /\ DOMAIN processStatMsgQueue = 1 .. Len(processStatMsgQueue) /\ Len(processStatMsgQueue) \in Nat
      /\ \A i \in 1 .. Len(processStatMsgQueue) : processStatMsgQueue[i] \in HonestReports
  BY Members DEF DisplayInv
<1>2. \A f \in Displays : \A i \in 1 .. Len(processStatMsgQueue) :
        StatsHandled(f, processStatMsgQueue[i]) \in Displays
  BY <1>1, StatsHandledHonest DEF DisplayInv, RanTyped
<1>3. processManagersMap \in Displays
  BY DEF DisplayInv
<1>4. QED
  BY <1>1, <1>2, <1>3, QueueFolded DEF handleProcessStats

\* updateGUI keeps the display honest and leaves only lights that are fresh.
LEMMA ManagerUpdatedHonest ==
  ASSUME NEW m, NEW pm \in ManagersOf(m)
  PROVE  ManagerUpdated(pm) \in ManagersOf(m) /\ AllFresh(ManagerUpdated(pm))
<1> DEFINE D == {r \in DOMAIN pm.robots : pm.robots[r].heard <= MsgTimeOut}
           execs(r) == [e \in Execs |-> updateExecutable(pm.robots[r].execs[e])]
           w(r) == [pm.robots[r] EXCEPT !.execs = execs(r)]
           f == [r \in D |-> w(r)]
           new == [heard |-> pm.heard, robots |-> f]
<1>1. /\ pm.heard \in Ages /\ DOMAIN pm.robots \subseteq Robots
      /\ \A r \in DOMAIN pm.robots : pm.robots[r] \in WidgetsOf(m, r) /\ pm.robots[r] \in Widget(Managers)
  BY ManagerTyped
<1>2. ASSUME NEW r \in D
      PROVE  w(r) \in WidgetsOf(m, r) /\ \A e \in Execs : Fresh(w(r).execs[e])
  <2> DEFINE old == pm.robots[r]
  <2>1. old \in Widget(Managers) /\ \A e \in Execs : lastRan[m][<<r, e>>] <= old.execs[e].heard
    BY <1>1 DEF WidgetsOf
  <2> HIDE DEF old
  <2>2. ASSUME NEW e \in Execs
        PROVE  /\ updateExecutable(old.execs[e]) \in ShownExecutable
               /\ updateExecutable(old.execs[e]).heard = old.execs[e].heard
               /\ Fresh(updateExecutable(old.execs[e]))
    BY <2>1, updateExecutableTyped DEF Widget
  <2>3. /\ execs(r) \in [Execs -> ShownExecutable]
        /\ \A e \in Execs : execs(r)[e].heard = old.execs[e].heard /\ Fresh(execs(r)[e])
    BY <2>2 DEF old
  <2>4. w(r) = [old EXCEPT !.execs = execs(r)]
    BY DEF old
  <2>5. w(r) \in Widget(Managers) /\ w(r).execs = execs(r)
    <3> HIDE DEF execs, w
    <3> QED BY <2>1, <2>3, <2>4 DEF Widget
  <2>6. QED
    <3> HIDE DEF execs, w
    <3> QED BY <2>1, <2>3, <2>5 DEF WidgetsOf
<1>3. f = [r \in DOMAIN f |-> f[r]] /\ DOMAIN f = D /\ \A r \in D : f[r] = w(r)
  OBVIOUS
<1>4. ManagerUpdated(pm) = new
  BY DEF ManagerUpdated, ManagersOf, ShownManager
<1>5. D \subseteq Robots
  BY <1>1
<1> HIDE DEF w, f, D
<1>6. new \in ManagersOf(m)
  BY <1>1, <1>2, <1>3, <1>5, ManagerMade
<1>7. AllFresh(new)
  BY <1>2, <1>3 DEF AllFresh
<1>8. QED
  BY <1>4, <1>6, <1>7

LEMMA UpdateGUIHonest ==
  ASSUME NEW f \in Displays
  PROVE  updateGUI(f) \in Displays /\ \A m \in DOMAIN updateGUI(f) : AllFresh(updateGUI(f)[m])
<1> DEFINE D == {m \in DOMAIN f : f[m].heard <= MsgTimeOut}
           g == [m \in D |-> ManagerUpdated(f[m])]
<1>1. DOMAIN f \subseteq Managers /\ \A m \in DOMAIN f : f[m] \in ManagersOf(m)
  BY DisplayTyped
<1>2. \A m \in D : ManagerUpdated(f[m]) \in ManagersOf(m) /\ AllFresh(ManagerUpdated(f[m]))
  BY <1>1, ManagerUpdatedHonest
<1>3. /\ g = [m \in DOMAIN g |-> g[m]] /\ DOMAIN g = D /\ D \subseteq Managers
      /\ \A m \in D : g[m] = ManagerUpdated(f[m])
  BY <1>1
<1>4. updateGUI(f) = g
  BY DEF updateGUI
<1> HIDE DEF g, D
<1>5. QED
  BY <1>2, <1>3, <1>4, DisplayMade

-----------------------------------------------------------------------------
(* pm_control: one lemma per step *)

LEMMA RefreshStep ==
  ASSUME DisplayInv, runGUI, UNCHANGED lastRan
  PROVE  DisplayInv'
<1>1. processStatMsgQueue' = <<>> /\ processManagersMap' = updateGUI(handleProcessStats)
  BY DEF runGUI
<1>2. Displays' = Displays
  BY DEF Displays, ManagersOf, WidgetsOf
<1>3. /\ processManagersMap' \in Displays
      /\ \A m \in DOMAIN processManagersMap' : AllFresh(processManagersMap'[m])
  BY <1>1, HandledHonest, UpdateGUIHonest
<1>4. processStatMsgQueue' \in Seq(HonestReports')
  BY <1>1
<1>5. lastRan' \in [Managers -> [Keys -> Ages]]
  BY DEF DisplayInv
<1>6. QED
  BY <1>2, <1>3, <1>4, <1>5 DEF DisplayInv, AllFresh

LEMMA ReopenedStep ==
  ASSUME DisplayInv, processStatMsgQueue' = <<>>, processManagersMap' = <<>>, UNCHANGED lastRan
  PROVE  DisplayInv'
<1> DEFINE none == <<>>
<1>1. none = [m \in DOMAIN none |-> none[m]] /\ DOMAIN none = {}
  OBVIOUS
<1>2. none \in Displays
  <2> HIDE DEF none
  <2> QED BY <1>1, DisplayMade
<1>3. Displays' = Displays
  BY DEF Displays, ManagersOf, WidgetsOf
<1>4. processManagersMap' \in Displays' /\ DOMAIN processManagersMap' = {}
  BY <1>2, <1>3
<1>5. processStatMsgQueue' \in Seq(HonestReports')
  OBVIOUS
<1>6. QED
  BY <1>4, <1>5 DEF DisplayInv

\* What was honest stays so when more runs.
LEMMA RanAgain ==
  ASSUME RanTyped, RanTyped', \A m \in Managers : \A k \in Keys : lastRan'[m][k] <= lastRan[m][k]
  PROVE  Displays \subseteq Displays' /\ HonestReports \subseteq HonestReports'
<1>1. ASSUME NEW m \in Managers, NEW r \in Robots, NEW e \in Execs
      PROVE  /\ lastRan[m][<<r, e>>] \in Nat /\ lastRan'[m][<<r, e>>] \in Nat
             /\ lastRan'[m][<<r, e>>] <= lastRan[m][<<r, e>>]
  <2>1. <<r, e>> \in Keys
    BY DEF Keys
  <2>2. lastRan[m] \in [Keys -> Ages] /\ lastRan'[m] \in [Keys -> Ages]
    BY DEF RanTyped
  <2>3. QED
    BY <2>1, <2>2, SilentTyped
<1>2. ASSUME NEW m \in Managers, NEW r \in Robots
      PROVE  WidgetsOf(m, r) \subseteq WidgetsOf(m, r)'
  <2>1. ASSUME NEW w \in WidgetsOf(m, r), NEW e \in Execs
        PROVE  lastRan'[m][<<r, e>>] <= w.execs[e].heard
    <3>1. w \in Widget(Managers) /\ lastRan[m][<<r, e>>] <= w.execs[e].heard
      BY DEF WidgetsOf
    <3>2. w.execs[e].heard \in Nat
      BY <3>1, SilentTyped DEF Widget, ShownExecutable
    <3>3. QED
      BY <1>1, <3>1, <3>2
  <2>2. QED
    BY <2>1 DEF WidgetsOf
<1>3. ASSUME NEW m \in Managers, NEW pm \in ManagersOf(m)
      PROVE  pm \in ManagersOf(m)'
  BY <1>2, ManagerTyped DEF ManagersOf
<1>4. ASSUME NEW f \in Displays
      PROVE  f \in Displays'
  BY <1>3, DisplayTyped DEF Displays
<1>5. ASSUME NEW msg \in HonestReports
      PROVE  msg \in HonestReports'
  <2>1. \A k \in DOMAIN msg.stats : lastRan'[msg.senderId][k] <= msg.age
    <3> SUFFICES ASSUME NEW k \in DOMAIN msg.stats PROVE lastRan'[msg.senderId][k] <= msg.age
      OBVIOUS
    <3>1. msg.senderId \in Managers /\ msg.age \in Nat /\ lastRan[msg.senderId][k] <= msg.age
      BY ReportTyped, SilentTyped
    <3>2. PICK r \in Robots, e \in Execs : k = <<r, e>>
      BY ReportTyped
    <3>3. QED
      BY <1>1, <3>1, <3>2
  <2>2. QED
    BY <2>1 DEF HonestReports
<1>6. QED
  BY <1>4, <1>5

\* What a manager reports ran when its iteration ended.
LEMMA IterateStep ==
  ASSUME FleetInv, DisplayInv, NEW m \in Managers, Iterate(m)
  PROVE  DisplayInv'
<1> DEFINE ran == [k \in Keys |-> IF procs'[m][k] # NoProcess THEN 0 ELSE lastRan[m][k]]
<1>1. /\ run(m) /\ lastRan' = [lastRan EXCEPT ![m] = ran] /\ refreshed' = refreshed
      /\ processManagersMap' = processManagersMap
      /\ \/ processStatMsgQueue' = processStatMsgQueue
         \/ \E suspended \in SUBSET Clickable :
              receiveProcessStats(m, StatsOf(m, [e \in Execs |-> IF e \in suspended THEN "T" ELSE "S"]))
  BY DEF Iterate, receiveProcessStats, guiVars
<1>2. FleetTypeOK' /\ MemoryInv'
  BY <1>1, SafeRun DEF FleetInv, FleetSafe
<1>3. RanTyped /\ lastRan[m] \in [Keys -> Ages]
  BY DEF RanTyped, DisplayInv
<1>4. ran \in [Keys -> Ages]
  BY <1>3, SilentTyped
<1>5. /\ RanTyped' /\ \A n \in Managers : n # m => lastRan'[n] = lastRan[n]
      /\ lastRan'[m] = ran
  <2> HIDE DEF ran
  <2> QED BY <1>1, <1>3, <1>4 DEF RanTyped
<1>6. \A n \in Managers : \A k \in Keys : lastRan'[n][k] <= lastRan[n][k]
  <2> SUFFICES ASSUME NEW n \in Managers, NEW k \in Keys PROVE lastRan'[n][k] <= lastRan[n][k]
    OBVIOUS
  <2>1. lastRan[n][k] \in Nat /\ lastRan[n][k] >= 0
    <3>1. lastRan[n][k] \in Ages
      BY <1>3 DEF RanTyped
    <3>2. QED
      BY <3>1, SilentTyped
  <2>2. lastRan'[n][k] \in {0, lastRan[n][k]}
    BY <1>5
  <2>3. QED
    BY <2>1, <2>2
<1>7. Displays \subseteq Displays' /\ HonestReports \subseteq HonestReports'
  BY <1>3, <1>5, <1>6, RanAgain
<1>8. ASSUME NEW suspended \in SUBSET Clickable
      PROVE  [senderId |-> m, age |-> 0,
              stats |-> StatsOf(m, [e \in Execs |-> IF e \in suspended THEN "T" ELSE "S"])] \in HonestReports'
  <2> DEFINE states == [e \in Execs |-> IF e \in suspended THEN "T" ELSE "S"]
             stats == StatsOf(m, states)
             msg == [senderId |-> m, age |-> 0, stats |-> stats]
             mem == executables'[m]
             D == {k \in DOMAIN mem : mem[k].managed}
             stat(k) == [paramSet |-> mem[k].runningParamSet,
                         state |-> IF mem[k].need2ReadParams THEN "X" ELSE states[k[2]]]
  <2>1. stats = [k \in D |-> stat(k)]
    BY DEF StatsOf, Stats
  <2>2. DOMAIN mem \subseteq Keys /\ \A k \in DOMAIN mem : mem[k] \in Executable
    <3>1. mem \in Memories
      BY <1>2 DEF FleetTypeOK
    <3> HIDE DEF mem
    <3>2. QED
      BY <3>1, MemoryTyped
  <2>3. ASSUME NEW k \in D PROVE stat(k) \in Stat /\ lastRan'[m][k] = 0 /\ k \in Keys
    <3>1. k \in Keys /\ mem[k] \in Executable /\ mem[k].managed
      BY <2>2
    <3>2. k[2] \in Execs
      BY <3>1 DEF Keys
    <3>3. states[k[2]] \in {"S", "T"}
      BY <3>2
    <3>4. Knows(ExecOf(mem, k), procs'[m][k]) /\ ExecOf(mem, k) = mem[k]
      BY <1>2, <3>1 DEF MemoryInv, ExecOf
    <3>5. lastRan'[m][k] = 0
      BY <1>5, <3>1, <3>4 DEF Knows
    <3>6. stat(k) \in Stat
      <4> HIDE DEF states, mem
      <4> QED BY <3>1, <3>3 DEF Stat, States, Executable
    <3>7. QED
      BY <3>1, <3>5, <3>6
  <2>4. stats = [k \in DOMAIN stats |-> stats[k]] /\ DOMAIN stats = D /\ \A k \in D : stats[k] = stat(k)
    <3> HIDE DEF stat, D, stats
    <3> QED BY <2>1
  <2> HIDE DEF stat, D, stats
  <2>5. stats \in Reports(Robots, Execs)
    BY <2>3, <2>4, PartialOf DEF Reports, Keys
  <2>6. msg \in StatsMessages(Managers, Robots, Execs)
    BY <2>5, SilentTyped DEF StatsMessages
  <2>7. \A k \in DOMAIN stats : lastRan'[m][k] <= 0
    BY <2>3, <2>4
  <2>8. msg \in HonestReports'
    BY <2>6, <2>7 DEF HonestReports
  <2>9. QED
    BY <2>8 DEF stats
<1>9. processStatMsgQueue' \in Seq(HonestReports')
  <2>1. processStatMsgQueue \in Seq(HonestReports)
    BY DEF DisplayInv
  <2>2. CASE processStatMsgQueue' = processStatMsgQueue
    BY <1>7, <2>1, <2>2
  <2>3. ASSUME NEW suspended \in SUBSET Clickable,
               receiveProcessStats(m, StatsOf(m, [e \in Execs |-> IF e \in suspended THEN "T" ELSE "S"]))
        PROVE  processStatMsgQueue' \in Seq(HonestReports')
    <3> DEFINE msg == [senderId |-> m, age |-> 0,
                       stats |-> StatsOf(m, [e \in Execs |-> IF e \in suspended THEN "T" ELSE "S"])]
    <3>1. msg \in HonestReports'
      BY <1>8
    <3>2. processStatMsgQueue' = Append(processStatMsgQueue, msg)
      BY <2>3 DEF receiveProcessStats
    <3> HIDE DEF msg
    <3>3. QED
      BY <1>7, <2>1, <3>1, <3>2, Appended
  <2>4. QED
    BY <1>1, <2>2, <2>3
<1>10. QED
  BY <1>1, <1>5, <1>7, <1>9 DEF DisplayInv, RanTyped

\* Time passes for what is shown as it passes for what ran.
LEMMA ControlTickStep ==
  ASSUME DisplayInv, ControlTick
  PROVE  DisplayInv'
<1>1. /\ lastRan' = [m \in Managers |-> [k \in Keys |-> Older(lastRan[m][k])]]
      /\ refreshed' = FALSE /\ GuiTick
  BY DEF ControlTick
<1>2. RanTyped
  BY DEF RanTyped, DisplayInv
<1>3. lastRan' \in [Managers -> [Keys -> Ages]]
  BY <1>1, <1>2, OlderTyped DEF RanTyped
<1>4. ASSUME NEW m \in Managers, NEW r \in Robots, NEW e \in Execs
      PROVE  lastRan[m][<<r, e>>] \in Ages /\ lastRan'[m][<<r, e>>] = Older(lastRan[m][<<r, e>>])
  <2>1. <<r, e>> \in Keys
    BY DEF Keys
  <2>2. QED
    BY <1>1, <2>1, SinceTyped, <1>2
<1>5. ASSUME NEW m \in Managers, NEW r \in Robots, NEW w \in WidgetsOf(m, r)
      PROVE  AgedRobot(w) \in WidgetsOf(m, r)'
  <2>1. w \in Widget(Managers) /\ \A e \in Execs : lastRan[m][<<r, e>>] <= w.execs[e].heard
    BY DEF WidgetsOf
  <2>2. AgedRobot(w) \in Widget(Managers) /\ \A e \in Execs : AgedRobot(w).execs[e] = Aged(w.execs[e])
    BY <2>1, AgedRobotTyped
  <2>3. ASSUME NEW e \in Execs PROVE lastRan'[m][<<r, e>>] <= AgedRobot(w).execs[e].heard
    <3>1. w.execs[e] \in ShownExecutable /\ w.execs[e].heard \in Ages
      BY <2>1 DEF Widget, ShownExecutable
    <3>2. AgedRobot(w).execs[e].heard = Older(w.execs[e].heard)
      BY <2>2, <3>1, AgedTyped
    <3>3. Older(lastRan[m][<<r, e>>]) <= Older(w.execs[e].heard)
      BY <1>4, <2>1, <3>1, OlderTyped
    <3>4. QED
      BY <1>4, <3>2, <3>3
  <2>4. QED
    BY <2>2, <2>3 DEF WidgetsOf
<1>6. ASSUME NEW m \in Managers, NEW pm \in ManagersOf(m)
      PROVE  [Aged(pm) EXCEPT !.robots = [r \in DOMAIN @ |-> AgedRobot(@[r])]] \in ManagersOf(m)'
  <2> DEFINE f == [r \in DOMAIN pm.robots |-> AgedRobot(pm.robots[r])]
  <2>1. /\ pm.heard \in Ages /\ DOMAIN pm.robots \subseteq Robots
        /\ \A r \in DOMAIN pm.robots : pm.robots[r] \in WidgetsOf(m, r)
    BY ManagerTyped
  <2>2. f = [r \in DOMAIN f |-> f[r]] /\ DOMAIN f = DOMAIN pm.robots
        /\ \A r \in DOMAIN f : f[r] = AgedRobot(pm.robots[r])
    OBVIOUS
  <2>3. [Aged(pm) EXCEPT !.robots = [r \in DOMAIN @ |-> AgedRobot(@[r])]] = [heard |-> Older(pm.heard), robots |-> f]
    <3> DEFINE a == Older(pm.heard)
               b == pm.robots
    <3>1. pm \in ShownManager
      BY DEF ManagersOf
    <3>2. pm = [heard |-> pm.heard, robots |-> b]
      BY <3>1 DEF ShownManager
    <3>3. Aged(pm) = [heard |-> a, robots |-> b]
      <4> HIDE DEF a, b
      <4> QED BY <3>2 DEF Aged, a
    <3>4. [[heard |-> a, robots |-> b] EXCEPT !.robots = [r \in DOMAIN @ |-> AgedRobot(@[r])]]
            = [heard |-> a, robots |-> [r \in DOMAIN b |-> AgedRobot(b[r])]]
      <4> HIDE DEF a, b
      <4> QED OBVIOUS
    <3>5. QED
      BY <3>3, <3>4
  <2> HIDE DEF f
  <2>4. Older(pm.heard) \in Ages
    BY <2>1, OlderTyped
  <2>5. \A r \in DOMAIN f : f[r] \in WidgetsOf(m, r)'
    BY <1>5, <2>1, <2>2
  <2>6. \A r \in DOMAIN f : f[r] \in Widget(Managers)
    BY <2>5 DEF WidgetsOf
  <2>7. f \in Partial(Robots, Widget(Managers))
    BY <2>1, <2>2, <2>6, PartialOf
  <2>8. [heard |-> Older(pm.heard), robots |-> f] \in ManagersOf(m)'
    BY <2>4, <2>5, <2>7 DEF ManagersOf, ShownManager
  <2>9. QED
    BY <2>3, <2>8
<1>7. processManagersMap' \in Displays'
  <2> DEFINE f == processManagersMap
             new(m) == [Aged(f[m]) EXCEPT !.robots = [r \in DOMAIN @ |-> AgedRobot(@[r])]]
             g == [m \in DOMAIN f |-> new(m)]
  <2>1. processManagersMap' = g
    BY <1>1 DEF GuiTick
  <2>2. DOMAIN f \subseteq Managers /\ \A m \in DOMAIN f : f[m] \in ManagersOf(m)
    BY DisplayTyped DEF DisplayInv
  <2>3. \A m \in DOMAIN f : new(m) \in ManagersOf(m)'
    BY <1>6, <2>2
  <2>4. g = [m \in DOMAIN g |-> g[m]] /\ DOMAIN g = DOMAIN f /\ \A m \in DOMAIN f : g[m] = new(m)
    OBVIOUS
  <2> HIDE DEF new, g
  <2>5. \A m \in DOMAIN g : g[m] \in ManagersOf(m)' /\ g[m] \in ShownManager
    BY <2>3, <2>4 DEF ManagersOf
  <2>6. g \in Partial(Managers, ShownManager)
    BY <2>2, <2>4, <2>5, PartialOf
  <2>7. QED
    BY <2>1, <2>5, <2>6 DEF Displays
<1>8. processStatMsgQueue' \in Seq(HonestReports')
  <2> DEFINE q == processStatMsgQueue
             old(i) == [q[i] EXCEPT !.age = Older(@)]
  <2>1. q \in Seq(HonestReports) /\ processStatMsgQueue' = [i \in DOMAIN q |-> old(i)]
    BY <1>1 DEF DisplayInv, GuiTick
  <2>2. ASSUME NEW i \in DOMAIN q
        PROVE  old(i) \in HonestReports'
    <3> DEFINE msg == q[i]
    <3>1. msg \in HonestReports
      BY <2>1, Members
    <3> HIDE DEF msg
    <3>2. /\ msg \in StatsMessages(Managers, Robots, Execs)
          /\ msg.senderId \in Managers /\ msg.age \in Ages
      BY <3>1 DEF HonestReports, StatsMessages
    <3>3. Older(msg.age) \in Ages
      BY <3>2, OlderTyped
    <3>4. \A k \in DOMAIN msg.stats : lastRan'[msg.senderId][k] <= Older(msg.age)
      <4> SUFFICES ASSUME NEW k \in DOMAIN msg.stats PROVE lastRan'[msg.senderId][k] <= Older(msg.age)
        OBVIOUS
      <4>1. PICK r \in Robots, e \in Execs : k = <<r, e>>
        BY <3>1, ReportTyped
      <4>2. lastRan[msg.senderId][k] <= msg.age
        BY <3>1, ReportTyped
      <4>3. QED
        BY <1>4, <3>2, <4>1, <4>2, OlderTyped
    <3>5. /\ old(i) \in StatsMessages(Managers, Robots, Execs)
          /\ old(i).age = Older(msg.age) /\ old(i).stats = msg.stats /\ old(i).senderId = msg.senderId
      <4>1. old(i) = [msg EXCEPT !.age = Older(msg.age)]
        BY DEF msg
      <4> HIDE DEF old
      <4>2. QED
        BY <3>2, <3>3, <4>1 DEF StatsMessages
    <3>6. QED
      <4> HIDE DEF old
      <4> QED BY <3>4, <3>5 DEF HonestReports
  <2>3. QED
    <3> HIDE DEF old
    <3>1. processStatMsgQueue' = [i \in DOMAIN q |-> processStatMsgQueue'[i]]
      BY <2>1
    <3>2. \A i \in DOMAIN q : processStatMsgQueue'[i] \in HonestReports'
      BY <2>1, <2>2
    <3> HIDE DEF q
    <3>3. QED
      BY <2>1, <3>1, <3>2, Mapped
<1>9. QED
  BY <1>1, <1>3, <1>7, <1>8 DEF DisplayInv

\* The operator changes what an executable shall do, not its light or its time stamp.
LEMMA WidgetChanged ==
  ASSUME DisplayInv, NEW m, NEW r, OnScreen(m, r), NEW execs \in [Execs -> ShownExecutable],
         \A e \in Execs : execs[e].heard = Exec(m, r, e).heard /\ execs[e].light = Exec(m, r, e).light,
         processManagersMap' = [processManagersMap EXCEPT ![m].robots[r].execs = execs],
         UNCHANGED <<processStatMsgQueue, refreshed, lastRan>>
  PROVE  DisplayInv'
<1> DEFINE f == processManagersMap
           pm == f[m]
           b == pm.robots
           old == b[r]
           w == [old EXCEPT !.execs = execs]
           b2 == [b EXCEPT ![r] = w]
           pm2 == [pm EXCEPT !.robots = b2]
<1>1. f \in Displays /\ DOMAIN f \subseteq Managers /\ m \in DOMAIN f /\ r \in DOMAIN b
      /\ \A n \in DOMAIN f : f[n] \in ManagersOf(n)
  BY DisplayTyped DEF DisplayInv, OnScreen
<1>2. /\ pm.heard \in Ages /\ DOMAIN b \subseteq Robots
      /\ \A q \in DOMAIN b : b[q] \in WidgetsOf(m, q) /\ b[q] \in Widget(Managers)
      /\ pm \in ShownManager /\ b \in Partial(Robots, Widget(Managers))
  BY <1>1, ManagerTyped DEF ManagersOf, ShownManager
<1>3. w \in WidgetsOf(m, r) /\ w.execs = execs
  <2>1. old \in Widget(Managers) /\ \A e \in Execs : lastRan[m][<<r, e>>] <= old.execs[e].heard
    BY <1>1, <1>2 DEF WidgetsOf
  <2>2. \A e \in Execs : execs[e].heard = old.execs[e].heard
    BY DEF Exec
  <2>3. w \in Widget(Managers) /\ w.execs = execs
    <3> HIDE DEF old
    <3> QED BY <2>1 DEF Widget
  <2>4. QED
    <3> HIDE DEF old, w
    <3> QED BY <2>1, <2>2, <2>3 DEF WidgetsOf
<1>4. /\ b2 = [q \in DOMAIN b2 |-> b2[q]] /\ DOMAIN b2 = DOMAIN b
      /\ \A q \in DOMAIN b : b2[q] = IF q = r THEN w ELSE b[q]
  <2>1. b = [q \in DOMAIN b |-> b[q]]
    BY <1>2 DEF Partial
  <2> HIDE DEF b, w
  <2>2. QED
    BY <2>1
<1>5. pm2 = [heard |-> pm.heard, robots |-> b2]
  <2> HIDE DEF b2, pm
  <2> QED BY <1>2 DEF ShownManager
<1>6. pm2 \in ManagersOf(m)
  <2>1. \A q \in DOMAIN b2 : b2[q] \in WidgetsOf(m, q)
    <3> HIDE DEF b2, w, b
    <3> QED BY <1>2, <1>3, <1>4
  <2>2. pm.heard \in Ages /\ DOMAIN b2 \subseteq Robots
    BY <1>2, <1>4
  <2> HIDE DEF b2, pm2
  <2>3. QED
    BY <1>4, <1>5, <2>1, <2>2, ManagerMade
<1>7. processManagersMap' = [f EXCEPT ![m] = pm2]
  OBVIOUS
<1>8. /\ processManagersMap' = [n \in DOMAIN processManagersMap' |-> processManagersMap'[n]]
      /\ DOMAIN processManagersMap' = DOMAIN f
      /\ \A n \in DOMAIN f : processManagersMap'[n] = IF n = m THEN pm2 ELSE f[n]
  <2>1. f = [n \in DOMAIN f |-> f[n]]
    BY <1>1 DEF Displays, Partial
  <2> HIDE DEF f, pm2
  <2>2. QED
    BY <1>7, <2>1
<1>9. processManagersMap' \in Displays
  <2>1. \A n \in DOMAIN f : processManagersMap'[n] \in ManagersOf(n)
    <3> HIDE DEF f, pm2
    <3> QED BY <1>1, <1>6, <1>8
  <2>2. DOMAIN processManagersMap' \subseteq Managers
    BY <1>1, <1>8
  <2>3. QED
    <3> DEFINE g == processManagersMap'
    <3>1. g = [n \in DOMAIN g |-> g[n]] /\ DOMAIN g \subseteq Managers
          /\ \A n \in DOMAIN g : g[n] \in ManagersOf(n)
      BY <1>8, <2>1, <2>2
    <3> HIDE DEF g
    <3>2. g \in Displays
      BY <3>1, DisplayMade
    <3>3. QED
      BY <3>2 DEF g
<1>10. Displays' = Displays /\ HonestReports' = HonestReports
  BY DEF Displays, ManagersOf, WidgetsOf, HonestReports
<1>11. refreshed => \A n \in DOMAIN f : AllFresh(processManagersMap'[n])
  <2> SUFFICES ASSUME refreshed, NEW n \in DOMAIN f PROVE AllFresh(processManagersMap'[n])
    OBVIOUS
  <2>1. AllFresh(f[n]) /\ AllFresh(pm)
    BY <1>1 DEF DisplayInv
  <2>2. AllFresh(pm2)
    <3>1. pm2.robots = b2
      BY <1>5
    <3>2. \A q \in DOMAIN b : \A e \in Execs : Fresh(b[q].execs[e])
      BY <2>1 DEF AllFresh
    <3>3. \A e \in Execs : Fresh(execs[e])
      BY <1>1, <3>2 DEF Fresh, Exec
    <3>4. QED
      <4> HIDE DEF b, b2, w, pm2
      <4> QED BY <1>3, <1>4, <3>1, <3>2, <3>3 DEF AllFresh
  <2>3. QED
    <3> HIDE DEF f, pm2
    <3> QED BY <1>8, <2>1, <2>2
<1>12. QED
  BY <1>8, <1>9, <1>10, <1>11 DEF DisplayInv

LEMMA ExecTyped ==
  ASSUME DisplayInv, NEW m, NEW r, OnScreen(m, r)
  PROVE  /\ processManagersMap[m].robots[r] \in Widget(Managers)
         /\ \A e \in Execs : Exec(m, r, e) \in ShownExecutable
<1>1. processManagersMap[m] \in ManagersOf(m) /\ r \in DOMAIN processManagersMap[m].robots
  BY DisplayTyped DEF DisplayInv, OnScreen
<1>2. processManagersMap[m].robots[r] \in Widget(Managers)
  BY <1>1, ManagerTyped
<1>3. QED
  BY <1>2 DEF Exec, Widget

LEMMA BundleChangedTyped ==
  ASSUME NEW x \in ShownExecutable, NEW e \in Execs, NEW bundle \in Selectable
  PROVE  /\ BundleChanged(x, e, bundle) \in ShownExecutable
         /\ BundleChanged(x, e, bundle).heard = x.heard /\ BundleChanged(x, e, bundle).light = x.light
<1> DEFINE p == Lowest(Params \cup {x.desiredParamSet})
           Same(y) == y \in ShownExecutable /\ y.heard = x.heard /\ y.light = x.light
           lowest == [x EXCEPT !.desiredParamSet = p]
<1>1. p \in Nat
  <2>1. Params \cup {x.desiredParamSet} \subseteq Nat /\ Params \cup {x.desiredParamSet} # {}
    BY RegistryAssumption DEF ShownExecutable
  <2>2. p \in Params \cup {x.desiredParamSet}
    BY <2>1, LowestTyped
  <2>3. QED
    <3> HIDE DEF p
    <3> QED BY <2>1, <2>2
<1>2. Same(lowest)
  <2> HIDE DEF p
  <2> QED BY <1>1 DEF ShownExecutable
<1>3. ASSUME NEW y \in ShownExecutable, NEW s \in BOOLEAN, NEW n \in BOOLEAN
      PROVE  /\ [y EXCEPT !.shown = s] \in ShownExecutable
             /\ [y EXCEPT !.shown = s].heard = y.heard /\ [y EXCEPT !.shown = s].light = y.light
             /\ [y EXCEPT !.shown = s, !.enabled = n] \in ShownExecutable
             /\ [y EXCEPT !.shown = s, !.enabled = n].heard = y.heard
             /\ [y EXCEPT !.shown = s, !.enabled = n].light = y.light
  BY Zenon DEF ShownExecutable
<1> DEFINE y == BundleChanged(x, e, bundle)
<1>4. Same([lowest EXCEPT !.shown = TRUE, !.enabled = TRUE]) /\ Same([lowest EXCEPT !.shown = FALSE])
  <2> HIDE DEF lowest
  <2> QED BY <1>2, <1>3
<1>5. CASE bundle = "ALL"
  <2>1. y = [lowest EXCEPT !.shown = TRUE, !.enabled = TRUE]
    BY <1>5 DEF BundleChanged
  <2>2. QED
    <3> HIDE DEF lowest, y
    <3>1. Same(y)
      BY <1>4, <2>1
    <3>2. QED
      BY <3>1 DEF y
<1>6. CASE bundle = "RUNNING"
  <2>1. y \in {[lowest EXCEPT !.shown = TRUE, !.enabled = TRUE], [lowest EXCEPT !.shown = FALSE]}
    BY <1>6 DEF BundleChanged
  <2>2. QED
    <3> HIDE DEF lowest, y
    <3>1. Same(y)
      BY <1>4, <2>1
    <3>2. QED
      BY <3>1 DEF y
<1>7. CASE bundle \notin {"ALL", "RUNNING"}
  <2> DEFINE q == Bundles[bundle][e]
             n == x.runningParamSet \in {q, UNKNOWN_PARAMS}
             set == [x EXCEPT !.shown = TRUE, !.desiredParamSet = q, !.enabled = n]
  <2>1. bundle \in DOMAIN Bundles
    BY <1>7, ControlAssumption
  <2>2. y = IF e \in DOMAIN Bundles[bundle] THEN set ELSE [lowest EXCEPT !.shown = FALSE]
    BY <1>7, <2>1 DEF BundleChanged
  <2>3. e \in DOMAIN Bundles[bundle] => q \in Nat
    BY <2>1, PMControlAssumption, RegistryAssumption
  <2>4. n \in BOOLEAN
    OBVIOUS
  <2>5. e \in DOMAIN Bundles[bundle] => Same(set)
    <3> SUFFICES ASSUME q \in Nat PROVE Same(set)
      BY <2>3
    <3> HIDE DEF q, n
    <3>1. /\ [x EXCEPT !.shown = TRUE, !.desiredParamSet = q, !.enabled = n] \in ShownExecutable
          /\ [x EXCEPT !.shown = TRUE, !.desiredParamSet = q, !.enabled = n].heard = x.heard
          /\ [x EXCEPT !.shown = TRUE, !.desiredParamSet = q, !.enabled = n].light = x.light
      BY <2>4, Zenon DEF ShownExecutable
    <3>2. QED
      BY <3>1, Zenon
  <2>6. QED
    <3> HIDE DEF set, lowest, y, Same
    <3>1. Same(y)
      BY <1>4, <2>2, <2>5
    <3>2. QED
      BY <3>1 DEF y, Same
<1>8. QED
  BY <1>5, <1>6, <1>7

LEMMA SelectStep ==
  ASSUME DisplayInv, NEW m, NEW r, NEW bundle \in Selectable, SelectBundle(m, r, bundle), UNCHANGED timeVars
  PROVE  DisplayInv'
<1> DEFINE execs == [e \in Execs |-> BundleChanged(processManagersMap[m].robots[r].execs[e], e, bundle)]
<1>1. OnScreen(m, r) /\ UNCHANGED <<processStatMsgQueue, refreshed, lastRan>>
  BY DEF SelectBundle, timeVars
<1>2. processManagersMap' = [processManagersMap EXCEPT ![m].robots[r].execs = execs]
  BY DEF SelectBundle
<1>3. \A e \in Execs : /\ execs[e] \in ShownExecutable
                       /\ execs[e].heard = Exec(m, r, e).heard /\ execs[e].light = Exec(m, r, e).light
  BY <1>1, ExecTyped, BundleChangedTyped DEF Exec
<1>4. execs \in [Execs -> ShownExecutable]
  BY <1>3
<1> HIDE DEF execs
<1>5. QED
  BY <1>1, <1>2, <1>3, <1>4, WidgetChanged

LEMMA ClickStep ==
  ASSUME DisplayInv, NEW m, NEW r, NEW e \in Clickable, CheckBoxClicked(m, r, e), UNCHANGED timeVars
  PROVE  DisplayInv'
<1> DEFINE old == processManagersMap[m].robots[r].execs
           x == [old[e] EXCEPT !.checked = ~@]
           execs == [old EXCEPT ![e] = x]
<1>1. OnScreen(m, r) /\ UNCHANGED <<processStatMsgQueue, refreshed, lastRan>> /\ e \in Execs
  BY ControlAssumption DEF CheckBoxClicked, timeVars
<1>2. processManagersMap' = [processManagersMap EXCEPT ![m].robots[r].execs = execs]
  BY DEF CheckBoxClicked
<1>3. old \in [Execs -> ShownExecutable] /\ \A d \in Execs : old[d] = Exec(m, r, d)
  BY <1>1, ExecTyped DEF Exec, Widget
<1>4. x \in ShownExecutable /\ x.heard = old[e].heard /\ x.light = old[e].light
  <2> DEFINE y == old[e]
  <2>1. y \in ShownExecutable
    BY <1>1, <1>3
  <2>2. x = [y EXCEPT !.checked = ~y.checked]
    OBVIOUS
  <2> HIDE DEF y, x
  <2>3. QED
    BY <2>1, <2>2, Zenon DEF ShownExecutable, y
<1>5. /\ execs \in [Execs -> ShownExecutable]
      /\ \A d \in Execs : execs[d].heard = Exec(m, r, d).heard /\ execs[d].light = Exec(m, r, d).light
  <2> HIDE DEF old, x
  <2> QED BY <1>1, <1>3, <1>4
<1> HIDE DEF execs
<1>6. QED
  BY <1>1, <1>2, <1>5, WidgetChanged

\* What a click publishes is a command the managers understand.
LEMMA CommandTyped ==
  ASSUME DisplayInv, NEW m, NEW r \in Robots, NEW e \in Execs, OnScreen(m, r)
  PROVE  CommandOf(m, r, e) \in ProcessCommands
<1> DEFINE receiver == processManagersMap[m].robots[r].parentPMid
           cmd == IF Exec(m, r, e).checked THEN "STOP" ELSE "START"
           p == Exec(m, r, e).desiredParamSet
<1>1. receiver \in Int
  <2>1. receiver \in Managers
    BY ExecTyped DEF Widget
  <2>2. QED
    BY <2>1, ProcessManagerAssumption, RegistryAssumption
<1>2. p \in Nat
  BY ExecTyped DEF ShownExecutable
<1>3. cmd \in {"START", "STOP"} /\ r \in Int /\ e \in Int
  BY RegistryAssumption
<1>4. CommandOf(m, r, e) = [receiverId |-> receiver, cmd |-> cmd, robotIds |-> <<r>>, processKeys |-> <<e>>,
                            paramSets |-> <<p>>]
  BY DEF CommandOf
<1> HIDE DEF receiver, cmd, p
<1>5. <<r>> \in Seq(Int) /\ <<e>> \in Seq(Int) /\ <<p>> \in Seq(Nat)
  BY <1>2, <1>3
<1>6. QED
  BY <1>1, <1>3, <1>4, <1>5 DEF ProcessCommands

-----------------------------------------------------------------------------
(* pm_control: the theorems *)

LEMMA ControlStart == ControlInit => ControlInv
<1> SUFFICES ASSUME ControlInit PROVE ControlInv
  OBVIOUS
<1>1. FleetInv
  BY SafeInit, WishInit DEF ControlInit, FleetInv, FleetSafe
<1>2. processStatMsgQueue = <<>> /\ processManagersMap = <<>> /\ ~refreshed
      /\ lastRan = [m \in Managers |-> [k \in Keys |-> Silent]]
  BY DEF ControlInit, GuiInit
<1>3. lastRan \in [Managers -> [Keys -> Ages]]
  BY <1>2, SilentTyped
<1>4. processManagersMap \in Displays
  <2> DEFINE none == <<>>
  <2>1. none = [m \in DOMAIN none |-> none[m]] /\ DOMAIN none = {}
    OBVIOUS
  <2>2. none \in Displays
    <3> HIDE DEF none
    <3> QED BY <2>1, DisplayMade
  <2>3. QED
    BY <1>2, <2>2
<1>5. processStatMsgQueue \in Seq(HonestReports)
  BY <1>2
<1>6. QED
  BY <1>1, <1>2, <1>3, <1>4, <1>5 DEF ControlInv, DisplayInv

LEMMA DisplaySame ==
  ASSUME DisplayInv, UNCHANGED <<guiVars, timeVars>>
  PROVE  DisplayInv'
BY DEF DisplayInv, guiVars, timeVars, HonestReports, Displays, ManagersOf, WidgetsOf

LEMMA ControlStep ==
  ASSUME ControlInv, [ControlNext]_controlVars
  PROVE  ControlInv'
<1>1. FleetInv /\ DisplayInv
  BY DEF ControlInv
<1>2. SUFFICES FleetInv' /\ DisplayInv'
  BY DEF ControlInv
<1>3. ASSUME NEW m \in Managers, Iterate(m) PROVE FleetInv' /\ DisplayInv'
  <2>1. [FleetNext]_pmVars
    BY <1>3 DEF Iterate, FleetNext, ManagerStep
  <2>2. QED
    BY <1>1, <1>3, <2>1, FleetInvStep, IterateStep
<1>4. ASSUME NEW m \in Managers, Command(m) PROVE FleetInv' /\ DisplayInv'
  <2>1. [FleetNext]_pmVars /\ UNCHANGED <<guiVars, timeVars>>
    BY <1>4 DEF Command, FleetNext, ManagerStep
  <2>2. QED
    BY <1>1, <2>1, FleetInvStep, DisplaySame
<1>5. CASE Refresh
  <2>1. [FleetNext]_pmVars /\ runGUI /\ UNCHANGED lastRan
    BY <1>5 DEF Refresh
  <2>2. QED
    BY <1>1, <2>1, FleetInvStep, RefreshStep
<1>6. CASE ControlTick
  <2>1. [FleetNext]_pmVars
    BY <1>6 DEF ControlTick
  <2>2. QED
    BY <1>1, <1>6, <2>1, FleetInvStep, ControlTickStep
<1>7. CASE Reopen
  <2>1. /\ [FleetNext]_pmVars /\ processStatMsgQueue' = <<>> /\ processManagersMap' = <<>>
        /\ UNCHANGED lastRan
    BY <1>7 DEF Reopen
  <2>2. QED
    BY <1>1, <2>1, FleetInvStep, ReopenedStep
<1>8. ASSUME NEW m \in Managers, NEW r \in Robots, NEW e \in Clickable, Click(m, r, e)
      PROVE  FleetInv' /\ DisplayInv'
  <2>1. CheckBoxClicked(m, r, e) /\ Publish(CommandOf(m, r, e)) /\ UNCHANGED timeVars /\ OnScreen(m, r)
    BY <1>8 DEF Click, CheckBoxClicked
  <2>2. CommandOf(m, r, e) \in ProcessCommands
    BY <1>1, <2>1, CommandTyped, ControlAssumption
  <2>3. FleetSafe' /\ WishInv'
    BY <1>1, <2>1, <2>2, SafePublish, WishPublish DEF FleetInv, FleetSafe
  <2>4. QED
    BY <1>1, <2>1, <2>3, ClickStep DEF FleetInv, FleetSafe
<1>9. ASSUME NEW m \in Managers, NEW r \in Robots, NEW b \in Selectable, SelectBundle(m, r, b),
             UNCHANGED <<pmVars, timeVars>>
      PROVE  FleetInv' /\ DisplayInv'
  <2>1. [FleetNext]_pmVars /\ UNCHANGED timeVars
    BY <1>9
  <2>2. QED
    BY <1>1, <1>9, <2>1, FleetInvStep, SelectStep
<1>10. CASE Environment /\ UNCHANGED <<guiVars, timeVars>>
  <2>1. [FleetNext]_pmVars
    BY <1>10 DEF FleetNext
  <2>2. QED
    BY <1>1, <1>10, <2>1, FleetInvStep, DisplaySame
<1>11. CASE UNCHANGED controlVars
  <2>1. [FleetNext]_pmVars /\ UNCHANGED <<guiVars, timeVars>>
    BY <1>11 DEF controlVars
  <2>2. QED
    BY <1>1, <2>1, FleetInvStep, DisplaySame
<1>12. QED
  BY <1>3, <1>4, <1>5, <1>6, <1>7, <1>8, <1>9, <1>10, <1>11 DEF ControlNext, Operator

\* The managers stay sound under an operator who clicks at what the display shows, and no time
\* stamp of the display or of a message in its queue is younger than what it reports.
THEOREM ControlInvariant == ControlSpec => []ControlInv
<1>1. QED
  BY ControlStart, ControlStep, PTL DEF ControlSpec

\* PMControl.cpp and ControlledExecutable.cpp: what a refreshed display shows in green ran at most
\* MsgTimeOut ago, whatever was lost, late, waiting or restarted.
THEOREM GreenAlwaysRan == ControlSpec => []GreenRan
<1>1. ControlInv => GreenRan
  <2> SUFFICES ASSUME ControlInv, refreshed, NEW m \in Managers, NEW r \in Robots, NEW e \in Execs,
                      Green(m, r, e)
               PROVE  lastRan[m][<<r, e>>] <= MsgTimeOut
    BY DEF GreenRan
  <2> DEFINE x == Exec(m, r, e)
             age == lastRan[m][<<r, e>>]
  <2>1. DisplayInv /\ OnScreen(m, r) /\ x.light = "green"
    BY DEF ControlInv, Green
  <2>2. x \in ShownExecutable
    BY <2>1, ExecTyped
  <2>3. x.heard \in Nat /\ MsgTimeOut \in Int
    <3>1. MsgTimeOut \in Int
      BY PMControlAssumption
    <3> HIDE DEF x
    <3>2. x.heard \in Ages
      BY <2>2 DEF ShownExecutable
    <3>3. QED
      BY <3>1, <3>2, SilentTyped
  <2>4. age \in Nat
    BY <2>1, SinceTyped DEF DisplayInv, RanTyped
  <2>5. age <= x.heard
    <3>1. processManagersMap[m] \in ManagersOf(m) /\ r \in DOMAIN processManagersMap[m].robots
      BY <2>1, DisplayTyped DEF DisplayInv, OnScreen
    <3>2. processManagersMap[m].robots[r] \in WidgetsOf(m, r)
      BY <3>1, ManagerTyped
    <3>3. QED
      BY <3>2 DEF WidgetsOf, Exec
  <2>6. x.heard <= MsgTimeOut
    BY <2>1 DEF DisplayInv, AllFresh, Fresh, Exec, OnScreen
  <2> HIDE DEF x, age
  <2>7. age <= MsgTimeOut
    BY <2>3, <2>4, <2>5, <2>6
  <2>8. QED
    BY <2>7 DEF age
<1>2. QED
  BY <1>1, ControlInvariant, PTL

\* The clicks of an operator are commands like any other: the last one for an executable wins.
THEOREM LastClickWins == ControlSpec => []LastCommandWins
<1>1. ControlInv => LastCommandWins
  BY InvGivesLastCommand DEF ControlInv
<1>2. QED
  BY <1>1, ControlInvariant, PTL

=============================================================================
