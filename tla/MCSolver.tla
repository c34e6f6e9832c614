------------------------------ MODULE MCSolver ------------------------------
(***************************************************************************)
(* The algorithms of constraintsolver and autodiff, and the configurations *)
(* of system_config, checked in one run.  A behaviour is about one of      *)
(* them, and the others keep their initial state: TLC explores the sum of  *)
(* the state spaces, not the product.                                      *)
(***************************************************************************)
EXTENDS CNSMTGSolver, CompiledTerms, FormulaTransform, Intervals, GSolver,
        Configuration, SystemConfig

VARIABLE subject         \* what this behaviour is about

solverVars == <<subject, smtVars, termVars, tapeVars, transformVars, intervalVars, descentVars,
                configVars, registryVars>>

\* All sign patterns over three variables: unsatisfiable, with learnt clauses to forget.
AllSigns == << <<1, 2, 3>>, <<1, 2, -3>>, <<1, -2, 3>>, <<1, -2, -3>>,
               <<-1, 2, 3>>, <<-1, 2, -3>>, <<-1, -2, 3>>, <<-1, -2, -3>> >>
\* All of them but one: satisfiable by a single assignment.
AllButOne == Tail(AllSigns)
\* Unit clauses that contradict one another.
Units == << <<1>>, <<-1>>, <<1, 2>> >>
\* Satisfiable, with conflicts whose analysis takes several steps and a redundant literal.
Chains == << <<-1, 2>>, <<-3, -1, 4>>, <<-3, -2, -4>>, <<3, -1, 4>>, <<3, -2, -4>> >>
\* For the theory: a choice, a unit clause of each sign.
Choice == << <<1, 2>>, <<-1, 3>> >>
Positive == << <<1>>, <<2, 3>> >>
Negative == << <<-1>>, <<2, 3>> >>

MCProblems == {AllSigns, AllButOne, Units, Chains, Choice, Positive, Negative}
MCPoints == 0..2
\* Constraints over the points; variable 4 is for the formulas without theory.
MCTheories == {t \in [1..4 -> {{0}, {1, 2}, {}}] : t[4] = {}}

\* sin, cos, exp, log and atan2 are any functions of their argument.
MCStandIn(name, v) ==
  Num(CASE name = "Sin" -> v * v + 3 * v
        [] name = "Cos" -> 2 * v + 1
        [] name = "Exp" -> 5 * v * v + 7 * v + 1
        [] name = "Log" -> 4 * v - 1
        [] name = "Atan2" -> v * v - v + 11)
MCLimits == {<<Between(-2, 3), Between(1, 4)>>, <<Between(-Infinity, 2), Between(-3, Infinity)>>}
MCAssignments2D == {<<-1, 3>>, <<2, 2>>}

\* Landscapes for gradient descent: utilities and slopes at the spots 0 to 4.
Land(utils, slopes) == [p \in 0..4 |-> [util |-> utils[p + 1], slope |-> slopes[p + 1]]]
Hill == Land(<<-20, 60, 90, 80, 70>>, <<1, 1, 1, -1, -1>>)
Peaks == Land(<<78, 10, 5, 95, 85>>, <<0, -1, 1, 1, -1>>)
Hole == Land(<<NoNumber, 60, 82, 90, NoNumber>>, <<NoNumber, -1, 1, 1, NoNumber>>)
AtLeast2 == Land(<<-20, -10, 100, 100, 100>>, <<1, 1, 0, 0, 0>>)
AtMost3 == Land(<<100, 100, 100, 100, -10>>, <<0, 0, 0, 0, -1>>)
Plain == Land(<<60, 90, 93, 70, 80>>, <<0, 0, 0, 0, 0>>)
NotThree == Land(<<-40, -30, -5, -30, 100>>, <<1, 2, -1, 1, NoNumber>>)
Undefined == Land(<<NoNumber, -20, 100, 100, 100>>, <<-1, 1, 0, 0, 0>>)   \* a logarithm at 0
MCObjectives == {
  [all |-> Plain, utility |-> Hill, parts |-> <<NotThree>>, fixed |-> "nothing", sufficient |-> 200],
  [all |-> Hill, utility |-> Peaks, parts |-> <<AtLeast2, AtMost3>>, fixed |-> "nothing", sufficient |-> 85],
  [all |-> Peaks, utility |-> Hole, parts |-> <<NotThree, AtLeast2>>, fixed |-> "nothing", sufficient |-> 200],
  [all |-> Hole, utility |-> Hill, parts |-> <<AtMost3, NotThree, AtLeast2>>, fixed |-> "utility", sufficient |-> 200],
  [all |-> Hill, utility |-> Hill, parts |-> <<Undefined, AtMost3>>, fixed |-> "unmet", sufficient |-> 200]}
MCSeedLists == {<<>>, <<NoNumber>>, <<0>>, <<4, 1>>}
MCRangeLists == {<<[lo |-> 0, hi |-> 4]>>, <<[lo |-> 1, hi |-> 4], [lo |-> 0, hi |-> 3]>>, <<[lo |-> 3, hi |-> 4], [lo |-> 0, hi |-> 2]>>}

\* Files: entries in nested sections; names that come up at several depths; one name twice and a
\* comment that reads like a key; tags and an entry in one line, a line that is too short; files
\* that cannot be read.
P(kind, name) == Piece(kind, name, "", "")
Entry(key, text) == Piece("entry", "", key, text)
Nested == << <<P("open", "a")>>, <<Entry("b", "1")>>, <<P("open", "c")>>, <<Entry("b", "true")>>,
             <<P("close", "c")>>, <<P("close", "a")>>, <<Entry("d", "\"\"")>> >>
Depths == << <<P("open", "b")>>, <<Entry("b", "2")>>, <<P("close", "b")>>,
             <<P("open", "a")>>, <<Entry("b", "x")>>, <<P("close", "a")>> >>
Twice == << <<Piece("comment", "", "", "d")>>, <<Entry("d", "1")>>, <<Entry("d", "2")>>, <<P("text", "")>> >>
OneLine == << <<P("open", "a"), P("open", "c"), Entry("b", "0")>>, <<Tiny>>, <<P("close", "c"), P("close", "a")>> >>
Unclosed == << <<P("open", "a")>>, <<Entry("b", "1")>> >>
Crossed == << <<P("open", "a")>>, <<P("open", "b")>>, <<P("close", "a")>>, <<P("close", "b")>> >>
RootClosed == << <<P("close", "root")>>, <<Entry("b", "1")>> >>
Malformed == << <<P("unfinishedTag", "")>> >>
MCConfigFiles == {Nested, Depths, Twice, OneLine, Unclosed, Crossed, RootClosed, Malformed}
MCQueryPaths == {<< <<"a">> >>, << <<"a", "b">> >>, << <<"a">>, <<"c", "b">> >>, << <<"d">> >>, << <<"a", "d">> >>, << <<"">> >>}
MCSetTexts == {"2", " 2 ", "\"\""}
MCFilesThere == {<<"here", "Test">>, <<"global", "Test">>, <<"global", "Globals">>, <<"there", "Globals">>, <<"there", "Odd">>}
MCMalformedFiles == {<<"there", "Odd">>}

\* The initial state of the solver when the behaviour is about something else.
Idle == seen = {} /\ problem = Units /\ withTheory /\ theory = [v \in Vars |-> {}] /\ ~useIntervalProp

MCInit ==
  /\ subject \in {"CNSat", "CNSMTGSolver", "Terms", "FormulaTransform", "Intervals", "GSolver", "Configuration", "SystemConfig"}
  /\ SmtInit
  /\ CASE subject = "CNSat" -> /\ problem \in {AllSigns, AllButOne, Units, Chains} /\ ~withTheory
                               /\ theory = [v \in Vars |-> {}] /\ ~useIntervalProp
       [] subject = "CNSMTGSolver" -> problem \in {Choice, Positive, Negative} /\ withTheory
       [] OTHER -> Idle
  /\ CompiledInit /\ TransformInit
  /\ IntervalInit
  /\ subject # "Intervals" => limits = <<Between(-2, 3), Between(1, 4)>>
  /\ DescentInit
  /\ subject # "GSolver" => /\ caller = "probe" /\ objective.fixed = "unmet"
                          /\ seedList = <<>> /\ Len(rangeList) = 1
  /\ ConfigInit
  /\ subject # "Configuration" => disk = Malformed
  /\ RegistryInit

SatTurn == subject = "CNSat" /\ SatNext /\ UNCHANGED <<subject, theoryVars, stood, termVars, tapeVars, transformVars, intervalVars, descentVars, configVars, registryVars>>
SmtTurn == subject = "CNSMTGSolver" /\ UNCHANGED <<subject, termVars, tapeVars, transformVars, intervalVars, descentVars, configVars, registryVars>>
TermTurn == subject = "Terms" /\ UNCHANGED <<subject, smtVars, transformVars, intervalVars, descentVars, configVars, registryVars>>
TransformTurn == subject = "FormulaTransform" /\ UNCHANGED <<subject, smtVars, tapeVars, intervalVars, descentVars, configVars, registryVars>>
IntervalTurn == subject = "Intervals" /\ UNCHANGED <<subject, smtVars, tapeVars, transformVars, descentVars, configVars, registryVars>>
DescentTurn == subject = "GSolver" /\ UNCHANGED <<subject, smtVars, termVars, tapeVars, transformVars, intervalVars, configVars, registryVars>>

SolverVars == <<smtVars, termVars, tapeVars, transformVars, intervalVars, descentVars>>
ConfigTurn == subject = "Configuration" /\ UNCHANGED <<subject, SolverVars, registryVars>>
RegistryTurn == subject = "SystemConfig" /\ UNCHANGED <<subject, SolverVars, configVars>>

MCNext ==
  \/ SatTurn
  \/ SmtTurn /\ SmtNext
  \/ TermTurn /\ CompiledNext
  \/ TransformTurn /\ TransformNext
  \/ IntervalTurn /\ IntervalNext
  \/ DescentTurn /\ DescentNext
  \/ ConfigTurn /\ ConfigNext
  \/ RegistryTurn /\ RegistryNext

\* solve() keeps running until it returns.
MCSpec == MCInit /\ [][MCNext]_solverVars /\ WF_solverVars(SatTurn)

\* The SAT solver on its own, with marks that memory left; with a theory, and without marks.
MarksSpec == MCInit /\ subject = "CNSat" /\ [][MCNext]_solverVars
FactsSpec == MCInit /\ subject = "CNSMTGSolver" /\ seen = {} /\ [][MCNext]_solverVars

\* The map of configurations on its own, while nobody changes the host name; and with that.
RaceSpec ==
  MCInit /\ subject = "SystemConfig"
  /\ [][MCNext /\ \A t \in ConfigThreads, h \in Hosts : ~SetHostname(t, h)]_solverVars
MoveSpec == MCInit /\ subject = "SystemConfig" /\ [][MCNext]_solverVars

\* Gradient descent on its own.
DescentOnlySpec == MCInit /\ subject = "GSolver" /\ [][MCNext]_solverVars

=============================================================================
