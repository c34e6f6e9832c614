---------------------------- MODULE Configuration ----------------------------
(***************************************************************************)
(* A configuration of system_config: a tree of sections, entries and       *)
(* comments that is read from a file, searched along paths, changed and    *)
(* written back.  A line is the sequence of the pieces load() finds in it; *)
(* names and texts are atoms, except for the texts that are read as        *)
(* another one (Reading).                                                  *)
(***************************************************************************)
EXTENDS Integers, Sequences, FiniteSets, SequencesExt

CONSTANTS
  ConfigFiles,      \* the files the program may find: sequences of lines
  QueryPaths,       \* the arguments of queries: sequences of dot separated paths
  SetTexts,         \* the texts set() is called with
  NumberTexts,      \* the texts std::stoi accepts
  Targets,          \* the types get() converts to: "string", "int", "bool"
  MaxEdits          \* changes to one configuration

VARIABLES
  disk,             \* the file
  conf,             \* configRoot
  confState,        \* "none", "loaded", "rejected" (an exception left load), "crashed"
  query,            \* the last query: [op, target, params]
  reply,            \* what it returned: "thrown" or a sequence of texts
  edits             \* how often conf was changed

configVars == <<disk, conf, confState, query, reply, edits>>

Section(name) == [type |-> "Node", name |-> name, value |-> "", children |-> <<>>]
Leaf(key, value) == [type |-> "Leaf", name |-> key, value |-> value, children |-> <<>>]
Comment(text) == [type |-> "Comment", name |-> text, value |-> "", children |-> <<>>]
ConfigRoot == Section("root")
WithChild(node, child) == [node EXCEPT !.children = Append(@, child)]

(***************************************************************************)
(* load                                                                    *)
(***************************************************************************)
\* The text of an entry's value as it is read: quotes go, and so do blanks at the ends; the
\* character after a quote stays, even if it is a quote.
Reading(text) == CASE text = "\"\"" -> "\""
                   [] text = "\"" -> ""
                   [] text = " 2 " -> "2"
                   [] OTHER -> text

\* The stack holds currentNode and its ancestors; it is empty when currentNode is NULL.
WithCurrent(s, child) ==
  [s EXCEPT !.stack[Len(s.stack)] = WithChild(@, child)]
CloseTag(s, name) ==
  IF s.stack = <<>> \/ name # Last(s.stack).name THEN [s EXCEPT !.status = "rejected"]
  ELSE IF Len(s.stack) = 1 THEN [s EXCEPT !.stack = <<>>]
  ELSE WithCurrent([s EXCEPT !.stack = Front(@)], Last(s.stack))

ReadPiece(s, piece) ==
  CASE s.status # "reading" -> s
    [] piece.kind = "tiny" -> s            \* one or two characters, or none: never looked at
    [] piece.kind \in {"unfinishedTag", "namelessTag"} -> [s EXCEPT !.status = "rejected"]
    [] piece.kind = "close" -> CloseTag(s, piece.name)
    [] s.stack = <<>> -> [s EXCEPT !.status = "crashed"]
    [] piece.kind = "open" -> [s EXCEPT !.stack = Append(@, Section(piece.name))]
    [] piece.kind = "comment" -> WithCurrent(s, Comment(piece.text))
    [] piece.kind = "entry" -> WithCurrent(s, Leaf(piece.key, Reading(piece.text)))
    [] piece.kind = "text" -> WithCurrent(s, Leaf("", ""))

\* The result of load(): its status and the tree.
Load(lines) ==
  LET end == FoldLeft(ReadPiece, [status |-> "reading", stack |-> <<ConfigRoot>>], FlattenSeq(lines))
  IN CASE end.status = "reading" /\ Len(end.stack) = 1 -> [status |-> "loaded", root |-> end.stack[1]]
       [] end.status = "reading" -> [status |-> "rejected", root |-> ConfigRoot]
       [] OTHER -> [status |-> end.status, root |-> ConfigRoot]

(***************************************************************************)
(* store                                                                   *)
(***************************************************************************)
Piece(kind, name, key, text) == [kind |-> kind, name |-> name, key |-> key, text |-> text]
Tiny == Piece("tiny", "", "", "")

RECURSIVE Serialize(_)
Serialize(node) ==
  CASE node.type = "Node" ->
         << <<Piece("open", node.name, "", "")>> >>
         \o FlattenSeq([i \in DOMAIN node.children |-> Serialize(node.children[i])])
         \o << <<Piece("close", node.name, "", "")>> >>
    [] node.type = "Leaf" ->        \* " = " alone is too short to be read again
         << <<IF node.name = "" /\ node.value = "" THEN Tiny
              ELSE Piece("entry", "", node.name, node.value)>> >>
    [] node.type = "Comment" ->     \* and so is "# "
         << <<IF node.name = "" THEN Tiny ELSE Piece("comment", "", "", node.name)>> >>

\* store() that writes the tag of the root as well.
SerializeWithoutRoot_WithRoot(root) == Serialize(root)

SerializeWithoutRoot(root) ==
  FlattenSeq([i \in DOMAIN root.children |-> Serialize(root.children[i])])

(***************************************************************************)
(* Searching: nodes are named by their position, the sequence of the       *)
(* indexes that lead to them.                                              *)
(***************************************************************************)
RECURSIVE NodeAt(_, _), WithValue(_, _, _), Collect(_, _, _, _)
NodeAt(node, position) ==
  IF position = <<>> THEN node ELSE NodeAt(node.children[Head(position)], Tail(position))
WithValue(node, position, value) ==
  IF position = <<>> THEN [node EXCEPT !.value = value]
  ELSE [node EXCEPT !.children[Head(position)] = WithValue(@, Tail(position), value)]

Named(node, name) == SelectSeq([j \in DOMAIN node.children |-> j], LAMBDA j : node.children[j].name = name)

\* The search goes on with the later names of the path at the same node, until one is missing.
Collect(node, here, params, offset) ==
  LET Below(name) == LET named == Named(node, name) IN FlattenSeq([k \in DOMAIN named |->
                       Collect(node.children[named[k]], Append(here, named[k]), params, offset + 1)])
      Missing == {i \in offset + 1..Len(params) : Named(node, params[i]) = <<>>}
      Tried == {i \in offset + 1..Len(params) : \A m \in Missing : i < m}
  IN IF offset = Len(params) THEN <<here>>
     ELSE FlattenSeq([k \in 1..Cardinality(Tried) |-> Below(params[offset + k])])

\* The loops over the children and over the path the other way round.
RECURSIVE CollectByChild(_, _, _, _)
CollectByChild(node, here, params, offset) ==
  IF offset = Len(params) THEN <<here>>
  ELSE FlattenSeq([j \in DOMAIN node.children |->
         FlattenSeq([k \in 1..Len(params) - offset |->
           IF node.children[j].name = params[offset + k]
           THEN CollectByChild(node.children[j], Append(here, j), params, offset + 1) ELSE <<>>])])

\* Every argument of a query is a path; the separators inside it are gone.
GetParams(args) == FlattenSeq(args)
Collected_ByChild(root, params) == CollectByChild(root, <<>>, params, 0)
Collected(root, params) == Collect(root, <<>>, params, 0)

\* collectSections: the children of what collect finds.
CollectedSections(root, params) ==
  LET found == Collected(root, params)
  IN FlattenSeq([i \in DOMAIN found |-> NodeAt(root, found[i]).children])

(***************************************************************************)
(* The operations                                                          *)
(***************************************************************************)
Throws == <<"thrown">>
Convert(target, value) ==
  CASE target = "string" -> <<value>>
    [] target = "int" -> IF value \in NumberTexts THEN <<value>> ELSE Throws
    [] target = "bool" -> CASE value \in {"false", "False", "0", "FALSE"} -> <<"false">>
                            [] value \in {"true", "True", "1", "TRUE"} -> <<"true">>
                            [] OTHER -> Throws
ConvertAll(target, values) ==
  IF \E i \in DOMAIN values : Convert(target, values[i]) = Throws THEN Throws
  ELSE FlattenSeq([i \in DOMAIN values |-> Convert(target, values[i])])

Values(params) == LET found == Collected(conf, params)
                  IN [i \in DOMAIN found |-> NodeAt(conf, found[i]).value]
NamesOf(nodes, type) == LET fit == SelectSeq(nodes, LAMBDA n : n.type = type)
                        IN [i \in DOMAIN fit |-> fit[i].name]

Ask(op, target, params, answer) ==
  /\ confState = "loaded"
  /\ query' = [op |-> op, target |-> target, params |-> params]
  /\ reply' = answer
  /\ UNCHANGED <<disk, conf, confState, edits>>

ConfigInit ==
  /\ disk \in ConfigFiles
  /\ conf = ConfigRoot /\ confState = "none" /\ edits = 0
  /\ query = [op |-> "none", target |-> "string", params |-> <<>>] /\ reply = <<>>

\* The constructor.
LoadFile ==
  /\ confState = "none"
  /\ confState' = Load(disk).status /\ conf' = Load(disk).root
  /\ UNCHANGED <<disk, query, reply, edits>>

Get(target, args) == LET params == GetParams(args) values == Values(params) IN
  Ask("get", target, params, IF values = <<>> THEN Throws ELSE Convert(target, values[1]))
GetAll(target, args) == LET params == GetParams(args) values == Values(params) IN
  Ask("getAll", target, params, IF values = <<>> THEN Throws ELSE ConvertAll(target, values))
TryGet(target, args) == LET params == GetParams(args) values == Values(params) IN
  Ask("tryGet", target, params, IF values = <<>> THEN <<"default">> ELSE Convert(target, values[1]))
TryGetAll(target, args) == LET params == GetParams(args) values == Values(params) IN
  Ask("tryGetAll", target, params, IF values = <<>> THEN <<"default">> ELSE ConvertAll(target, values))

Listing(op, type, args, otherwise) ==
  LET params == GetParams(args)
      nodes == CollectedSections(conf, params)
  IN Ask(op, "string", params, IF nodes = <<>> THEN otherwise ELSE NamesOf(nodes, type))
GetSections(args) == Listing("getSections", "Node", args, Throws)
GetNames(args) == Listing("getNames", "Leaf", args, Throws)
TryGetSections(args) == Listing("tryGetSections", "Node", args, <<"default">>)
TryGetNames(args) == Listing("tryGetNames", "Leaf", args, <<"default">>)

\* Every leaf the search finds gets the value.
WithLeavesSet(root, positions, value) ==
  FoldLeft(LAMBDA t, p : IF NodeAt(t, p).type = "Leaf" THEN WithValue(t, p, value) ELSE t, root, positions)
Forget == query' = [op |-> "none", target |-> "string", params |-> <<>>] /\ reply' = <<>>

Set(value, args) ==
  /\ confState = "loaded" /\ edits < MaxEdits
  /\ edits' = edits + 1
  /\ conf' = WithLeavesSet(conf, Collected(conf, GetParams(args)), value)
  /\ Forget /\ UNCHANGED <<disk, confState>>

\* For a path that is not there, the search for the part of it that is ends in its first round,
\* with nothing found, and nodes[0] of the empty vector is used.
SetCreateIfNotExistent(value, args) ==
  /\ confState = "loaded" /\ edits < MaxEdits
  /\ edits' = edits + 1
  /\ IF Collected(conf, GetParams(args)) = <<>>
     THEN confState' = "crashed" /\ UNCHANGED conf
     ELSE UNCHANGED confState /\ conf' = WithLeavesSet(conf, Collected(conf, GetParams(args)), value)
  /\ Forget /\ UNCHANGED disk

Store ==
  /\ confState = "loaded"
  /\ disk' = SerializeWithoutRoot(conf)
  /\ UNCHANGED <<conf, confState, query, reply, edits>>

\* The program ends and is started again: it has the file.
ProgramRestart ==
  /\ confState # "none"
  /\ confState' = "none" /\ conf' = ConfigRoot
  /\ Forget /\ UNCHANGED <<disk, edits>>

\* A query changes nothing: a behaviour may as well end with one.
ConfigNext == query.op = "none" /\
  \/ LoadFile \/ Store \/ ProgramRestart
  \/ \E args \in QueryPaths : \/ \E target \in Targets : \/ Get(target, args) \/ GetAll(target, args)
                                                         \/ TryGet(target, args) \/ TryGetAll(target, args)
                              \/ GetSections(args) \/ GetNames(args)
                              \/ TryGetSections(args) \/ TryGetNames(args)
                              \/ \E value \in SetTexts : Set(value, args) \/ SetCreateIfNotExistent(value, args)

(***************************************************************************)
(* What a configuration promises.                                          *)
(***************************************************************************)
RECURSIVE Exact(_, _), Nodes(_)
\* The nodes at a path, whatever else a search finds.
Exact(node, params) ==
  IF params = <<>> THEN {node}
  ELSE UNION {Exact(c, Tail(params)) : c \in {d \in Range(node.children) : d.name = Head(params)}}
Nodes(node) == {node} \cup UNION {Nodes(c) : c \in Range(node.children)}
Unambiguous(root) ==
  \A n \in Nodes(root) : \A i, j \in DOMAIN n.children : n.children[i].name = n.children[j].name => i = j

\* get and tryGet return the value at the path, if there is one and no section has two children
\* of one name, although the search they use finds nodes at other paths, too.
GetIsExact ==
  query.op \in {"get", "tryGet"} /\ Unambiguous(conf) =>
    \A n \in Exact(conf, query.params) : reply = Convert(query.target, n.value)

\* A restart after store() finds the configuration that was stored: what is written is read
\* again as the same tree. It takes that no text reads as another one and no node is written as
\* a line too short to be read.
Readable(node) == Reading(node.value) = node.value /\ (node.type # "Node" => node.name # "" \/ node.value # "")
ReadBack ==
  confState = "loaded" /\ (\A n \in Nodes(conf) : Readable(n)) =>
    Load(SerializeWithoutRoot(conf)) = [status |-> "loaded", root |-> conf]

=============================================================================
