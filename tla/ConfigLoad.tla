------------------------------ MODULE ConfigLoad ------------------------------
(***************************************************************************)
(* config.Load: the files of a configuration, their includes and the merge *)
(* of what they say.                                                       *)
(*                                                                         *)
(* A mapping is a function from key paths (<<"protocol", "bind">>) to the  *)
(* leaves of its tree, which are lists and scalars.  A key without a value *)
(* and one with an empty list are NoValue; empty mappings are left out.    *)
(* No key path extends another.                                            *)
(***************************************************************************)
EXTENDS Naturals, Sequences, SequencesExt

CONSTANTS
  Paths,     \* the names of files and directories
  Conf,      \* those with the extension .conf
  MainFile,  \* the argument of -config
  Disks,     \* what may be behind the names: functions from Paths to files
  MaxLoads   \* the bound on the files loaded, for includes that never end

Leaf(items, list) == [list |-> list, items |-> items]
Scalar(x) == Leaf(<<x>>, FALSE)
NoValue == Leaf(<<>>, FALSE)

\* Neither a file nor a directory that can be listed and searched.
Absent == {"missing", "denied"}
Directories == {"directory", "unlisted"}
Unreadable == Absent \cup Directories \cup {"unreadable", "broken"}

\* A file: its kind; the entries of a directory, in order; the includes of a
\* mapping, each a choice of [path, required] (an entry with several keys has
\* several, and Go takes any); and the leaves of a mapping.
Kinds == Unreadable \cup {"mapping", "scalar", "list"}

\* The values at p and q cannot both be there: one lies inside the other.
Clash(p, q) == IsStrictPrefix(p, q) \/ IsStrictPrefix(q, p)

Option == [path : Paths, required : BOOLEAN]

IsLeaf(leaf) == leaf.list \in BOOLEAN /\ leaf.items \in Seq(Range(leaf.items))

ASSUME LoadAssumption ==
  /\ MainFile \in Paths /\ Conf \subseteq Paths /\ MaxLoads \in Nat
  /\ \A d \in Disks :
       /\ DOMAIN d = Paths
       /\ \A p \in Paths :
            /\ d[p].kind \in Kinds
            /\ d[p].entries \in Seq(Paths)
            /\ d[p].include \in Seq(SUBSET Option)
            /\ \A q \in DOMAIN d[p].leaves : IsLeaf(d[p].leaves[q])
            /\ \A q, r \in DOMAIN d[p].leaves : ~Clash(q, r)

VARIABLES
  disk,   \* never changes
  stack,  \* pathToVisit
  root,   \* c.root.Mapa
  cfg,    \* "loading", "ready", "failed" or "panicked"
  loaded  \* the files loaded so far (history)

loadVars == <<disk, stack, root, cfg, loaded>>

Empty == [p \in {} |-> NoValue]

LoadInit ==
  /\ disk \in Disks
  /\ stack = <<MainFile>>
  /\ root = Empty
  /\ cfg = "loading"
  /\ loaded = <<>>

-----------------------------------------------------------------------------
(* mergeMap and mergeValue.                                                *)

\* Broken: mappings are not merged, the later one takes the place of the other.
MergeShallow(a, b) ==
  [p \in {q \in DOMAIN a : \A r \in DOMAIN b : Head(q) # Head(r)} \cup DOMAIN b |->
     IF p \in DOMAIN b THEN b[p] ELSE a[p]]

\* Mappings are merged key by key and lists appended; of other values, and of
\* values of two kinds, the later one is taken.
Merge(a, b) ==
  [p \in {q \in DOMAIN a : \A r \in DOMAIN b : ~Clash(q, r)} \cup DOMAIN b |->
     IF p \notin DOMAIN b THEN a[p]
     ELSE IF p \in DOMAIN a /\ a[p].list /\ b[p].list
          THEN Leaf(a[p].items \o b[p].items, TRUE)
          ELSE b[p]]

-----------------------------------------------------------------------------
(* searchFiles.                                                            *)

\* Broken: a missing file is never an error.
RefusalOptional(option) ==
  CASE disk[option.path].kind = "unlisted" -> "failed"
    [] disk[option.path].kind = "denied" -> "panicked"
    [] OTHER -> "none"

\* An error, or the panic on the nil FileInfo of an error that is not IsNotExist.
Refusal(option) ==
  CASE disk[option.path].kind = "missing" /\ option.required -> "failed"
    [] disk[option.path].kind = "unlisted" -> "failed"
    [] disk[option.path].kind = "denied" -> "panicked"
    [] OTHER -> "none"

IsConf(path) == path \in Conf /\ disk[path].kind \notin Directories

\* The loop over what ioutil.ReadDir returns of a directory.
ConfFiles(entries) ==
  FlattenSeq([i \in DOMAIN entries |-> IF IsConf(entries[i]) THEN <<entries[i]>> ELSE <<>>])

\* A missing file that is optional gives none.
Found(option) ==
  CASE disk[option.path].kind = "missing" -> <<>>
    [] disk[option.path].kind = "directory" -> ConfFiles(disk[option.path].entries)
    [] OTHER -> <<option.path>>

-----------------------------------------------------------------------------
(* Load.  Only a mapping has includes and leaves.                          *)

Includes(path) == IF disk[path].kind = "mapping" THEN disk[path].include ELSE <<>>
Document(path) == IF disk[path].kind = "mapping" THEN disk[path].leaves ELSE Empty

\* One option of each include.
Picks(include) ==
  {pick \in [DOMAIN include -> UNION {include[i] : i \in DOMAIN include}] :
     \A i \in DOMAIN include : pick[i] \in include[i]}

Stop(how) == cfg' = how /\ UNCHANGED <<disk, stack, root, loaded>>

Loading == cfg = "loading" /\ stack # <<>> /\ Len(loaded) < MaxLoads

\* ReadFile or the parser fails.
ReadFails ==
  /\ Loading /\ disk[Last(stack)].kind \in Unreadable
  /\ Stop("failed")

\* A list decodes into []Value, an interface that its items do not implement.
ParsePanics ==
  /\ Loading /\ disk[Last(stack)].kind = "list"
  /\ Stop("panicked")

\* The first include that is refused ends it.
IncludeFails ==
  /\ Loading
  /\ \E pick \in Picks(Includes(Last(stack))), i \in DOMAIN Includes(Last(stack)) :
       /\ Refusal(pick[i]) # "none"
       /\ \A j \in DOMAIN pick : j < i => Refusal(pick[j]) = "none"
       /\ Stop(Refusal(pick[i]))

\* Broken: the path stays on the stack.
LoadFileKeepsPath ==
  /\ Loading /\ disk[Last(stack)].kind \in {"mapping", "scalar"}
  /\ \E pick \in Picks(Includes(Last(stack))) :
       /\ \A i \in DOMAIN pick : Refusal(pick[i]) = "none"
       /\ stack' = stack \o FlattenSeq([i \in DOMAIN pick |-> Found(pick[i])])
  /\ root' = Merge(root, Document(Last(stack)))
  /\ loaded' = Append(loaded, Last(stack))
  /\ UNCHANGED <<disk, cfg>>

\* The includes go on the stack in their order: the last is loaded next.
LoadFile ==
  /\ Loading /\ disk[Last(stack)].kind \in {"mapping", "scalar"}
  /\ \E pick \in Picks(Includes(Last(stack))) :
       /\ \A i \in DOMAIN pick : Refusal(pick[i]) = "none"
       /\ stack' = Front(stack) \o FlattenSeq([i \in DOMAIN pick |-> Found(pick[i])])
  /\ root' = Merge(root, Document(Last(stack)))
  /\ loaded' = Append(loaded, Last(stack))
  /\ UNCHANGED <<disk, cfg>>

LoadReturns == cfg = "loading" /\ stack = <<>> /\ Stop("ready")

Load == ReadFails \/ ParsePanics \/ IncludeFails \/ LoadFile \/ LoadReturns

LoadSpec == LoadInit /\ [][Load]_loadVars

-----------------------------------------------------------------------------

\* The files that loading one may put on the stack.
Included(path) ==
  UNION {Range(Found(option)) : option \in UNION Range(Includes(path))}

\* The files n includes away from the main file.
Depth(n) ==
  LET at[k \in 0..n] == IF k = 0 THEN {MainFile} ELSE UNION {Included(p) : p \in at[k - 1]}
  IN at[n]

\* No file includes itself, directly or through others.
Acyclic == Depth(Cardinality(Paths)) = {}

\* The variables have values of their types, and no value of the merged mapping
\* lies inside another.
LoadTypeOK ==
  /\ DOMAIN disk = Paths
  /\ stack \in Seq(Paths) /\ loaded \in Seq(Paths)
  /\ Len(loaded) <= MaxLoads
  /\ cfg \in {"loading", "ready", "failed", "panicked"}
  /\ \A p, q \in DOMAIN root : ~Clash(p, q)

\* When a configuration is accepted, every include that is required was there,
\* and each file it stands for has been loaded: none got lost on the stack.
RequiredPresent ==
  cfg = "ready" =>
    \A path \in Range(loaded) : \A include \in Range(Includes(path)) :
      (\A option \in include : option.required) =>
        \E option \in include :
          disk[option.path].kind # "missing" /\ Range(Found(option)) \subseteq Range(loaded)

\* The loaded files that say something about the key path p.
About(p) == {i \in DOMAIN loaded : \E q \in DOMAIN Document(loaded[i]) : p = q \/ Clash(p, q)}

\* All that is said about p is what the leaf is: the same, or other lists.
Agreed(p, leaf) ==
  \A i \in About(p) : /\ p \in DOMAIN Document(loaded[i])
                      /\ LET said == Document(loaded[i])[p] IN said = leaf \/ (leaf.list /\ said.list)

\* Whichever of several files wins: what a loaded file says is in the merged mapping
\* unless another loaded file says something else about the same key, and what is
\* there has been said by a loaded file.  Lists are put together, whole.
SettingsKept ==
  /\ \A i \in DOMAIN loaded : \A p \in DOMAIN Document(loaded[i]) :
       LET leaf == Document(loaded[i])[p] IN
       Agreed(p, leaf) =>
         /\ p \in DOMAIN root
         /\ IF leaf.list
              THEN \E from \in 0..(Len(root[p].items) - Len(leaf.items)) :
                     leaf.items = SubSeq(root[p].items, from + 1, from + Len(leaf.items))
              ELSE root[p] = leaf
  /\ \A p \in DOMAIN root : \E i \in DOMAIN loaded :
       /\ p \in DOMAIN Document(loaded[i])
       /\ root[p].list \/ root[p] = Document(loaded[i])[p]

=============================================================================
