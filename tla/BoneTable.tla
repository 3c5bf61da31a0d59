------------------------------ MODULE BoneTable ------------------------------
(***************************************************************************)
(* BoneTable: how the model compiler makes one skeleton out of the sources  *)
(* of a model, and ties every vertex of every level of detail to it.         *)
(*                                                                         *)
(* A bone's flags are a set: "att" and "merge" for attachments and bone      *)
(* merges, one of LodFlag for every level of detail whose vertices use the   *)
(* bone or a child of it, "hit" for hit boxes, "proc" for procedural bones.  *)
(* Indices are one higher than in the code, and 0 stands for its -1.         *)
(* Positions and rotations are left out; the first source is the model, the  *)
(* others are animations.                                                   *)
(***************************************************************************)
EXTENDS Integers, Sequences, SequencesExt, FiniteSets, FiniteSetsExt, TLC

CONSTANTS
  CircularLimit,   \* passes after which the hierarchy is taken for circular
  MAXSTUDIOBONES,
  None             \* the empty name

ASSUME BoneAssumption == None \notin STRING

LodFlag == <<"lod0", "lod1", "lod2">>

VARIABLES
  project,   \* the commands and the sources of this compile
  stage,     \* what SimplifyModel does next
  boneflags, \* what every bone of every source is used for
  boneref,   \* what it or a bone below it is used for
  table,     \* g_bonetable
  at,        \* the bone a loop over the table has come to
  passes,    \* count of EnforceHierarchy
  swapped,   \* bSort of this pass
  global,    \* boneLocalToGlobal of every source
  replace,   \* boneReplacements of every level of detail
  verts,     \* globalBoneweight of the model's vertices
  bonemap,   \* boneMap of the level of detail that comes next
  lods       \* the weights of the vertices of the levels of detail

tags == <<boneflags, boneref>>
weights == <<verts, bonemap, lods>>
vars ==
  <<project, stage, tags, table, at, passes, swapped, global, replace, weights>>

Model == project.sources[1]
Indices(s) == [i \in 1 .. Len(s) |-> i]

\* FoldLeft; what is carried along is evaluated once at every step.
Fold(Op(_, _), base, s) ==
  LET f[n \in 0 .. Len(s)] ==
        IF n = 0 THEN base ELSE CHOOSE r \in {Op(t, s[n]) : t \in {f[n - 1]}} : TRUE
  IN  f[Len(s)]

AllFlags == Range(LodFlag) \cup {"att", "merge", "hit", "proc"}

\* What the script and the sources are made of, and a bone of the table.
NamedBone == [name : STRING, parent : Nat]
Influence == [bone : Nat, weight : Nat]
Replacement == [src : STRING, dst : STRING]
Bone == [name : STRING, flags : SUBSET AllFlags, keep : BOOLEAN, parent : Nat]

\* In a source parents come before their children; the name a bone is renamed to
\* is no bone's old name.
IsProject(p) ==
  /\ p.sources \in Seq([active : BOOLEAN, bones : Seq(NamedBone), verts : Seq(Seq(Influence))])
  /\ p.lods \in Seq([replacebone : Seq(Replacement), bonetreecollapse : Seq(STRING),
                     uses : SUBSET Nat])
  /\ p.definebone \in Seq([name : STRING, parent : STRING \cup {None}])
  /\ p.hierarchy \in Seq([child : STRING, parent : STRING \cup {None}])
  /\ p.procedural \in Seq([kind : STRING, bone : STRING, control : STRING, parent : STRING,
                           controlparent : STRING])
  /\ p.hitgroups \subseteq STRING /\ p.hitboxsets \in Seq(SUBSET STRING)
  /\ DOMAIN p.rename \subseteq STRING /\ Range(p.rename) \subseteq STRING
  /\ Len(p.lods) \in 1 .. Len(LodFlag) /\ p.sources # <<>> /\ p.sources[1].active
  /\ \A s \in Range(p.sources) :
       /\ \A j \in DOMAIN s.bones : s.bones[j].parent < j
       /\ \A v \in DOMAIN s.verts : \A x \in Range(s.verts[v]) : x.bone \in DOMAIN s.bones
  /\ \A l \in DOMAIN p.lods : p.lods[l].uses \subseteq DOMAIN p.sources[1].verts
  /\ Range(p.rename) \cap DOMAIN p.rename = {}

Init ==
  /\ IsProject(project)
  /\ stage = "tag" /\ boneflags = <<>> /\ boneref = <<>>
  /\ table = <<>> /\ at = 1 /\ passes = 0 /\ swapped = FALSE
  /\ global = <<>> /\ verts = <<>> /\ bonemap = <<>> /\ lods = <<>>
  /\ replace = [l \in DOMAIN project.lods |-> project.lods[l].replacebone]

Ancestors(parents, i) ==
  LET up[k \in 0 .. Len(parents)] ==
        IF k = 0 THEN {} ELSE {parents[k]} \cup up[parents[k]]
  IN  up[i] \ {0}

\* The indices above i.
Above(bones, i) == Ancestors([k \in DOMAIN bones |-> bones[k].parent], i)

\* i and those below it.
Below(bones, i) == {i} \cup {j \in DOMAIN bones : i \in Above(bones, j)}

-----------------------------------------------------------------------------
(* TagUsedBones, RenameBones, BuildGlobalBonetable *)

\* A rigid attachment keeps the nearest bone that moves vertices.
RigidBone(s, j, moving) ==
  Max({0} \cup (({j} \cup Above(s.bones, j)) \cap moving))

BoneFlags(s) ==
  LET moving == IF s.active THEN {x.bone : x \in UNION {Range(w) : w \in Range(s.verts)}} ELSE {}
      Named(names) == {j \in DOMAIN s.bones : s.bones[j].name \in names}
      rigid == {RigidBone(s, j, moving) : j \in Named(project.rigid)}
  IN  [j \in DOMAIN s.bones |->
         (IF j \in moving THEN {LodFlag[1]} ELSE {})
         \cup (IF j \in Named(project.attached \cup project.ik) \cup rigid THEN {"att"} ELSE {})
         \cup (IF j \in Named(project.bonemerge) THEN {"merge"} ELSE {})]

\* UpdateBonerefRecursive, for all bones.
ChainedUp(flags, s, j) == UNION {flags[k] : k \in Below(s.bones, j)}

\* The eyeballs come last: the bones above an eyeball's are not told.
TagUsedBones ==
  /\ stage = "tag" /\ stage' = "build"
  /\ boneflags' = [n \in DOMAIN project.sources |-> BoneFlags(project.sources[n])]
  /\ boneref' = [n \in DOMAIN project.sources |->
       [j \in DOMAIN project.sources[n].bones |->
          ChainedUp(boneflags'[n], project.sources[n], j)
          \cup (IF n = 1 /\ j \in project.eyeballs THEN {"att"} ELSE {})]]
  /\ UNCHANGED <<project, table, at, passes, swapped, global, replace, weights>>

RenameBone(name) ==
  IF name \in DOMAIN project.rename THEN project.rename[name] ELSE name

NameIn(s, j) == RenameBone(s.bones[j].name)   \* after RenameBones

Find(t, name) ==
  LET found == {i \in DOMAIN t : t[i].name = RenameBone(name)}
  IN  IF found = {} THEN 0 ELSE Min(found)

AddImport(t, imp) ==
  LET k   == Find(t, imp.name)
      new == [name |-> imp.name, flags |-> {}, keep |-> TRUE,
              parent |-> IF imp.parent = None THEN 0 ELSE Find(t, imp.parent)]
  IN  IF k = 0 THEN Append(t, new) ELSE [t EXCEPT ![k].keep = TRUE]

\* TagUsedImportedBones
TagImported(t) ==
  [i \in DOMAIN t |-> [t[i] EXCEPT !.flags =
     @ \cup (IF t[i].name \in project.bonemerge THEN {"merge"} ELSE {})]]

AddBone(i, t, j) ==
  LET s == project.sources[i]
      k == Find(t, NameIn(s, j))
      n == s.bones[j].parent
      new == [name |-> NameIn(s, j), flags |-> boneflags[i][j], keep |-> FALSE,
              parent |-> IF n = 0 THEN 0 ELSE Find(t, NameIn(s, n))]
  IN  CASE boneref[i][j] = {}             -> t
        [] boneref[i][j] # {} /\ k = 0    -> Append(t, new)
        [] boneref[i][j] # {} /\ k # 0    -> [t EXCEPT ![k].flags = @ \cup boneflags[i][j]]

AddSource(t, i) ==
  Fold(LAMBDA u, j : AddBone(i, u, j), t, Indices(project.sources[i].bones))

BuildGlobalBonetable ==
  /\ stage = "build" /\ stage' = "force"
  /\ table' = Fold(AddSource, TagImported(Fold(AddImport, <<>>, project.definebone)),
                   Indices(project.sources))
  /\ UNCHANGED <<project, tags, at, passes, swapped, global, replace, weights>>

-----------------------------------------------------------------------------
(* EnforceHierarchy *)

Unknown(h) ==
  \/ h.parent # None /\ Find(table, h.parent) = 0
  \/ Find(table, h.child) = 0

ForceParent(t, h) ==
  [t EXCEPT ![Find(t, h.child)].parent = IF h.parent = None THEN 0 ELSE Find(t, h.parent)]

ForceHierarchy ==
  /\ stage = "force"
  /\ IF \E h \in Range(project.hierarchy) : Unknown(h)
       THEN stage' = "error" /\ UNCHANGED <<table, at, passes, swapped>>
       ELSE /\ table' = Fold(ForceParent, table, project.hierarchy)
            /\ stage' = "sort" /\ at' = 1 /\ passes' = 1 /\ swapped' = FALSE
  /\ UNCHANGED <<project, tags, global, replace, weights>>

LateParents == {i \in DOMAIN table : i >= at /\ table[i].parent > i}

Relink(k, i, j) ==
  IF k = i THEN j ELSE IF k = j THEN i ELSE k

\* The bone and its parent change places.  The relinking begins at i.
Swap(t, i) ==
  LET j == t[i].parent
      s == [k \in DOMAIN t |-> t[Relink(k, i, j)]]
  IN  [k \in DOMAIN t |->
         IF k < i THEN s[k] ELSE [s[k] EXCEPT !.parent = Relink(@, i, j)]]

SortSwap ==
  /\ stage = "sort" /\ LateParents # {}
  /\ table' = Swap(table, Min(LateParents))
  /\ at' = Min(LateParents) + 1 /\ swapped' = TRUE
  /\ UNCHANGED <<project, stage, tags, passes, global, replace, weights>>

\* Mutant: nobody counts.
SortPassForever ==
  /\ stage = "sort" /\ LateParents = {}
  /\ at' = 1 /\ swapped' = FALSE /\ stage' = IF swapped THEN "sort" ELSE "chain"
  /\ UNCHANGED <<project, tags, table, passes, global, replace, weights>>

\* Mutant: one pass is thought to be enough.
SortPassOnce ==
  /\ stage = "sort" /\ LateParents = {}
  /\ at' = 1 /\ swapped' = FALSE /\ stage' = "chain"
  /\ UNCHANGED <<project, tags, table, passes, global, replace, weights>>

SortPass ==
  /\ stage = "sort" /\ LateParents = {}
  /\ at' = 1 /\ swapped' = FALSE
  /\ stage' = IF passes > CircularLimit THEN "error" ELSE IF swapped THEN "sort" ELSE "chain"
  /\ passes' = IF stage' = "sort" THEN passes + 1 ELSE passes
  /\ UNCHANGED <<project, tags, table, global, replace, weights>>

-----------------------------------------------------------------------------
(* RemapBones: what follows *)

\* Every bone gets the flags in mask of the bones below it.
FlagsUp(t, mask) ==
  [i \in DOMAIN t |-> [t[i] EXCEPT !.flags =
     @ \cup UNION {t[k].flags \cap mask : k \in Below(t, i)}]]

\* A bone made its own parent is walked up for ever.
FlagParents ==
  /\ stage = "chain" /\ \A i \in DOMAIN table : table[i].parent # i
  /\ table' = FlagsUp(table, AllFlags)
  /\ stage' = "collapse" /\ at' = 1
  /\ UNCHANGED <<project, tags, passes, swapped, global, replace, weights>>

BoneHasAnimation(i) ==
  project.animations /\ (table[i].parent = 0 \/ table[i].name \in project.animated)

BoneIsProcedural(name) == \E p \in Range(project.procedural) : p.bone = name

BoneShouldCollapse(i) ==
  \/ table[i].name \in project.collapse
  \/ ~BoneHasAnimation(i) /\ ~BoneIsProcedural(table[i].name) /\ table[i].name \notin project.ik

Collapses(i) ==
  project.collapsing /\ ~table[i].keep /\ (table[i].flags = {} \/ BoneShouldCollapse(i))

\* Mutant: the children of the bone become roots.
RemoveBoneToRoot(k) ==
  [i \in DOMAIN RemoveAt(table, k) |->
     [RemoveAt(table, k)[i] EXCEPT !.parent =
        IF @ = k THEN 0 ELSE IF @ > k THEN @ - 1 ELSE @]]

RemoveBone(k) ==
  [i \in DOMAIN RemoveAt(table, k) |->
     [RemoveAt(table, k)[i] EXCEPT !.parent =
        IF @ = k THEN table[k].parent ELSE IF @ > k THEN @ - 1 ELSE @]]

\* One turn of the loop of CollapseBones, and its end.
CollapseBones ==
  /\ stage = "collapse"
  /\ IF at > Len(table)
       THEN stage' = "procedural" /\ UNCHANGED <<table, at>>
       ELSE /\ table' = IF Collapses(at) THEN RemoveBone(at) ELSE table
            /\ at' = IF Collapses(at) THEN at ELSE at + 1
            /\ UNCHANGED stage
  /\ UNCHANGED <<project, tags, passes, swapped, global, replace, weights>>

ProceduralBone(t, n) == Find(t, project.procedural[n].bone)
Control(t, n) == Find(t, project.procedural[n].control)

\* The procedural bones that are left, by their numbers.
Procedural == {n \in DOMAIN project.procedural : ProceduralBone(table, n) # 0}

TagProceduralBones ==
  /\ stage = "procedural"
  /\ IF \E n \in Procedural : Control(table, n) = 0
       THEN stage' = "error" /\ UNCHANGED table
       ELSE /\ table' = [i \in DOMAIN table |-> [table[i] EXCEPT !.flags =
                 @ \cup (IF \E n \in Procedural : ProceduralBone(table, n) = i
                           THEN {"proc"} ELSE {})]]
            /\ stage' = IF Len(table) >= MAXSTUDIOBONES THEN "error" ELSE "map"
  /\ UNCHANGED <<project, tags, at, passes, swapped, global, replace, weights>>

\* Mutant: a collapsed bone goes to the root.
NearestToRoot(s, j) ==
  IF Find(table, NameIn(s, j)) # 0 THEN Find(table, NameIn(s, j)) ELSE 1

\* The bone itself, the nearest bone above it that is left, or the first bone.
Nearest(s, j) ==
  LET left == {m \in {j} \cup Above(s.bones, j) : Find(table, NameIn(s, m)) # 0}
  IN  IF left = {} THEN 1 ELSE Find(table, NameIn(s, Max(left)))

MapSourcesToGlobalBonetable ==
  /\ stage = "map" /\ stage' = "trees"
  /\ global' = [s \in DOMAIN project.sources |->
                  [j \in DOMAIN project.sources[s].bones |-> Nearest(project.sources[s], j)]]
  /\ UNCHANGED <<project, tags, table, at, passes, swapped, replace, weights>>

-----------------------------------------------------------------------------
(* Levels of detail *)

ReplaceBelow(reps, r, i) ==
  IF r \in Above(table, i)
    THEN Append(reps, [src |-> table[i].name, dst |-> table[r].name]) ELSE reps

\* bonetreecollapse: every bone below it is replaced by the bone.
TreeReplacements(reps, name) ==
  LET r == Find(table, name)
  IN  IF r = 0 THEN reps
      ELSE Fold(LAMBDA found, i : ReplaceBelow(found, r, i), reps, Indices(table))

ConvertBoneTreeCollapses ==
  /\ stage = "trees" /\ stage' = "fixup"
  /\ replace' = [l \in DOMAIN replace |->
       Fold(TreeReplacements, replace[l], project.lods[l].bonetreecollapse)]
  /\ UNCHANGED <<project, tags, table, at, passes, swapped, global, weights>>

\* What is replaced by what replacement i replaces is replaced by what i does.
ChainReplacement(reps, i, j) ==
  IF i # j /\ reps[i].src = reps[j].dst THEN [reps EXCEPT ![j].dst = reps[i].dst] ELSE reps

\* What replacement i replaces is looked for in every other one.
ChainTo(reps, i) == Fold(LAMBDA r, j : ChainReplacement(r, i, j), reps, Indices(reps))

\* One pass over the pairs of replacements.
FixupPass(reps) == Fold(ChainTo, reps, Indices(reps))

\* A pass over these finds something to change.
Chained(reps) == \E i, j \in DOMAIN reps : i # j /\ reps[i].src = reps[j].dst

\* Mutant: the replacements are used as they were written.
FixupReplacedBonesNot ==
  /\ stage = "fixup" /\ stage' = "vertices"
  /\ UNCHANGED <<project, tags, table, at, passes, swapped, global, replace, weights>>

\* Passes are made until one finds nothing.
FixupReplacedBones ==
  /\ stage = "fixup"
  /\ IF \E l \in DOMAIN replace : Chained(replace[l])
       THEN replace' = [l \in DOMAIN replace |-> FixupPass(replace[l])] /\ UNCHANGED stage
       ELSE stage' = "vertices" /\ UNCHANGED replace
  /\ UNCHANGED <<project, tags, table, at, passes, swapped, global, weights>>

AddInfluence(w, x) ==
  IF \E m \in DOMAIN w : w[m].bone = x.bone
    THEN [m \in DOMAIN w |-> IF w[m].bone = x.bone
                               THEN [w[m] EXCEPT !.weight = @ + x.weight] ELSE w[m]]
    ELSE Append(w, x)

Moved(w, map) == [n \in DOMAIN w |-> [w[n] EXCEPT !.bone = map[@]]]

RemapVerticesToGlobalBones ==
  /\ stage = "vertices" /\ stage' = "unify"
  /\ verts' = [v \in DOMAIN Model.verts |->
                 Fold(AddInfluence, <<>>, Moved(Model.verts[v], global[1]))]
  /\ UNCHANGED <<project, tags, table, at, passes, swapped, global, replace, bonemap, lods>>

EnterReplacement(map, r) ==
  LET j == Find(table, r.src)  k == Find(table, r.dst)
  IN  IF j # 0 /\ k # 0 THEN [map EXCEPT ![j] = k] ELSE map

BuildBoneLODMapping(l) == Fold(EnterReplacement, Indices(table), replace[l])

\* The lower index or the greater weight comes first.
SortKey(by, x) == IF by = "index" THEN x.bone ELSE 0 - x.weight

\* x goes behind the last one that need not be exchanged with it.
InsertInfluence(by, w, x) ==
  InsertAt(w, 1 + Max({0} \cup {n \in DOMAIN w : SortKey(by, w[n]) <= SortKey(by, x)}), x)

SortBoneWeight(by, w) == Fold(LAMBDA sorted, x : InsertInfluence(by, sorted, x), <<>>, w)

\* Neighbours of the same bone become one.
MergeNeighbours(w, x) ==
  IF w # <<>> /\ Last(w).bone = x.bone
    THEN [w EXCEPT ![Len(w)].weight = @ + x.weight] ELSE Append(w, x)

CollapseBoneWeights(w) == Fold(MergeNeighbours, <<>>, SortBoneWeight("index", w))

MarkBonesUsedByLod(t, l, ws) ==
  [i \in DOMAIN t |-> [t[i] EXCEPT !.flags =
     @ \cup (IF \E v \in DOMAIN ws : \E x \in Range(ws[v]) : x.bone = i
               THEN {LodFlag[l]} ELSE {})]]

\* MarkRootLODBones, then CreateLODVertsInDictionary for one level after the other:
\* a vertex gets the weights of the vertex of the first level it matches, the
\* bones replaced, and the bones it is left with are marked.  (A vertex near one of
\* a level in between takes the weights that one has, with its bones replaced.)
UnifyLODs ==
  LET l == Len(lods) + 1
  IN  /\ stage = "unify"
      /\ bonemap' = BuildBoneLODMapping(l)
      /\ lods' = Append(lods, [v \in project.lods[l].uses |->
           SortBoneWeight("weight", CollapseBoneWeights(Moved(verts[v], bonemap')))])
      /\ table' = MarkBonesUsedByLod(table, l, lods'[l])
      /\ stage' = IF l = Len(project.lods) THEN "parents" ELSE "unify"
      /\ UNCHANGED <<project, tags, at, passes, swapped, global, replace, verts>>

MarkParentBoneLODs ==
  /\ stage = "parents" /\ stage' = "remap"
  /\ table' = FlagsUp(table, Range(LodFlag))
  /\ UNCHANGED <<project, tags, at, passes, swapped, global, replace, weights>>

-----------------------------------------------------------------------------
(* RemapProceduralBones, MarkProceduralBoneChain, SetupHitBoxes *)

QuatInterp == {n \in Procedural : project.procedural[n].kind = "quat"}

ParentIs(name, parent) ==
  Find(table, parent) # 0 /\ table[Find(table, name)].parent = Find(table, parent)

RemapProceduralBones ==
  /\ stage = "remap"
  /\ stage' = IF \A n \in QuatInterp :
                   LET p == project.procedural[n]
                   IN  ParentIs(p.bone, p.parent) /\ ParentIs(p.control, p.controlparent)
                THEN "mark" ELSE "error"
  /\ UNCHANGED <<project, tags, table, at, passes, swapped, global, replace, weights>>

UsedMask == AllFlags \ {"proc"}

\* The bones that are used when procedural bone n is.
UsedWith(t, n) ==
  {Control(t, n)} \cup Above(t, Control(t, n)) \cup Above(t, ProceduralBone(t, n))

\* Mutant: the bones above the control are forgotten.
MarkChainControl(t, n) ==
  IF n \in QuatInterp
    THEN [i \in DOMAIN t |->
            IF i \in {ProceduralBone(t, n), Control(t, n)} \cup Above(t, ProceduralBone(t, n))
              THEN [t[i] EXCEPT !.flags = @ \cup (t[ProceduralBone(t, n)].flags \cap UsedMask)]
              ELSE t[i]]
    ELSE t

\* The flags of a procedural bone go to its control, its own ancestors and those
\* of the control.
MarkChain(t, n) ==
  IF n \in QuatInterp
    THEN [i \in DOMAIN t |->
            IF i \in {ProceduralBone(t, n)} \cup UsedWith(t, n)
              THEN [t[i] EXCEPT !.flags = @ \cup (t[ProceduralBone(t, n)].flags \cap UsedMask)]
              ELSE t[i]]
    ELSE t

MarkProceduralBoneChain ==
  /\ stage = "mark" /\ stage' = "hitboxes"
  /\ table' = Fold(MarkChain, table, Indices(project.procedural))
  /\ UNCHANGED <<project, tags, at, passes, swapped, global, replace, weights>>

\* Without a set of hit boxes a bone gets one if its vertices and children take up
\* enough room.
Extended ==
  {i \in DOMAIN table :
     \/ \E v \in DOMAIN verts : \E x \in Range(verts[v]) : x.bone = i
     \/ \E k \in DOMAIN table : table[k].parent = i}

BoxNames == UNION Range(project.hitboxsets)

HitBones ==
  IF project.hitboxsets = <<>> THEN SUBSET Extended
                               ELSE {{Find(table, name) : name \in BoxNames}}

SetupHitBoxes ==
  /\ stage = "hitboxes"
  /\ IF \E name \in project.hitgroups \cup BoxNames : Find(table, name) = 0
       THEN stage' = "error" /\ UNCHANGED table
       ELSE /\ stage' = "done"
            /\ \E hit \in HitBones :
                 table' = [i \in DOMAIN table |-> [table[i] EXCEPT !.flags =
                   @ \cup (IF Below(table, i) \cap hit # {} THEN {"hit"} ELSE {})]]
  /\ UNCHANGED <<project, tags, at, passes, swapped, global, replace, weights>>

Next ==
  \/ TagUsedBones \/ BuildGlobalBonetable \/ ForceHierarchy \/ SortSwap \/ SortPass \/ FlagParents
  \/ CollapseBones \/ TagProceduralBones \/ MapSourcesToGlobalBonetable
  \/ ConvertBoneTreeCollapses \/ FixupReplacedBones \/ RemapVerticesToGlobalBones
  \/ UnifyLODs \/ MarkParentBoneLODs \/ RemapProceduralBones \/ MarkProceduralBoneChain
  \/ SetupHitBoxes

Spec == Init /\ [][Next]_vars

\* The compiler is one thread; these are its loops that nothing bounds in advance.
Loops == WF_vars(SortSwap \/ SortPass) /\ WF_vars(CollapseBones) /\ WF_vars(FixupReplacedBones)

FairSpec == Spec /\ Loops

-----------------------------------------------------------------------------

\* What is between the sources and the sorted table, and what comes after it.
Sorted == stage \notin {"tag", "build", "force", "sort", "error"}

Names(t) == {t[i].name : i \in DOMAIN t}
Named(t, name) == CHOOSE i \in DOMAIN t : t[i].name = name
Parent(t, name) ==
  LET p == t[Named(t, name)].parent IN IF p = 0 THEN None ELSE t[p].name

\* The bone's parent, or where that is removed the parent's.
NextOfKin(b) ==
  LET p == Parent(table, b)
  IN  IF p \in Names(table') \cup {None} THEN p ELSE Parent(table, p)

SameKin == \A b \in Names(table') : Parent(table', b) = NextOfKin(b)

\* A bone from which the way up does not end.
Circular(t) ==
  LET up[n \in 0 .. Len(t)] ==
        [i \in DOMAIN t |->
           IF n = 0 THEN i ELSE IF up[n - 1][i] = 0 THEN 0 ELSE t[up[n - 1][i]].parent]
  IN  \E i \in DOMAIN t : up[Len(t)][i] # 0

\* Every loop after EnforceHierarchy computes a bone from its parent in one pass over
\* the table: however the hierarchy was forced and whatever was collapsed, the
\* parent of a bone stands before it.  "Circular bone hierarchy" is said of every
\* hierarchy that is, and of no other: the sort does not untie it.
SortedOrRejected ==
  /\ [](Sorted => \A i \in DOMAIN table : table[i].parent < i)
  /\ [][stage = "sort" =>
          CASE stage' = "sort" -> Circular(table') = Circular(table)
            [] stage' = "error" -> Circular(table)
            [] stage' = "chain" -> ~Circular(table)]_vars

\* simplify.cpp:3882, "relink parents": two bones change places and the skeleton
\* stays what it was.
Relinked == [][(stage = "sort" /\ ~Circular(table)) => SameKin]_vars

\* The table has no bone twice, and a bone it took from the model has the parent it
\* has there: whatever made the bone needed, the bones above it came before it.
SourceKin ==
  stage = "force" =>
    /\ IsInjective([i \in DOMAIN table |-> table[i].name])
    /\ \A j \in DOMAIN Model.bones :
         LET name == NameIn(Model, j)  n == Model.bones[j].parent
         IN  (boneref[1][j] # {} /\ n # 0 /\ \A i \in Range(project.definebone) : i.name # name)
               => Parent(table, name) = NameIn(Model, n)

\* From the sources to the compiled skeleton a bone keeps its parent.  Sorting moves
\* bones and collapsing removes them, one at a time: in a skeleton that is not
\* circular a bone keeps the parent it has, or gets that of the one removed.
SkeletonKept ==
  /\ []SourceKin
  /\ [][(stage \in {"sort", "collapse"} /\ ~Circular(table)) => SameKin]_vars

Total(w) ==
  LET sum[n \in 0 .. Len(w)] == IF n = 0 THEN 0 ELSE sum[n - 1] + w[n].weight
  IN  sum[Len(w)]
Distinct(w) == \A m, n \in DOMAIN w : w[m].bone = w[n].bone => m = n

\* The bone x of the table, or of what is left of it, is where the weight of bone j
\* of the model goes: the nearest at or above j that is left.
GoesTo(j, x) ==
  LET up == {j} \cup Above(Model.bones, j)
      kept == {m \in up : NameIn(Model, m) \in Names(table)}
  IN  kept # {} =>
        \E m \in kept : NameIn(Model, m) = table[x].name /\ kept \subseteq {m} \cup Above(Model.bones, m)

\* The weights of a vertex keep their sum and no bone has two of them, on the way
\* into the table and at every level of detail, however many of its bones collapse
\* or are replaced by one; and the weight on a bone that collapsed goes to the
\* nearest bone above it that did not.  Where every bone collapsed, the weights are
\* for a bone that does not exist.
WeightsKept ==
  table # <<>> =>
    /\ \A v \in DOMAIN verts :
         /\ Total(verts[v]) = Total(Model.verts[v]) /\ Distinct(verts[v])
         /\ \A x \in Range(verts[v]) : x.bone \in DOMAIN table
         /\ \A x \in Range(verts[v]) : \E y \in Range(Model.verts[v]) : GoesTo(y.bone, x.bone)
    /\ \A l \in DOMAIN lods : \A v \in DOMAIN lods[l] :
         /\ Total(lods[l][v]) = Total(Model.verts[v]) /\ Distinct(lods[l][v])
         /\ \A x \in Range(lods[l][v]) : x.bone \in DOMAIN table

\* The script names a bone of the table, and does so by its name there.
NamesBone(name) == name \in Names(table) \ DOMAIN project.rename

\* No vertex of a level is left on a bone the script replaces at that level by
\* another, by whatever chain of replacements, as long as every bone named is in the
\* table.  Replacements are chained by name: one that names a bone as it was before
\* $renamebone is not chained to those that name it as it is now.
ReplacedGone ==
  \A l \in DOMAIN lods :
    (\A r \in Range(replace[l]) : NamesBone(r.src) /\ NamesBone(r.dst)) =>
      \A v \in DOMAIN lods[l] : \A x \in Range(lods[l][v]) :
        \A r \in Range(replace[l]) : r.src # r.dst => x.bone # Find(table, r.src)

\* What the marking of the chains can pass on: hit boxes are set up after it.
Passed == UsedMask \ {"hit"}

\* The engine computes at a level of detail the bones that carry its flag: in the
\* finished table every bone a vertex of the level moves with does, and all bones
\* above it.  And what a bone of a quaternion controller is used for, its control and
\* the bones above that are used for (simplify.cpp:7305, "procedural bone needs to
\* propogate its bone usage up its chain"), with two exceptions the code makes: a use
\* that a later one adds, which is used with it, and the use by a hit box.
BonesSetUp ==
  /\ (stage \in {"remap", "mark", "hitboxes", "done"} /\ table # <<>>) =>
       \A l \in DOMAIN lods : \A v \in DOMAIN lods[l] : \A x \in Range(lods[l][v]) :
         \A i \in {x.bone} \cup Above(table, x.bone) : LodFlag[l] \in table[i].flags
  /\ stage \in {"hitboxes", "done"} =>
       \A n \in QuatInterp :
         (\A m \in QuatInterp : m > n => ProceduralBone(table, n) \notin UsedWith(table, m)) =>
           \A i \in UsedWith(table, n) :
             table[ProceduralBone(table, n)].flags \cap Passed \subseteq table[i].flags

\* The loops that run until nothing changes any more come to their end, on a
\* circular hierarchy and on any chain of replacements that is not.
LoopsEnd == \A s \in {"sort", "collapse", "fixup"} : stage = s ~> stage # s

=============================================================================
