---------------------------- MODULE MCCompile ----------------------------
(* What a compile is made of: BoneTable for skeletons of four bones, with a   *)
(* family of projects for every part of the work, so that each meets its      *)
(* interesting cases; CompileSession for one or two sessions.  They share     *)
(* nothing; the one that is not chosen stays as it begins.                    *)
EXTENDS BoneTable

CONSTANTS Sessions, MaxLines, PipeCapacity, MaxUserActs   \* CompileSession
CONSTANT First                                            \* the session that has a log

ASSUME SessionAssumption ==
  /\ None \notin {"user", "minimal", "partial"}
  /\ MaxLines \in Nat /\ PipeCapacity \in Nat /\ MaxUserActs \in Nat

VARIABLES
  gameinfo, step, created, cancelled, captured, tool, server, left, pipe, pump, log,
  due, acts, faults

sessionVars ==
  <<gameinfo, step, created, cancelled, captured, tool, server, left, pipe, pump, log,
    due, acts, faults>>

Session == INSTANCE CompileSession

Bones == {"A", "B", "C", "D"}
Pairs(S, T) == {p \in S \X T : p[1] # p[2]}

Skeleton(names, parents) ==
  [i \in DOMAIN names |-> [name |-> names[i], parent |-> parents[i]]]
SourceOf(moves, bones, ws) == [active |-> moves, bones |-> bones, verts |-> ws]

\* Four roots, a chain, a fork at the root, a fork below, two trees.
Shapes == {<<0, 0, 0, 0>>, <<0, 1, 2, 3>>, <<0, 1, 1, 1>>, <<0, 1, 2, 2>>, <<0, 1, 0, 3>>}
Order == <<"A", "B", "C", "D">>
Weighted(bones, ws) ==
  [n \in DOMAIN bones |-> [bone |-> bones[n], weight |-> ws[n]]]
AllMove == <<Weighted(<<4, 2>>, <<2, 1>>), Weighted(<<1, 3, 4>>, <<1, 1, 1>>)>>

Lod(pairs, trees, used) ==
  [replacebone |-> [n \in DOMAIN pairs |->
                      [src |-> pairs[n][1], dst |-> pairs[n][2]]],
   bonetreecollapse |-> trees, uses |-> used]
NoReplacement == Lod(<<>>, <<>>, {1, 2})

Plain(shape) ==
  [sources |-> <<SourceOf(TRUE, Skeleton(Order, shape), AllMove)>>,
   rename |-> <<>>, attached |-> {}, rigid |-> {}, ik |-> {}, bonemerge |-> {}, eyeballs |-> {},
   definebone |-> <<>>, hierarchy |-> <<>>, collapsing |-> FALSE, collapse |-> {},
   animations |-> TRUE, animated |-> Bones, procedural |-> <<>>, lods |-> <<NoReplacement>>,
   hitgroups |-> {}, hitboxsets |-> <<{}>>]

Hierarchy(pairs) == [n \in DOMAIN pairs |-> [child |-> pairs[n][1], parent |-> pairs[n][2]]]
Forced(shapes, lengths) ==
  \E s \in shapes, n \in lengths : \E h \in [1 .. n -> Pairs(Bones, Bones \cup {None, "X"})] :
    project = [Plain(s) EXCEPT !.hierarchy = Hierarchy(h)]

\* Imported bones, a second source in another order, bones nothing needs.
Other == SourceOf(FALSE, Skeleton(<<"B", "E", "A">>, <<0, 1, 1>>), <<>>)
Import(name, parent) == [name |-> name, parent |-> parent]
Imports == {<<>>, <<Import("D", None), Import("E", "D")>>, <<Import("E", "A"), Import("A", None)>>}
FewMove == {<<Weighted(<<4, 3>>, <<1, 2>>)>>, <<Weighted(<<2>>, <<3>>)>>, AllMove}
Tagged ==
  \E s \in Shapes, w \in FewMove, d \in Imports, a \in {{}, {"C"}}, r \in {{}, {"D"}},
     m \in {{}, {"E"}}, n \in {<<>>, [b \in {"B"} |-> "F"]}, e \in {{}, {4}}, c \in BOOLEAN :
    /\ e # {} => w # <<Weighted(<<2>>, <<3>>)>> /\ n = <<>>
    /\ project = [Plain(s) EXCEPT
         !.sources = <<[@[1] EXCEPT !.verts = w], Other>>, !.definebone = d, !.attached = a,
         !.rigid = r, !.bonemerge = m, !.rename = n, !.collapsing = c, !.eyeballs = e,
         !.lods = <<Lod(<<>>, <<>>, DOMAIN w)>>]

Collapsing ==
  \E s \in Shapes, m \in SUBSET Bones, c \in {{}, {"A"}, {"B", "C"}}, k \in {{}, {"C"}},
     d \in {<<>>, <<Import("B", None)>>}, g \in BOOLEAN, h \in {<<>>, <<<<"B", "D">>>>} :
    /\ d = <<>> => g
    /\ h # <<>> => c = {} /\ k = {}
    /\ project = [Plain(s) EXCEPT
         !.collapsing = TRUE, !.animated = m, !.collapse = c, !.ik = k, !.definebone = d,
         !.animations = g, !.hierarchy = Hierarchy(h)]

\* Replacements in either direction of an order, so that they are not circular.
Orders == {Order, <<"D", "C", "B", "A">>, <<"B", "D", "A", "X">>}
Downwards(order) ==
  {<<order[p[1]], order[p[2]]>> : p \in {q \in (1 .. 4) \X (1 .. 4) : q[1] < q[2]}}
Levels ==
  \E s \in {<<0, 1, 2, 3>>, <<0, 1, 2, 2>>}, o \in Orders, n \in 0 .. 3 :
    \E r \in [1 .. n -> Downwards(o)] :
      /\ n = 3 => s[4] = 3 \/ o = Order
      /\ project = [Plain(s) EXCEPT !.lods = <<NoReplacement, Lod(r, <<>>, {1, 2})>>]
Trees ==
  \E s \in Shapes, t \in Bones \cup {"X"}, c \in BOOLEAN, n \in 0 .. 2 :
    \E r \in [1 .. n -> Downwards(<<"D", "C", "B", "A">>)] :
      project = [Plain(s) EXCEPT
        !.lods = <<NoReplacement, Lod(<<>>, <<t>>, {1}), Lod(r, <<t>>, {2})>>,
        !.collapsing = c, !.animated = {"A", "C", "D"}]

\* Hit boxes the compiler makes, some of the script's, and names it does not know.
Boxes == {[sets |-> <<>>, groups |-> {}], [sets |-> <<{"D"}, {"C", "A"}>>, groups |-> {"B"}],
          [sets |-> <<{"B"}>>, groups |-> {"X"}]}

\* Procedural bones, with the parents their file names.
Proc(s, kind, bone, control) ==
  [kind |-> kind, bone |-> bone, control |-> control,
   parent |-> IF bone = "D" /\ s[4] # 0 THEN Order[s[4]] ELSE "B",
   controlparent |-> IF control = "C" /\ s[3] # 0 THEN Order[s[3]] ELSE "A"]
OneProcedural ==
  \E s \in Shapes, b \in {"D", "E"}, c \in {"C", "B", "E"}, g \in BOOLEAN, w \in FewMove,
     m \in {Bones, {"A", "B"}}, a \in {"B", "C"}, h \in Boxes :
    project = [Plain(s) EXCEPT
      !.procedural = <<Proc(s, "quat", b, c)>>, !.collapsing = g, !.attached = {a},
      !.sources = <<[@[1] EXCEPT !.verts = w]>>, !.animated = m,
      !.hitgroups = h.groups, !.hitboxsets = h.sets,
      !.lods = <<Lod(<<>>, <<>>, DOMAIN w)>>]

\* Two of them, one of which may be used with the other.
ParentIn(s, name) == Order[s[Max({n \in DOMAIN Order : Order[n] = name})]]
Quat(s, pair) ==
  [kind |-> "quat", bone |-> pair[1], control |-> pair[2],
   parent |-> ParentIn(s, pair[1]), controlparent |-> ParentIn(s, pair[2])]
TwoProcedural ==
  \E s \in {<<0, 1, 2, 3>>, <<0, 1, 1, 1>>, <<0, 1, 2, 2>>}, a \in {"B", "C", "D"}, w \in FewMove :
    \E p, q \in Pairs({"B", "C", "D"}, {"B", "C", "D"}) :
      project = [Plain(s) EXCEPT
        !.procedural = <<Quat(s, p), Quat(s, q)>>, !.attached = {a}, !.hitboxsets = <<>>,
        !.sources = <<[@[1] EXCEPT !.verts = w]>>, !.lods = <<Lod(<<>>, <<>>, DOMAIN w)>>]

AnyProject ==
  \/ Forced(Shapes, {1}) \/ Forced({<<0, 0, 0, 0>>, <<0, 1, 2, 3>>}, {2})
  \/ Tagged \/ Collapsing \/ Levels \/ Trees \/ OneProcedural \/ TwoProcedural

\* Three forced parents over four roots.
ChainProject == Forced({<<0, 0, 0, 0>>}, {3})

\* One session with a log, in a folder without gameinfo.txt, and up to MaxLines lines
\* on one stream, one on the other; or two that overlap, whose tools write nothing.
Silent(s) == s \notin captured /\ \A x \in Session!Streams : left[s][x] = 0
OneSession == captured = {First} /\ gameinfo = None /\ left[First]["err"] <= 1 /\ \A s \in Sessions :
  IF s = First THEN step[s] = "start" ELSE step[s] = "returned" /\ Silent(s)
TwoSessions == captured = {} /\ \A s \in Sessions : step[s] = "start" /\ Silent(s)

NoProject == project = Plain(<<0, 0, 0, 0>>)
NoSession ==
  /\ gameinfo = None /\ captured = {}
  /\ step = [s \in Sessions |-> "returned"] /\ left = [s \in Sessions |-> [x \in Session!Streams |-> 0]]
  /\ Session!Init

\* What ended stays as it is; a server process may keep a session for ever, and a
\* pump that failed may keep its tool.
TableEnded == stage \in {"done", "error"}
SessionRests ==
  stage = "tag" /\ \A s \in Sessions : step[s] = "returned" \/ server[s] \/ Session!Failed(s)
Rest == (TableEnded \/ SessionRests) /\ UNCHANGED <<vars, sessionVars>>

TableNext == NoSession /\ Next /\ UNCHANGED sessionVars
SessionNext == NoProject /\ Init /\ Session!Next /\ UNCHANGED vars
MCNext == TableNext \/ SessionNext \/ Rest

Steps == [][MCNext]_<<vars, sessionVars>> /\ Loops /\ Session!Fairness
MCInit ==
  \/ AnyProject /\ Init /\ NoSession
  \/ NoProject /\ Init /\ Session!Init /\ (OneSession \/ TwoSessions)
MCSpec == MCInit /\ Steps
MCChainSpec == ChainProject /\ Init /\ NoSession /\ Steps

LogWhole == Session!LogWhole
FolderAsFound == Session!FolderAsFound
Returns == Session!Returns

=============================================================================
