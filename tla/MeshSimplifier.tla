---------------------------- MODULE MeshSimplifier ----------------------------
(***************************************************************************)
(* MeshSimplifier: a mesh loses edges until few enough triangles are left  *)
(* (meshes/simplifier.cpp), once for each of its levels of detail          *)
(* (meshes/lod.cpp).                                                       *)
(*                                                                         *)
(* The topology is modelled and the geometry is not: the order of the      *)
(* queue, which depends on quadric errors, and whether a collapse turns a  *)
(* normal over, are choices of the environment.  Vertices that have been   *)
(* merged share a root; path compression only changes how it is found.     *)
(* A triangle's key is the set of its vertices, as packing keeps it below  *)
(* 2^21 vertices.                                                          *)
(*                                                                         *)
(* Names that AssetPipeline also has are longer here, so that AssetProofs  *)
(* can be about both.                                                      *)
(***************************************************************************)
EXTENDS Integers, Sequences, FiniteSets, SequencesExt, Bags

CONSTANTS
    SourceMeshes,     \* index buffers, as sequences of triangles
    LevelTargets,     \* the triangle counts asked of the levels, as sequences
    MinTriangles      \* min_triangle_count

TriangleOf == Nat \X Nat \X Nat

ASSUME LevelAssumption ==
    /\ SourceMeshes \subseteq Seq(TriangleOf)
    /\ LevelTargets \subseteq Seq(Nat)
    /\ MinTriangles \in Nat

VARIABLES
    source, targets, preserve_boundaries,   \* chosen once
    lod_meshes,            \* the index buffers of the levels
    source_mesh, target_triangles,
    triangles,             \* those of source_mesh with three different vertices
    root,                  \* root_of
    active_triangles,      \* indices into triangles
    active_triangle_keys,
    vertex_triangles,
    boundary_vertices,
    edge_queue,                 \* a bag of edges <<kept, removed>>
    active_triangle_count,
    stage

settings == <<source, targets, preserve_boundaries>>
base     == <<source_mesh, target_triangles, triangles>>
topology == <<root, active_triangles, active_triangle_keys, vertex_triangles,
              boundary_vertices, active_triangle_count>>
meshVars     == <<settings, lod_meshes, base, topology, edge_queue, stage>>

VerticesOf(mesh) == UNION {Range(mesh[i]) : i \in DOMAIN mesh}
Vertices         == VerticesOf(source_mesh)

Roots(t)   == [k \in 1 .. 3 |-> root[triangles[t][k]]]
Key(t)     == Range(Roots(t))
IsValid(t) == Cardinality(Key(t)) = 3

RootVertices == {v \in Vertices : root[v] = v}

\* The triangles of the mesh that have this edge, of those in S.
FacesOf(edge, S) == {t \in S : edge \subseteq Key(t)}
EdgesOf(S)       == UNION {kSubset(2, Key(t)) : t \in S}

-----------------------------------------------------------------------------
(* Faulty variants: each stands for a plausible slip in the code.           *)

\* The keys of the triangles that moved are not inserted.
KeepKeys(keys, moved) == keys

\* A rejected edge goes back into the queue.
KeepEdge(edge) == edge_queue

\* A vertex gets the number of the last one that was added.
Renumbered(corners, v) == Cardinality({corners[c] : c \in DOMAIN corners}) - 1

-----------------------------------------------------------------------------
(* reset, build_triangle_list, build_adjacency and build_edge_queue.        *)

\* What a list keeps if it keeps the places in S, in their order.
Place(i, S)   == Cardinality({j \in S : j <= i})
Kept(list, S) == [n \in 1 .. Cardinality(S) |-> list[CHOOSE i \in S : Place(i, S) = n]]

ValidTriangles(mesh) == Kept(mesh, {i \in DOMAIN mesh : Cardinality(Range(mesh[i])) = 3})

\* Both ends of an edge that does not have exactly two faces, before any collapse.
OnBoundary(list) ==
    LET Faces(e) == {t \in DOMAIN list : e \subseteq Range(list[t])}
        edges    == UNION {kSubset(2, Range(list[t])) : t \in DOMAIN list}
    IN  UNION {e \in edges : Cardinality(Faces(e)) # 2}

Guarded(v) == v \in boundary_vertices

\* The edge may be queued.
Queued(edge) == ~(preserve_boundaries /\ \E v \in edge : Guarded(v))

Ordered(edge) == CHOOSE p \in edge \X edge : p[1] < p[2]

EdgesQueued ==
    {Ordered(e) : e \in {x \in EdgesOf(active_triangles) :
                           /\ Cardinality(FacesOf(x, active_triangles)) \in {1, 2}
                           /\ Queued(x)}}

\* build_static_mesh_lods: the level before is the base if it is between the source and
\* the target.
BaseMesh(target) ==
    IF lod_meshes # <<>> /\ Len(Last(lod_meshes)) > target /\ Len(Last(lod_meshes)) < Len(source)
      THEN Last(lod_meshes) ELSE source

\* The fraction of the base, of its valid triangles: an exact product may be rounded down.
Scaled(count, target, total) ==
    LET share == count * target
    IN  IF total = 0 THEN {count} ELSE {share \div total} \cup (IF share % total = 0 /\ share > 0 THEN {share \div total - 1} ELSE {})

NextLevel ==
    LET wanted == targets[Len(lod_meshes) + 1]
        target == IF wanted = 0 THEN 1 ELSE wanted
        mesh   == BaseMesh(target)
    IN  /\ stage = "level" /\ Len(lod_meshes) < Len(targets)
        /\ IF wanted >= Len(source)
             THEN /\ lod_meshes' = Append(lod_meshes, source)
                  /\ UNCHANGED <<base, topology, edge_queue, stage>>
             ELSE /\ source_mesh' = mesh
                  /\ triangles' = ValidTriangles(mesh)
                  /\ \E n \in Scaled(Len(triangles'), target, Len(mesh)) :
                       target_triangles' = IF n < MinTriangles THEN MinTriangles ELSE n
                  /\ stage' = "reset"
                  /\ UNCHANGED <<lod_meshes, topology, edge_queue>>
        /\ UNCHANGED settings

\* A mesh that is small enough is returned as it is.
CanSimplify == Len(triangles) >= 2 /\ target_triangles < Len(triangles)

Reset ==
    /\ stage = "reset" /\ CanSimplify
    /\ root' = [v \in Vertices |-> v]
    /\ active_triangles' = DOMAIN triangles
    /\ active_triangle_keys' = {Range(triangles[t]) : t \in DOMAIN triangles}
    /\ vertex_triangles' = [v \in Vertices |-> {t \in DOMAIN triangles : v \in Range(triangles[t])}]
    /\ boundary_vertices' = OnBoundary(triangles)
    /\ active_triangle_count' = Len(triangles)
    /\ stage' = "queue"
    /\ UNCHANGED <<settings, lod_meshes, base, edge_queue>>

ReturnMesh ==
    /\ stage = "reset" /\ ~CanSimplify
    /\ lod_meshes' = Append(lod_meshes, source_mesh)
    /\ stage' = "level"
    /\ UNCHANGED <<settings, base, topology, edge_queue>>

BuildEdgeQueue ==
    /\ stage = "queue"
    /\ edge_queue' = SetToBag(EdgesQueued)
    /\ stage' = "loop"
    /\ UNCHANGED <<settings, lod_meshes, base, topology>>

-----------------------------------------------------------------------------
(* simplify_until_target.                                                   *)

\* The edge is on top of the queue.
Top(edge) ==
    /\ stage = "loop"
    /\ active_triangle_count > target_triangles
    /\ edge \in BagToSet(edge_queue)

Popped(edge) == edge_queue (-) SetToBag({edge})

\* Its vertices have been merged.
SkipMerged(edge) ==
    /\ Top(edge)
    /\ root[edge[1]] = root[edge[2]]
    /\ edge_queue' = Popped(edge)
    /\ UNCHANGED <<settings, lod_meshes, base, topology, stage>>

\* One of them has been merged with another: the edge between the roots takes its place.
PushRoots(edge) ==
    LET roots == <<root[edge[1]], root[edge[2]]>>
    IN  /\ Top(edge)
        /\ roots[1] # roots[2] /\ roots # edge
        /\ edge_queue' = Popped(edge) (+) SetToBag({roots})
        /\ UNCHANGED <<settings, lod_meshes, base, topology, stage>>

\* Both are roots, and neither is guarded.
Due(edge) ==
    /\ Top(edge)
    /\ edge[1] # edge[2] /\ \A k \in 1 .. 2 : root[edge[k]] = edge[k]

Affected(kept, removed) == (vertex_triangles[kept] \cup vertex_triangles[removed]) \cap active_triangles

\* can_collapse: two boundary vertices are merged only along an edge of one face.
NoPinch(kept, removed) ==
    {kept, removed} \subseteq boundary_vertices
      => Cardinality(FacesOf({kept, removed}, Affected(kept, removed))) <= 1

Collapsed(t, kept, removed) ==
    {IF v = removed THEN kept ELSE v : v \in Key(t)}

\* collapse_preserves_triangle, of every affected one: none comes to lie on another.
NoOverlap(kept, removed) ==
    LET affected == Affected(kept, removed)
        staying  == {t \in affected : Cardinality(Collapsed(t, kept, removed)) = 3}
    IN  /\ \A t \in staying :
             Collapsed(t, kept, removed) \notin active_triangle_keys \ {Key(s) : s \in affected}
        /\ \A s, t \in staying :
             s # t => Collapsed(s, kept, removed) # Collapsed(t, kept, removed)

CanCollapse(edge) == NoPinch(edge[1], edge[2]) /\ NoOverlap(edge[1], edge[2])

WithKeys(keys, moved) == keys \cup moved

\* collapse_edge.  The keys the moved triangles had before stay in the set.
CollapseEdge(kept, removed) ==
    LET affected == Affected(kept, removed)
        NewKey(t) == Collapsed(t, kept, removed)
        staying  == {t \in affected : Cardinality(NewKey(t)) = 3}
    IN  /\ root' = [v \in Vertices |-> IF root[v] = removed THEN kept ELSE root[v]]
        /\ boundary_vertices' = IF removed \in boundary_vertices
                                  THEN boundary_vertices \cup {kept} ELSE boundary_vertices
        /\ active_triangles' = active_triangles \ (affected \ staying)
        /\ active_triangle_keys' = WithKeys(active_triangle_keys, {NewKey(t) : t \in staying})
        /\ vertex_triangles' = [v \in Vertices |->
             (vertex_triangles[v] \ {t \in affected : v \in NewKey(t)})
               \cup {t \in staying : v \in NewKey(t)}]
        /\ active_triangle_count' = active_triangle_count - Cardinality(affected \ staying)

\* push_vertex_edges_to_queue: the edges the kept vertex has after the collapse.
PushVertexEdges(kept, removed, rest) ==
    LET faces      == vertex_triangles'[kept] \cap active_triangles'
        neighbours == UNION {Collapsed(t, kept, removed) : t \in faces} \ {kept}
        Open(v)    == ~(preserve_boundaries /\ {v, kept} \cap boundary_vertices' # {})
    IN  edge_queue' = rest (+) SetToBag({<<kept, v>> : v \in {n \in neighbours : Open(n)}})

Collapse(edge) ==
    /\ Due(edge)
    /\ Queued({edge[1], edge[2]})
    /\ CanCollapse(edge)
    /\ CollapseEdge(edge[1], edge[2])
    /\ PushVertexEdges(edge[1], edge[2], Popped(edge))
    /\ UNCHANGED <<settings, lod_meshes, base, stage>>

\* A guarded vertex, the topology, or the normal of a triangle forbids it.
Reject(edge) ==
    /\ Due(edge)
    /\ \/ ~Queued({edge[1], edge[2]}) \/ ~CanCollapse(edge)
       \/ \E t \in Affected(edge[1], edge[2]) :
            Cardinality(Collapsed(t, edge[1], edge[2])) = 3
    /\ edge_queue' = Popped(edge)
    /\ UNCHANGED <<settings, lod_meshes, base, topology, stage>>

-----------------------------------------------------------------------------
(* build_output_mesh.                                                       *)

\* The corners of some triangles, one after the other.
Corners(list) ==
    [c \in 1 .. 3 * Len(list) |-> Roots(list[((c - 1) \div 3) + 1])[((c - 1) % 3) + 1]]

\* lod_vertex_for_root: a root's number is that of the roots which came before it.
Before(corners, v)   == {c \in DOMAIN corners : \A d \in 1 .. c : corners[d] # v}
Numbered(corners, v) == Cardinality({corners[c] : c \in Before(corners, v)})

\* The triangles that are left, in the numbers of their roots.
OutputMesh ==
    LET list    == Kept([t \in DOMAIN triangles |-> t], {t \in active_triangles : IsValid(t)})
        corners == Corners(list)
    IN  [i \in DOMAIN list |-> LET n(k) == Numbered(corners, Roots(list[i])[k])
                               IN  <<n(1), n(2), n(3)>>]

Ended == active_triangle_count <= target_triangles \/ edge_queue = EmptyBag

\* The loop ends; without a collapse the mesh is returned as it was.  The simplifier is
\* destroyed: each level has one of its own.
BuildOutputMesh ==
    /\ stage = "loop" /\ Ended
    /\ lod_meshes' = Append(lod_meshes, IF \A v \in Vertices : root[v] = v
                                          THEN source_mesh ELSE OutputMesh)
    /\ stage' = "level"
    /\ root' = <<>> /\ active_triangles' = {} /\ active_triangle_keys' = {}
    /\ vertex_triangles' = <<>> /\ boundary_vertices' = {} /\ active_triangle_count' = 0
    /\ edge_queue' = EmptyBag
    /\ UNCHANGED <<settings, base>>

Finish ==
    /\ stage = "level" /\ Len(lod_meshes) = Len(targets)
    /\ stage' = "done"
    /\ UNCHANGED <<settings, lod_meshes, base, topology, edge_queue>>

-----------------------------------------------------------------------------
SimplifierInit ==
    /\ source \in SourceMeshes /\ targets \in LevelTargets /\ preserve_boundaries \in BOOLEAN
    /\ lod_meshes = <<>>
    /\ source_mesh = <<>> /\ target_triangles = 0 /\ triangles = <<>>
    /\ root = <<>> /\ vertex_triangles = <<>>
    /\ active_triangles = {} /\ active_triangle_keys = {} /\ boundary_vertices = {}
    /\ edge_queue = EmptyBag /\ active_triangle_count = 0
    /\ stage = "level"

Step(edge) == SkipMerged(edge) \/ PushRoots(edge) \/ Collapse(edge) \/ Reject(edge)

SimplifierNext ==
    \/ NextLevel \/ Reset \/ ReturnMesh \/ BuildEdgeQueue \/ BuildOutputMesh \/ Finish
    \/ \E edge \in BagToSet(edge_queue) : Step(edge)

SimplifierSpec     == SimplifierInit /\ [][SimplifierNext]_meshVars
FairSimplifierSpec == SimplifierSpec /\ WF_meshVars(SimplifierNext)

-----------------------------------------------------------------------------
(* Properties.                                                              *)

Simplifying == stage = "loop"

\* The simplifier never recomputes what it knows of the mesh: after any sequence of
\* collapses, its counter, adjacency and key set still describe the triangles that are
\* left, none of which is degenerate or has come to lie on another.
BooksAreTheMesh ==
    /\ active_triangle_count = Cardinality(active_triangles)
    /\ \A t \in active_triangles : IsValid(t)
    /\ \A s, t \in active_triangles : Key(s) = Key(t) => Range(triangles[s]) = Range(triangles[t])
    /\ \A v \in RootVertices : vertex_triangles[v] = {t \in active_triangles : v \in Key(t)}
    /\ {k \in active_triangle_keys : k \subseteq RootVertices} = {Key(t) : t \in active_triangles}

BooksMatch == Simplifying => BooksAreTheMesh

\* When boundaries are preserved, every edge of a hole or rim stays, with the faces it had.
FirstEdges    == UNION {kSubset(2, Range(triangles[t])) : t \in DOMAIN triangles}
FirstFaces(e) == {t \in DOMAIN triangles : e \subseteq Range(triangles[t])}
Rims          == {e \in FirstEdges : Cardinality(FirstFaces(e)) # 2}

BoundaryKept ==
    Simplifying /\ preserve_boundaries =>
      \A e \in Rims : Cardinality(FacesOf(e, active_triangles)) = Cardinality(FirstFaces(e))

\* What the simplifier knows of the mesh is the mesh, and its rims are those it had
\* (collapse_edge, EdgeInfo).
MeshIsKnown == BooksMatch /\ BoundaryKept

\* The mesh has these triangles up to the names of their vertices, which it numbers
\* without a gap.
Shows(mesh, keys) ==
    /\ VerticesOf(mesh) = 0 .. Cardinality(VerticesOf(mesh)) - 1
    /\ \E name \in Bijection(VerticesOf(mesh), UNION keys) :
         {{name[v] : v \in Range(mesh[i])} : i \in DOMAIN mesh} = keys

\* A mesh that lost an edge is written out as a mesh again: it shows the triangles that
\* are left.
OutputMatches ==
    [][stage = "loop" /\ stage' = "level" /\ (\E v \in Vertices : root[v] # v) =>
         /\ Len(Last(lod_meshes')) = active_triangle_count
         /\ Shows(Last(lod_meshes'), {Key(t) : t \in active_triangles})]_meshVars

\* No level is finer than the source, and the simplifier aims at no fewer triangles than it
\* was asked for but for a rounding, whichever level it starts from.
LevelsFit ==
    /\ \A i \in DOMAIN lod_meshes : Len(lod_meshes[i]) <= Len(source)
    /\ Simplifying /\ Len(ValidTriangles(source)) = Len(source) =>
         target_triangles >= targets[Len(lod_meshes) + 1] - 1

\* The mesh loses triangles only while it has too many, and those on one of its edges at a
\* time: it gets coarser than it should by the last edge, which may have more than two.
OneEdgeAtATime ==
    [][stage' = "loop" /\ active_triangles' # active_triangles =>
         /\ active_triangle_count > target_triangles
         /\ \E e \in EdgesOf(active_triangles) :
              active_triangles' = active_triangles \ FacesOf(e, active_triangles)]_meshVars

\* The levels are those asked for, and each is a mesh that shows what is left
\* (generate_mesh_lods, build_simplified_mesh).
LevelsAreMade == []LevelsFit /\ OneEdgeAtATime /\ OutputMatches

\* Every level is made in the end: stale candidates do not replace each other for ever.
Terminates == <>(stage = "done")

-----------------------------------------------------------------------------
(* The inductive invariant behind the theorems of AssetProofs.              *)

IndexBuffers == Seq(TriangleOf)
Working    == stage \in {"queue", "loop"}
Attempting == stage \in {"reset", "queue", "loop"}

MeshesTyped ==
    /\ source \in IndexBuffers /\ targets \in Seq(Nat) /\ preserve_boundaries \in BOOLEAN
    /\ lod_meshes \in Seq(IndexBuffers) /\ source_mesh \in IndexBuffers
    /\ triangles = ValidTriangles(source_mesh)
    /\ target_triangles \in Nat
    /\ stage \in {"level", "reset", "queue", "loop", "done"}

TopologyTyped ==
    /\ root \in [Vertices -> Vertices] /\ \A v \in Vertices : root[root[v]] = root[v]
    /\ active_triangles \subseteq DOMAIN triangles
    /\ DOMAIN vertex_triangles = Vertices
    /\ stage = "loop" => BagToSet(edge_queue) \subseteq Vertices \X Vertices

\* Guarded vertices are merged with none, so their edges keep their triangles.
RimsStay ==
    /\ boundary_vertices = OnBoundary(triangles)
    /\ \A b \in boundary_vertices : \A v \in Vertices : root[v] = b <=> v = b
    /\ \A e \in Rims : FirstFaces(e) \subseteq active_triangles

TopologyInv ==
    /\ MeshesTyped
    /\ Working => /\ TopologyTyped /\ BooksAreTheMesh
                  /\ preserve_boundaries => RimsStay

\* A mesh has at least as many triangles as what is made of it, and none of them is
\* degenerate if its own are not.
Whole(mesh)     == Len(ValidTriangles(mesh)) = Len(mesh)
MadeOf(m, mesh) == Len(m) <= Len(mesh) /\ (Whole(mesh) => Whole(m))

LevelsInv ==
    /\ \A i \in DOMAIN lod_meshes : MadeOf(lod_meshes[i], source)
    /\ Attempting => /\ Len(lod_meshes) < Len(targets)
                     /\ MadeOf(source_mesh, source)
                     /\ Whole(source) => target_triangles >= targets[Len(lod_meshes) + 1] - 1

=============================================================================
