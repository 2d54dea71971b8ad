--------------------------- MODULE MCMeshSimplifier ---------------------------
EXTENDS MeshSimplifier

\* A tetrahedron, a strip with a degenerate triangle, a fan around an inner vertex, and
\* three triangles on one edge; a mesh that is too
\* small; two sheets with two sides each.
Tetrahedron == << <<0, 1, 2>>, <<0, 2, 3>>, <<0, 3, 1>>, <<1, 3, 2>> >>
Strip       == << <<0, 1, 2>>, <<2, 1, 3>>, <<3, 3, 4>> >>
Single      == << <<0, 1, 2>>, <<2, 2, 3>> >>
Fan         == << <<0, 1, 2>>, <<0, 2, 3>>, <<0, 3, 1>> >>
Sheets      == << <<0, 1, 2>>, <<0, 2, 1>>, <<3, 4, 5>>, <<3, 5, 4>> >>
Book        == << <<0, 1, 2>>, <<1, 0, 3>>, <<0, 1, 4>> >>

MCSourceMeshes == {Tetrahedron, Strip, Single, Fan, Book, Sheets}
MCLevelTargets == {<<4, 2, 0>>, <<1, 3>>}

=============================================================================
