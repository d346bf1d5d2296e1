------------------------- MODULE MCWorkspaceStorage -------------------------
(* Small instances of WorkspaceStorage for TLC.                            *)
EXTENDS WorkspaceStorage, TLC

CONSTANTS p1, p2, x, y

Tree(first, second) == p1 :> first @@ p2 :> second

\* A file alone, the same with another content, and the first with a second file.
ThreeTrees == {Tree(x, NoContent), Tree(y, NoContent), Tree(x, x)}

=============================================================================
