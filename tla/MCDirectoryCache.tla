------------------------ MODULE MCDirectoryCache -------------------------
(* DirectoryCache on small instances: every lookup runs in p1.             *)
EXTENDS DirectoryCache

CONSTANT p1

OneHome == [j \in Jobs |-> p1]
=============================================================================
