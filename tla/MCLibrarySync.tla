---------------------------- MODULE MCLibrarySync ----------------------------
(* A series to which a special comes, at the front of its list of videos.  *)
EXTENDS LibrarySync

CONSTANTS s, sp, e1

MCReleases == [i \in Item |-> <<<<e1>>, <<sp, e1>>>>]
=============================================================================
