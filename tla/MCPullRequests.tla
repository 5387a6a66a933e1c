--------------------------- MODULE MCPullRequests ---------------------------
(* Small instances of PullRequests for TLC.                                 *)
EXTENDS PullRequests

\* Two targets in breach of one scenario, and one entry that does not render;
\* each has a file of its own.
Scenarios == <<"s", "s", "r">>
OwnFiles == <<"a", "b", "c">>

\* One target.
Alone == <<"s">>
AloneFile == <<"a">>
=============================================================================
