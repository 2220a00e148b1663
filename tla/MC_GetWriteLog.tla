--------------------------- MODULE MC_GetWriteLog ---------------------------
(* Four roots: enough for a path of three write logs, one more than       *)
(* maxAllowedHops, and for forks and cycles among the keys of a version.  *)
EXTENDS GetWriteLog

MCRootIds == 1..4
====
