----------------------------- MODULE MCFileIndex -----------------------------
(* FileIndex on a directory with one subdirectory, for TLC.  The name doc   *)
(* occurs in both, the name log (a .log or a hidden file) is not shareable. *)
EXTENDS FileIndex

CONSTANTS doc, log,              \* names
          topdoc, subdoc, toplog, \* places
          b1, b2, b3             \* blocks

MCNameOf == [p \in Places |-> IF p = toplog THEN log ELSE doc]
MCVersions == {<<b1>>, <<b2, b3>>}
MCTop == [n \in Names |-> IF n = log THEN toplog ELSE topdoc]
=============================================================================
