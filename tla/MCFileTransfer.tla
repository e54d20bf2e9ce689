--------------------------- MODULE MCFileTransfer ---------------------------
(* Instances of FileTransfer for TLC: two files of one name, one of them   *)
(* empty.                                                                  *)
EXTENDS FileTransfer

CONSTANTS ann, bob, cat, long, empty, photo

MCPairs == {{ann, cat}, {bob, cat}}
MCName == [f \in Files |-> photo]
MCSize == [f \in Files |-> IF f = empty THEN 0 ELSE 2]
=============================================================================
