----------------------------- MODULE DownloadMC -----------------------------
(* Every header and range with its numbers on, at or beside a boundary of a *)
(* file, for model checking.                                                *)
EXTENDS Download

Numbers == 0 .. Size + 1

Asked(kind, first, last) == [kind |-> kind, first |-> first, last |-> last]

AllRequests ==
  {Asked("none", 0, 0), Asked("bad", 0, 0)}
  \cup {Asked("range", f, l) : f \in Numbers, l \in Numbers \cup {Open}}
  \cup {Asked("suffix", 0, l) : l \in Numbers}
  \cup {Asked("read", f, l) : f \in Numbers, l \in Numbers \ {0}}
=============================================================================
