-------------------------- MODULE MCWorkflowEdit --------------------------
(* Small workflows for TLC: a hub that four nodes are linked to, a pair    *)
(* with an id that is not a number, and one whose link has no source.      *)
EXTENDS WorkflowEdit, TLC

CONSTANTS m, c, d, x, v

Linked(src) == [class |-> c, inputs |-> [k \in Key |-> src]]
Loader == [class |-> d, inputs |-> [k \in Key |-> v]]

MCRequired == (c :> Key) @@ (d :> {})

MCBase ==
  { (1 :> Loader) @@ [n \in 2..5 |-> Linked(1)],
    (2 :> Loader) @@ (m :> Linked(2)),
    (1 :> Loader) @@ (3 :> Linked(4)) }
=============================================================================
