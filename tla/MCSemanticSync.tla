--------------------------- MODULE MCSemanticSync ---------------------------
(***************************************************************************)
(* Small instances of SemanticSync for TLC.                                *)
(***************************************************************************)
EXTENDS SemanticSync

\* Three records, a tick apart, the second delivered late, the first and
\* the last of one Stripe object.
MCStamp  == [e \in Records |-> e - 1]
MCObject == [e \in Records |-> IF e = 2 THEN 2 ELSE 1]
MCLag    == [e \in Records |-> IF e = 2 THEN 1 ELSE 0]

\* Two events of one object in one second.
MCSameSecond == [e \in Records |-> 0]
MCSameObject == [e \in Records |-> 1]
=============================================================================
