--------------------------- MODULE MCDriveChanges ---------------------------
(***************************************************************************)
(* Instances of DriveChanges for TLC.                                      *)
(***************************************************************************)
EXTENDS DriveChanges

\* Nothing fails, nothing dies.
SmoothNext ==
  \/ \E h \in Hubs : Deliver(h) \/ ReadRow(h) \/ List(h) \/ DeleteChunks(h) \/ ReadFile(h)
                     \/ Clear(h, TRUE) \/ PutChunk(h) \/ Save(h) \/ Unlatch(h)
  \/ \E r \in Renewals : RenewReads(r) \/ FetchToken(r) \/ Watch(r, TRUE) \/ SaveChannel(r)
                         \/ StopOld(r, TRUE)
  \/ \E f \in Files, there \in BOOLEAN : Edit(f, there)
  \/ Activity

SmoothSpec == Init /\ [][SmoothNext]_vars
=============================================================================
