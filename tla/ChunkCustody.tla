---------------------------- MODULE ChunkCustody ----------------------------
(***************************************************************************)
(* What the upload of a recording promises, without queues, requests,      *)
(* handlers and retries: a stored chunk is in local custody until the      *)
(* cloud has it, and the cloud keeps it until the user deletes the         *)
(* recording.  UploadQueue implements this specification.                  *)
(***************************************************************************)
CONSTANT Key

VARIABLES
  stored,   \* chunks that have ever been stored
  local,    \* chunks in local custody
  cloud,    \* chunks in the custody of the cloud
  deleted   \* has the user deleted the recording?

cVars == <<stored, local, cloud, deleted>>

CInit == stored = {} /\ local = {} /\ cloud = {} /\ deleted = FALSE

CStore(k) ==
  /\ k \notin stored
  /\ stored' = stored \cup {k} /\ local' = local \cup {k}
  /\ UNCHANGED <<cloud, deleted>>

\* The cloud takes a chunk over from its local copy.
CCommit(k) ==
  /\ k \in local /\ ~deleted
  /\ cloud' = cloud \cup {k}
  /\ UNCHANGED <<stored, local, deleted>>

\* The local copy is given up when the cloud has the chunk, or after the user
\* has deleted the recording there.
CReclaim(k) ==
  /\ k \in cloud \/ deleted
  /\ local' = local \ {k}
  /\ UNCHANGED <<stored, cloud, deleted>>

CDelete ==
  /\ ~deleted /\ deleted' = TRUE
  /\ cloud' = {}
  /\ UNCHANGED <<stored, local>>

CNext ==
  \/ \E k \in Key : CStore(k) \/ CCommit(k) \/ CReclaim(k)
  \/ CDelete

CSpec == CInit /\ [][CNext]_cVars

=============================================================================
