---------------------------- MODULE ChunkLedger ----------------------------
(***************************************************************************)
(* The backend's side of an upload: ChunksService, RecordingsService and   *)
(* the storage drivers, for one recording.  Requests are served by         *)
(* handlers that run concurrently and interleave at every await; the rows, *)
(* the summary of the recording and the bytes are all they share.          *)
(*                                                                         *)
(* A chunk is its key (recording, channel, sequence).  Its bytes are the   *)
(* same in every upload, so storage keeps only whether they are whole.     *)
(* durationMs and sizeBytes are sums over a set of rows: `counted` is that *)
(* set.                                                                    *)
(***************************************************************************)
EXTENDS Integers, Sequences, FiniteSets

CONSTANTS
  Key,          \* the chunks of the recording
  Handler,      \* bound: requests served at one time
  AtomicPut,    \* S3 driver (a PUT is atomic) or local driver (it is not)
  Verify,       \* storage.verifyChunkOnCommit
  ServerFaults  \* may a database or storage call fail, the server restart?

ASSUME LedgerAssumption ==
  AtomicPut \in BOOLEAN /\ Verify \in BOOLEAN /\ ServerFaults \in BOOLEAN

VARIABLES
  recording,    \* the recording row: its status, or that there is none
  rows,         \* keys with a chunk row (status 'uploaded')
  counted,      \* rows that durationMs and sizeBytes were summed over
  pending,      \* hasPendingUploads
  blob,         \* what storage holds under a key
  acked,        \* keys whose commit was answered with success
  handler       \* what each handler is doing

ledgerVars == <<recording, rows, counted, pending, blob, acked, handler>>

-----------------------------------------------------------------------------
Ops == {"create", "target", "put", "commit", "complete", "remove"}

\* chunk: the key the request names, if it names one; at: the await it is at;
\* seen: the rows that recomputeStats has read.
Task ==
  [op : Ops, chunk : SUBSET Key, seen : SUBSET Key,
   at : {"begin", "writing", "verify", "upsert", "readStats", "writeStats",
         "finish", "delete"}]

\* A handler that is free remembers how its last request ended.
Free(r) == [op |-> "none", chunk |-> {}, seen |-> {}, at |-> r]
IsFree(h) == handler[h].op = "none"
At(h, op, at) == handler[h].op = op /\ handler[h].at = at

Exists == recording \in {"recording", "completed"}

LedgerTypeOK ==
  /\ recording \in {"none", "recording", "completed", "removed"}
  /\ rows \subseteq Key /\ counted \subseteq Key /\ acked \subseteq Key
  /\ pending \in BOOLEAN
  /\ blob \in [Key -> {"none", "torn", "mixed", "whole"}]
  /\ handler \in [Handler -> Task \cup {Free("ok"), Free("failed")}]

LedgerInit ==
  /\ recording = "none"
  /\ rows = {} /\ counted = {} /\ acked = {}
  /\ pending = TRUE
  /\ blob = [k \in Key |-> "none"]
  /\ handler = [h \in Handler |-> Free("ok")]

-----------------------------------------------------------------------------
\* A request arrives; S names its chunk.
Accept(h, op, S) ==
  /\ IsFree(h)
  /\ handler' = [handler EXCEPT ![h] =
                   [op |-> op, chunk |-> S, seen |-> {}, at |-> "begin"]]

Goto(h, at) == handler' = [handler EXCEPT ![h].at = at]
Reply(h, r) == handler' = [handler EXCEPT ![h] = Free(r)]

\* POST /recordings: the client's id is unique in the table.
Create(h) ==
  /\ At(h, "create", "begin")
  /\ \/ ~Exists /\ recording' = "recording" /\ Reply(h, "ok")
     \/ Exists /\ UNCHANGED recording /\ Reply(h, "failed")
  /\ UNCHANGED <<rows, counted, pending, blob, acked>>

\* assertOwnsRecording and getOwnedRow: the first await of the other requests
\* on a recording, and all that an upload target needs.
AssertOwned(h) ==
  /\ handler[h].at = "begin"
  /\ \/ ~Exists /\ handler[h].op \in {"target", "commit", "complete", "remove"}
        /\ Reply(h, "failed")
     \/ Exists /\ \/ handler[h].op = "target" /\ Reply(h, "ok")
                  \/ handler[h].op = "commit" /\ Goto(h, "verify")
                  \/ handler[h].op = "complete" /\ Goto(h, "readStats")
                  \/ handler[h].op = "remove" /\ Goto(h, "delete")
  /\ UNCHANGED <<recording, rows, counted, pending, blob, acked>>

-----------------------------------------------------------------------------
(* PUT of the bytes.  The local driver truncates the file and then writes  *)
(* it; two writers of one file may leave a mixture of their ciphertexts.   *)

Writers(k) == {h \in Handler : At(h, "put", "writing") /\ k \in handler[h].chunk}

Store(h, b) == blob' = [k \in Key |-> IF k \in handler[h].chunk THEN b ELSE blob[k]]

PutObject(h) ==
  /\ AtomicPut
  /\ At(h, "put", "begin")
  /\ Store(h, "whole")
  /\ Reply(h, "ok")
  /\ UNCHANGED <<recording, rows, counted, pending, acked>>

OpenFile(h) ==
  /\ ~AtomicPut
  /\ At(h, "put", "begin")
  /\ \E k \in handler[h].chunk :
       Store(h, IF Writers(k) = {} THEN "torn" ELSE "mixed")
  /\ Goto(h, "writing")
  /\ UNCHANGED <<recording, rows, counted, pending, acked>>

\* StorageService has the driver that is configured.
Put(h) == IF AtomicPut THEN PutObject(h) ELSE OpenFile(h)

WriteFile(h) ==
  /\ At(h, "put", "writing")
  /\ \E k \in handler[h].chunk :
       \/ blob[k] = "torn" /\ Store(h, "whole")
       \/ blob[k] # "torn" /\ Writers(k) # {h} /\ Store(h, "mixed")
       \/ blob[k] # "torn" /\ Writers(k) = {h}
          /\ \E b \in {"torn", "whole"} : Store(h, b)
  /\ Reply(h, "ok")
  /\ UNCHANGED <<recording, rows, counted, pending, acked>>

-----------------------------------------------------------------------------
(* POST /chunks/commit and recomputeStats.                                 *)

VerifyBytes(h) ==
  \/ (~Verify \/ \A k \in handler[h].chunk : blob[k] = "whole")
     /\ Goto(h, "upsert")
  \/ Verify /\ (\E k \in handler[h].chunk : blob[k] # "whole")
     /\ Reply(h, "failed")

CheckBytes(h) ==
  /\ At(h, "commit", "verify")
  /\ VerifyBytes(h)
  /\ UNCHANGED <<recording, rows, counted, pending, blob, acked>>

\* (mutant) the unique constraint leaves out the sequence number
InsertOnly(h) == rows' = handler[h].chunk

\* One row per key: a repeated commit updates it.
InsertRow(h) == rows' = rows \cup handler[h].chunk

\* The foreign key refuses a row of a recording that is gone.
Upsert(h) ==
  /\ At(h, "commit", "upsert")
  /\ \/ Exists /\ InsertRow(h) /\ Goto(h, "readStats")
     \/ ~Exists /\ UNCHANGED rows /\ Reply(h, "failed")
  /\ UNCHANGED <<recording, counted, pending, blob, acked>>

ReadStats(h) ==
  /\ handler[h].at = "readStats"
  /\ handler' = [handler EXCEPT ![h].at = "writeStats", ![h].seen = rows]
  /\ UNCHANGED <<recording, rows, counted, pending, blob, acked>>

\* (mutant) the summary is written whether or not the recording exists
StatsAnyway(h) == counted' = handler[h].seen /\ pending' = FALSE

\* The sums over what was read; every row that was read is 'uploaded'.
UpdateStats(h) ==
  IF Exists THEN counted' = handler[h].seen /\ pending' = FALSE
            ELSE UNCHANGED <<counted, pending>>

\* The commit is answered, completion goes on; without a recording row the
\* update fails.
WriteStats(h) ==
  /\ handler[h].at = "writeStats"
  /\ UpdateStats(h)
  /\ \/ Exists /\ handler[h].op = "commit"
        /\ acked' = acked \cup handler[h].chunk /\ Reply(h, "ok")
     \/ Exists /\ handler[h].op = "complete"
        /\ UNCHANGED acked /\ Goto(h, "finish")
     \/ ~Exists /\ UNCHANGED acked /\ Reply(h, "failed")
  /\ UNCHANGED <<recording, rows, blob>>

-----------------------------------------------------------------------------
(* The rest of complete and remove.                                        *)

Finish(h) ==
  /\ At(h, "complete", "finish")
  /\ \/ Exists /\ recording' = "completed" /\ Reply(h, "ok")
     \/ ~Exists /\ UNCHANGED recording /\ Reply(h, "failed")
  /\ UNCHANGED <<rows, counted, pending, blob, acked>>

\* (mutant) the chunk rows are not deleted with the recording
Orphan == UNCHANGED rows

\* Rows are deleted by the database's cascade; the bytes stay in storage.
Cascade == rows' = {}

Delete(h) ==
  /\ At(h, "remove", "delete")
  /\ \/ Exists /\ recording' = "removed" /\ Cascade /\ counted' = {}
        /\ Reply(h, "ok")
     \/ ~Exists /\ UNCHANGED <<recording, rows, counted>> /\ Reply(h, "failed")
  /\ UNCHANGED <<pending, blob, acked>>

\* A database or storage call of the handler throws.
Break(h) ==
  /\ ServerFaults
  /\ ~IsFree(h)
  /\ Reply(h, "failed")
  /\ UNCHANGED <<recording, rows, counted, pending, blob, acked>>

\* The server process is restarted: its handlers are gone, the database and
\* the storage stay as they are.
Restart ==
  /\ ServerFaults
  /\ \E h \in Handler : ~IsFree(h)
  /\ handler' = [h \in Handler |-> IF IsFree(h) THEN handler[h] ELSE Free("failed")]
  /\ UNCHANGED <<recording, rows, counted, pending, blob, acked>>

-----------------------------------------------------------------------------
Step(h) ==
  \/ Create(h) \/ AssertOwned(h)
  \/ Put(h) \/ WriteFile(h)
  \/ CheckBytes(h) \/ Upsert(h) \/ ReadStats(h) \/ WriteStats(h)
  \/ Finish(h) \/ Delete(h)

Serve == \/ \E h \in Handler : Step(h) \/ Break(h)
         \/ Restart

Idle(op) == \A h \in Handler : handler[h].op # op

\* Any client of the API, at any time.  A commit carries its checksum, as the
\* page's does; a recording is created under a fresh id (crypto.randomUUID), so
\* the id of a deleted recording is not created again.
Request(h) ==
  /\ \/ \E k \in Key, op \in {"target", "put", "commit"} : Accept(h, op, {k})
     \/ Accept(h, "complete", {})
     \/ recording = "none" /\ Idle("remove") /\ Accept(h, "create", {})
     \/ Idle("create") /\ Accept(h, "remove", {})
  /\ UNCHANGED <<recording, rows, counted, pending, blob, acked>>

LedgerNext == Serve \/ \E h \in Handler : Request(h)

LedgerSpec == LedgerInit /\ [][LedgerNext]_ledgerVars

-----------------------------------------------------------------------------
Writing(k) == Writers(k) # {}

\* What the summary counts has arrived: durationMs and sizeBytes never include
\* a chunk that is not in the ledger, whatever commits, completions and a
\* removal run at once (recordings.service.ts recomputeStats).
CountedArrived == counted \subseteq rows

\* A committed chunk has its bytes: storage holds them whole, or a repeated
\* PUT of the same bytes is still writing them (chunks.service.ts commit).
UploadedIsSafe == \A k \in rows : blob[k] = "whole" \/ Writing(k)

\* A commit that was answered is in the ledger until the user deletes the
\* recording (chunks.service.ts commit, recordings.service.ts remove).
AckedIsCommitted == Exists => acked \subseteq rows

\* A deleted recording leaves no rows, not even those of a commit that was
\* under way (schema.prisma onDelete: Cascade, chunks.service.ts upsert).
RemovedLeavesNoRows == ~Exists => rows = {}

-----------------------------------------------------------------------------
(* The invariant that the four rest on.                                    *)

\* Only a recording that exists or existed has requests past their first
\* await, and none that was deleted is being created.
RequestsFollowCreation ==
  /\ \A h \in Handler :
       handler[h].at \in {"verify", "upsert", "readStats", "writeStats", "finish",
                         "delete"} => recording # "none"
  /\ ~Idle("create") => recording # "removed" /\ Idle("remove")
  /\ recording = "none" => acked = {}

\* Without the recording there are no rows and nothing is counted.
NoOrphans == ~Exists => rows = {} /\ counted = {}

\* While the recording exists, what a handler has read or written is there.
HandlersAgree ==
  Exists =>
    \A h \in Handler :
      /\ handler[h].at = "writeStats" => handler[h].seen \subseteq rows
      /\ handler[h].op = "commit" /\ handler[h].at \in {"readStats", "writeStats"}
           => handler[h].chunk \subseteq rows

Whole == {k \in Key : blob[k] = "whole"}

\* With atomic PUTs and verification, whole bytes come before the row.
BytesBeforeRow ==
  AtomicPut /\ Verify =>
    /\ rows \subseteq Whole
    /\ \A h \in Handler :
         /\ ~At(h, "put", "writing")
         /\ At(h, "commit", "upsert") => handler[h].chunk \subseteq Whole

\* The inductive invariant of the ledger, whatever its clients ask for
\* (chunks.service.ts, recordings.service.ts).
LedgerInv ==
  /\ RequestsFollowCreation /\ NoOrphans /\ HandlersAgree /\ BytesBeforeRow
  /\ CountedArrived /\ AckedIsCommitted

=============================================================================
