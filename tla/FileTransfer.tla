---------------------------- MODULE FileTransfer ----------------------------
(***************************************************************************)
(* Request files: the upload of a file to the primary                      *)
(* (overload/src/overload/file_uploader.rs), and its way to a secondary,   *)
(* whose handlers download it before they serve a job                      *)
(* (download_request_file_from_primary in cluster-executor/src/            *)
(* secondary.rs) from the route /cluster/data-file of the primary          *)
(* (filters_cluster.rs).                                                   *)
(*                                                                         *)
(* One file and one secondary.  Handlers of several connections, for the   *)
(* same job or for other jobs with the same file, prepare concurrently.    *)
(* The file on a disk is what is stored at each position: nothing, the     *)
(* file's own data, or the text of an error.                               *)
(***************************************************************************)
EXTENDS Naturals, Sequences, FiniteSets

CONSTANTS
  Handler,    \* handlers on the secondary that prepare the file
  Uploads,    \* what clients upload: sequences of Row
  MaxFaults,  \* faults of disks and connections in a behaviour (a bound)
  Absent      \* no file

\* What a row of an upload can be: one that is stored, one that does not
\* convert to a request, one the reader rejects.
Row == {"good", "invalid", "unreadable"}

\* What a position of a file on the secondary can hold.
Content == {"nothing", "data", "error"}

ASSUME UploadsAssumption == Uploads \subseteq Seq(Row)
ASSUME FaultsAssumption == MaxFaults \in Nat
ASSUME AbsentAssumption == Absent \notin Nat /\ Absent \notin Seq(Content)

VARIABLES
  format,    \* "csv" or "sqlite"
  upload,    \* the rows the client sends
  next,      \* rows taken from the stream
  success,   \* the count of csv_reader_to_sqlite
  primary,   \* rows in the file on the primary, or Absent
  answer,    \* what the client was told: "none" yet, "file" or "error"
  valid_count,  \* and the count in that answer
  copy,      \* the file on the secondary, or Absent
  pc,        \* where each handler is
  pos,       \* the position its next chunk is written to
  body,      \* what it downloads: the file, or the error of a missing file
  \* bookkeeping of the model
  faults,    \* faults so far
  spoiled    \* a download has failed, or stored an error

vars == <<format, upload, next, success, primary, answer, valid_count, copy,
          pc, pos, body, faults, spoiled>>

uploading == <<format, upload, next, success, primary, answer, valid_count>>
downloading == <<copy, pc, pos, body, spoiled>>

Good(rows) == Cardinality({i \in DOMAIN rows : rows[i] = "good"})

Init ==
  /\ format \in {"csv", "sqlite"}
  /\ upload \in Uploads
  /\ next = 0 /\ success = 0
  /\ primary = Absent
  /\ answer = "none" /\ valid_count = 0
  /\ copy = Absent
  /\ pc = [h \in Handler |-> "new"]
  /\ pos = [h \in Handler |-> 1]
  /\ body = [h \in Handler |-> "file"]
  /\ faults = 0
  /\ spoiled = FALSE

Fault == faults < MaxFaults /\ faults' = faults + 1

-----------------------------------------------------------------------------
(* The upload.                                                             *)

\* The destination is created: an empty file, or a table without rows.
CreateFile ==
  /\ primary = Absent
  /\ answer = "none"
  /\ primary' = 0
  /\ UNCHANGED <<format, upload, next, success, answer, valid_count, faults,
                 downloading>>

\* A mutant: a row is counted before it is converted.
MutCsvRow ==
  /\ format = "csv" /\ primary # Absent /\ answer = "none"
  /\ next < Len(upload)
  /\ next' = next + 1
  /\ LET row == upload[next + 1]
     IN  /\ success' = success + (IF row = "unreadable" THEN 0 ELSE 1)
         /\ primary' = primary + (IF row = "good" THEN 1 ELSE 0)
  /\ UNCHANGED <<format, upload, answer, valid_count, faults, downloading>>

\* csv_reader_to_sqlite, one row: what cannot be read or converted is logged
\* and passed over.
CsvRow ==
  /\ format = "csv" /\ primary # Absent /\ answer = "none"
  /\ next < Len(upload)
  /\ next' = next + 1
  /\ LET stored == IF upload[next + 1] = "good" THEN 1 ELSE 0
     IN  success' = success + stored /\ primary' = primary + stored
  /\ UNCHANGED <<format, upload, answer, valid_count, faults, downloading>>

\* save_sqlite: the body is copied, unzipped or not; a file holds only rows
\* that somebody else has checked.
CopyBody ==
  /\ format = "sqlite" /\ primary # Absent /\ answer = "none"
  /\ next < Len(upload)
  /\ next' = next + 1
  /\ primary' = primary + 1
  /\ UNCHANGED <<format, upload, success, answer, valid_count, faults,
                 downloading>>

\* What the client is told: the csv rows stored, or SELECT COUNT(*).
ValidCount == IF format = "csv" THEN success ELSE primary

UploadDone ==
  /\ primary # Absent /\ answer = "none"
  /\ next = Len(upload)
  /\ answer' = "file"
  /\ valid_count' = ValidCount
  /\ UNCHANGED <<format, upload, next, success, primary, faults, downloading>>

\* Creating, inserting, copying or counting fails.  The file stays.
UploadFails ==
  /\ answer = "none"
  /\ Fault
  /\ answer' = "error"
  /\ UNCHANGED <<format, upload, next, success, primary, valid_count,
                 downloading>>

\* Another node, which does not have the file, becomes the primary.
PrimaryMoves ==
  /\ answer = "file"
  /\ Fault
  /\ primary' = Absent
  /\ UNCHANGED <<format, upload, next, success, answer, valid_count,
                 downloading>>

-----------------------------------------------------------------------------
(* The download, in prepare.                                               *)

Goto(h, place) == pc' = [pc EXCEPT ![h] = place]

Empty == [i \in 1..Len(upload) |-> "nothing"]

Complete ==
  copy # Absent /\ \A i \in 1..valid_count : copy[i] = "data"

\* A mutant: the file is downloaded whether it is there or not.
MutExists(h) ==
  /\ pc[h] = "new"
  /\ answer = "file"
  /\ Goto(h, "absent")
  /\ UNCHANGED <<copy, pos, body, spoiled, uploading, faults>>

\* try_exists: a file that is there is taken for the whole file.  A client
\* knows the name only from the answer to its upload.
Exists(h) ==
  /\ pc[h] = "new"
  /\ answer = "file"
  /\ Goto(h, IF copy # Absent THEN "ready" ELSE "absent")
  /\ UNCHANGED <<copy, pos, body, spoiled, uploading, faults>>

\* File::create truncates what another handler has created since.
Create(h) ==
  /\ pc[h] = "absent"
  /\ copy' = Empty
  /\ Goto(h, "created")
  /\ UNCHANGED <<pos, body, spoiled, uploading, faults>>

CreateFails(h) ==
  /\ pc[h] = "absent"
  /\ Fault
  /\ Goto(h, "failed")
  /\ UNCHANGED <<copy, pos, body, spoiled, uploading>>

\* response_file on the primary; the status of the response is not looked at.
Request(h) ==
  /\ pc[h] = "created"
  /\ body' = [body EXCEPT ![h] = IF primary = Absent THEN "error" ELSE "file"]
  /\ Goto(h, "copying")
  /\ UNCHANGED <<copy, pos, spoiled, uploading, faults>>

\* A mutant: the last chunk is cut off.
MutBodyLen(h) == IF body[h] = "error" THEN 1 ELSE valid_count - 1

\* The chunks of a body: file_stream sends the length the file had when it was
\* opened, which is all of it; an error is a chunk of its own.
BodyLen(h) == IF body[h] = "error" THEN 1 ELSE valid_count

\* tokio::io::copy, one chunk: written where this handler is, whatever others
\* do to the file.
Chunk(h) ==
  /\ pc[h] = "copying"
  /\ pos[h] <= BodyLen(h)
  /\ copy' = [copy EXCEPT ![pos[h]] = IF body[h] = "error" THEN "error"
                                                           ELSE "data"]
  /\ pos' = [pos EXCEPT ![h] = @ + 1]
  /\ spoiled' = (spoiled \/ body[h] = "error")
  /\ UNCHANGED <<pc, body, uploading, faults>>

DownloadDone(h) ==
  /\ pc[h] = "copying"
  /\ pos[h] > BodyLen(h)
  /\ Goto(h, "ready")
  /\ UNCHANGED <<copy, pos, body, spoiled, uploading, faults>>

\* No response, or it breaks off: prepare fails, and what was written stays.
DownloadFails(h) ==
  /\ pc[h] \in {"created", "copying"}
  /\ Fault
  /\ Goto(h, "failed")
  /\ spoiled' = TRUE
  /\ UNCHANGED <<copy, pos, body, uploading>>

-----------------------------------------------------------------------------
Upload ==
  CreateFile \/ CsvRow \/ CopyBody \/ UploadDone \/ UploadFails \/ PrimaryMoves

Download(h) ==
  \/ Exists(h) \/ Create(h) \/ CreateFails(h) \/ Request(h) \/ Chunk(h)
  \/ DownloadDone(h) \/ DownloadFails(h)

Next == Upload \/ \E h \in Handler : Download(h)

Spec == Init /\ [][Next]_vars

-----------------------------------------------------------------------------
\* "API returns valid count, i.e. count of requests that has been parsed
\* successfully" (docs/src/api/upload-data-file.md:84): an answer with a file
\* id counts the valid rows of the upload, all of which are in the file, and
\* an upload that failed on the way answers no id.
UploadAnswered ==
  answer = "file" =>
    /\ valid_count = IF format = "csv" THEN Good(upload) ELSE Len(upload)
    /\ primary \in {valid_count, Absent}

\* A handler whose prepare returned Ok has the whole file once no download is
\* under way, however the checks, the truncations and the writes of the
\* handlers interleave; unless a download failed in the middle, or the primary
\* did not have the file (secondary.rs:1147-1158).
CopyWhole ==
  /\ \E h \in Handler : pc[h] = "ready"
  /\ \A h \in Handler : pc[h] \in {"new", "ready", "failed"}
  /\ ~spoiled
  => Complete

\* A file that is whole is left alone by every handler that looks for it from
\* then on: no job reads a file that is written again.
WholeKept ==
  [][ /\ copy # Absent /\ Complete
      /\ \A h \in Handler : pc[h] \in {"new", "ready", "failed"}
      => /\ copy' = copy
         /\ \A h \in Handler : pc'[h] \in {"new", "ready", "failed"} ]_vars
=============================================================================
