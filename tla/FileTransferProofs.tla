------------------------- MODULE FileTransferProofs -------------------------
(***************************************************************************)
(* The properties of FileTransfer, for any number of handlers, any upload  *)
(* and any number of faults.                                               *)
(***************************************************************************)
EXTENDS FileTransfer, FiniteSetTheorems, TLAPS

Place == {"new", "absent", "created", "copying", "ready", "failed"}

Typed ==
  /\ format \in {"csv", "sqlite"}
  /\ upload \in Seq(Row)
  /\ next \in 0..Len(upload)
  /\ success \in Nat
  /\ primary \in Nat \cup {Absent}
  /\ answer \in {"none", "file", "error"}
  /\ valid_count \in Nat
  /\ copy \in [1..Len(upload) -> Content] \cup {Absent}
  /\ pc \in [Handler -> Place]
  /\ pos \in [Handler -> Nat \ {0}]
  /\ body \in [Handler -> {"file", "error"}]
  /\ spoiled \in BOOLEAN

\* The good ones of the first n rows.
GoodUpTo(n) == {i \in 1..n : upload[i] = "good"}

\* What has been stored and counted of the rows taken from the stream.
Counted ==
  /\ primary = Absent /\ answer # "file" => next = 0 /\ success = 0
  /\ format = "csv" => success = Cardinality(GoodUpTo(next))
  /\ primary # Absent =>
       primary = IF format = "csv" THEN success ELSE next
  /\ answer = "file" => next = Len(upload) /\ valid_count <= Len(upload)

\* Handlers come after the answer, and write from the first position on.
Ordered ==
  /\ copy # Absent => answer = "file"
  /\ \A h \in Handler :
       /\ pc[h] # "new" => answer = "file"
       /\ pc[h] \in {"created", "copying", "ready"} => copy # Absent
       /\ pc[h] \in {"new", "absent", "created"} => pos[h] = 1
       /\ pc[h] = "copying" /\ body[h] = "error" /\ pos[h] > 1 => spoiled

\* What is missing in the copy is still to be written by a handler, the one
\* that has truncated the file or one that has not got there.
Covered ==
  copy # Absent /\ ~spoiled =>
    \A i \in 1..valid_count :
      \/ copy[i] = "data"
      \/ \E h \in Handler : \/ pc[h] = "created"
                            \/ pc[h] = "copying" /\ pos[h] <= i

IInv == Typed /\ Counted /\ UploadAnswered /\ Ordered /\ Covered
-----------------------------------------------------------------------------
(* The proofs.                                                             *)

\* Taking one more row adds it to the good ones or leaves them as they are;
\* all of the upload are the good rows of the property.
LEMMA GoodRows ==
  ASSUME upload \in Seq(Row)
  PROVE  /\ \A n \in 0..Len(upload) :
              Cardinality(GoodUpTo(n)) \in Nat /\ Cardinality(GoodUpTo(n)) <= n
         /\ \A n \in 0..(Len(upload) - 1) :
              Cardinality(GoodUpTo(n + 1)) =
                Cardinality(GoodUpTo(n)) + (IF upload[n + 1] = "good" THEN 1 ELSE 0)
         /\ Cardinality(GoodUpTo(0)) = 0
         /\ GoodUpTo(Len(upload)) = {i \in DOMAIN upload : upload[i] = "good"}
<1>1. \A n \in 0..Len(upload) :
        /\ IsFiniteSet(GoodUpTo(n))
        /\ Cardinality(GoodUpTo(n)) \in Nat /\ Cardinality(GoodUpTo(n)) <= n
  <2> SUFFICES ASSUME NEW n \in 0..Len(upload)
               PROVE  /\ IsFiniteSet(GoodUpTo(n))
                      /\ Cardinality(GoodUpTo(n)) \in Nat
                      /\ Cardinality(GoodUpTo(n)) <= n
    OBVIOUS
  <2>0. 1 \in Int /\ n \in Int /\ n >= 0
    OBVIOUS
  <2>1. IsFiniteSet(1..n)
    BY FS_Interval
  <2>2. Cardinality(1..n) = IF 1 > n THEN 0 ELSE n - 1 + 1
    BY FS_Interval
  <2>3. GoodUpTo(n) \subseteq 1..n
    BY DEF GoodUpTo
  <2>4. /\ IsFiniteSet(GoodUpTo(n))
        /\ Cardinality(GoodUpTo(n)) <= Cardinality(1..n)
    BY <2>1, <2>3, FS_Subset
  <2>5. Cardinality(GoodUpTo(n)) \in Nat
    BY <2>4, FS_CardinalityType
  <2> QED BY <2>2, <2>4, <2>5
<1>2. ASSUME NEW n \in 0..(Len(upload) - 1)
      PROVE  Cardinality(GoodUpTo(n + 1)) =
               Cardinality(GoodUpTo(n)) + (IF upload[n + 1] = "good" THEN 1 ELSE 0)
  <2>0. n \in 0..Len(upload)
    OBVIOUS
  <2>1. CASE upload[n + 1] = "good"
    <3>1. GoodUpTo(n + 1) = GoodUpTo(n) \cup {n + 1} /\ n + 1 \notin GoodUpTo(n)
      BY <2>1 DEF GoodUpTo
    <3>2. Cardinality(GoodUpTo(n) \cup {n + 1}) = Cardinality(GoodUpTo(n)) + 1
      BY <1>1, <2>0, <3>1, FS_AddElement
    <3> QED BY <2>1, <3>1, <3>2
  <2>2. CASE upload[n + 1] # "good"
    <3>1. GoodUpTo(n + 1) = GoodUpTo(n)
      BY <2>2 DEF GoodUpTo
    <3> QED BY <1>1, <2>2, <3>1
  <2> QED BY <2>1, <2>2
<1>3. Cardinality(GoodUpTo(0)) = 0
  BY FS_EmptySet DEF GoodUpTo
<1>4. GoodUpTo(Len(upload)) = {i \in DOMAIN upload : upload[i] = "good"}
  BY DEF GoodUpTo
<1> QED BY <1>1, <1>2, <1>4

\* It holds before the upload.
LEMMA Starts == Init => IInv
<1> SUFFICES ASSUME Init PROVE IInv
  OBVIOUS
<1>1. upload \in Seq(Row)
  BY UploadsAssumption DEF Init
<1>2. Typed
  <2>1. next \in 0..Len(upload)
    BY DEF Init
  <2>2. spoiled \in BOOLEAN
    BY DEF Init
  <2> QED BY <1>1, <2>2 DEF Init, Typed, Place
<1>3. Counted
  BY <1>1, GoodRows DEF Init, Counted
<1>4. UploadAnswered /\ Ordered /\ Covered
  BY DEF Init, UploadAnswered, Ordered, Covered
<1> QED BY <1>2, <1>3, <1>4 DEF IInv

\* The upload begins: no row is counted.
LEMMA CreateFileKeeps ==
  ASSUME IInv, CreateFile
  PROVE  IInv'
<1>0. Typed
  BY DEF IInv
<1>1. Typed'
  BY <1>0 DEF CreateFile, downloading, Typed
<1>2. Counted'
  BY DEF CreateFile, IInv, Counted, GoodUpTo
<1>3. UploadAnswered'
  BY DEF CreateFile, UploadAnswered
<1>4. Ordered'
  BY DEF CreateFile, downloading, IInv, Ordered
<1>5. Covered'
  BY DEF CreateFile, downloading, IInv, Covered
<1> QED BY <1>1, <1>2, <1>3, <1>4, <1>5 DEF IInv

\* csv_reader_to_sqlite: one row is counted if it is good.
LEMMA CsvRowKeeps ==
  ASSUME IInv, CsvRow
  PROVE  IInv'
<1>0. Typed
  BY DEF IInv
<1>1. Typed'
  BY <1>0 DEF CsvRow, downloading, Typed
<1>2. Counted'
  <2> DEFINE row == IF upload[next + 1] = "good" THEN 1 ELSE 0
  <2>1. /\ next' = next + 1 /\ success' = success + row
        /\ primary' = primary + row
        /\ UNCHANGED <<format, upload, answer>>
        /\ format = "csv" /\ primary # Absent /\ answer = "none"
    BY DEF CsvRow
  <2>2. /\ next \in 0..(Len(upload) - 1) /\ row \in Nat
        /\ primary \in Nat /\ success \in Nat
    BY <1>0 DEF CsvRow, Typed
  <2>3. success = Cardinality(GoodUpTo(next)) /\ primary = success
    BY <2>1 DEF IInv, Counted
  <2>4. Cardinality(GoodUpTo(next + 1)) = Cardinality(GoodUpTo(next)) + row
    BY <1>0, <2>2, GoodRows DEF Typed
  <2>5. GoodUpTo(next)' = GoodUpTo(next + 1)
    BY <2>1 DEF GoodUpTo
  <2>6. primary' # Absent
    BY <2>1, <2>2, AbsentAssumption
  <2> HIDE DEF row
  <2> QED BY <2>1, <2>3, <2>4, <2>5, <2>6 DEF Counted
<1>3. UploadAnswered'
  BY DEF CsvRow, UploadAnswered
<1>4. Ordered'
  BY DEF CsvRow, downloading, IInv, Ordered
<1>5. Covered'
  BY DEF CsvRow, downloading, IInv, Covered
<1> QED BY <1>1, <1>2, <1>3, <1>4, <1>5 DEF IInv

\* The body of an SQLite upload is stored.
LEMMA CopyBodyKeeps ==
  ASSUME IInv, CopyBody
  PROVE  IInv'
<1>0. Typed
  BY DEF IInv
<1>1. Typed'
  BY <1>0 DEF CopyBody, downloading, Typed
<1>2. Counted'
  BY AbsentAssumption DEF CopyBody, IInv, Typed, Counted
<1>3. UploadAnswered'
  BY DEF CopyBody, UploadAnswered
<1>4. Ordered'
  BY DEF CopyBody, downloading, IInv, Ordered
<1>5. Covered'
  BY DEF CopyBody, downloading, IInv, Covered
<1> QED BY <1>1, <1>2, <1>3, <1>4, <1>5 DEF IInv

\* The upload is answered.
LEMMA UploadDoneKeeps ==
  ASSUME IInv, UploadDone
  PROVE  IInv'
<1>0. Typed
  BY DEF IInv
<1>1. Typed'
  BY <1>0 DEF UploadDone, downloading, ValidCount, Typed
<1>2. Counted'
  BY GoodRows DEF UploadDone, ValidCount, IInv, Typed, Counted, GoodUpTo
<1>3. UploadAnswered'
  BY GoodRows DEF UploadDone, ValidCount, Good, IInv, Typed, Counted,
       UploadAnswered
<1>4. Ordered'
  BY DEF UploadDone, downloading, IInv, Ordered
<1>5. Covered'
  BY DEF UploadDone, downloading, IInv, Ordered, Covered
<1> QED BY <1>1, <1>2, <1>3, <1>4, <1>5 DEF IInv

\* The upload fails: nothing is promised.
LEMMA UploadFailsKeeps ==
  ASSUME IInv, UploadFails
  PROVE  IInv'
<1>0. Typed
  BY DEF IInv
<1>1. Typed'
  BY <1>0 DEF UploadFails, downloading, Typed
<1>2. Counted'
  BY DEF UploadFails, IInv, Counted, GoodUpTo
<1>3. UploadAnswered'
  BY DEF UploadFails, UploadAnswered
<1>4. Ordered'
  BY DEF UploadFails, downloading, IInv, Ordered
<1>5. Covered'
  BY DEF UploadFails, downloading, IInv, Covered
<1> QED BY <1>1, <1>2, <1>3, <1>4, <1>5 DEF IInv

\* Another node becomes primary: nothing changes on the secondary.
LEMMA PrimaryMovesKeeps ==
  ASSUME IInv, PrimaryMoves
  PROVE  IInv'
<1>0. Typed
  BY DEF IInv
<1>1. Typed'
  BY <1>0 DEF PrimaryMoves, downloading, Typed
<1>2. Counted'
  BY DEF PrimaryMoves, IInv, Counted, GoodUpTo
<1>3. UploadAnswered'
  BY DEF PrimaryMoves, IInv, UploadAnswered
<1>4. Ordered'
  BY DEF PrimaryMoves, downloading, IInv, Ordered
<1>5. Covered'
  BY DEF PrimaryMoves, downloading, IInv, Covered
<1> QED BY <1>1, <1>2, <1>3, <1>4, <1>5 DEF IInv

\* A handler looks whether the file is there.
LEMMA ExistsKeeps ==
  ASSUME IInv, NEW h \in Handler, Exists(h)
  PROVE  IInv'
<1>0. Typed
  BY DEF IInv
<1>1. Typed'
  BY <1>0 DEF Exists, uploading, Goto, Typed, Place
<1>2. Counted'
  BY DEF Exists, uploading, IInv, Counted, GoodUpTo
<1>3. UploadAnswered'
  BY DEF Exists, uploading, IInv, UploadAnswered
<1>4. Ordered'
  BY DEF Exists, uploading, Goto, IInv, Ordered
<1>5. Covered'
  BY DEF Exists, uploading, Goto, IInv, Covered
<1> QED BY <1>1, <1>2, <1>3, <1>4, <1>5 DEF IInv

\* A handler creates the file, or truncates it, and has all of it to write.
LEMMA CreateKeeps ==
  ASSUME IInv, NEW h \in Handler, Create(h)
  PROVE  IInv'
<1>0. Typed
  BY DEF IInv
<1>1. Typed'
  BY <1>0 DEF Create, uploading, Goto, Empty, Typed, Place, Content
<1>2. Counted'
  BY DEF Create, uploading, IInv, Counted, GoodUpTo
<1>3. UploadAnswered'
  BY DEF Create, uploading, IInv, UploadAnswered
<1>4. Ordered'
  BY AbsentAssumption DEF Create, uploading, Goto, Empty, IInv, Content,
       Ordered
<1>5. Covered'
  BY <1>0 DEF Create, Goto, Typed, Covered
<1> QED BY <1>1, <1>2, <1>3, <1>4, <1>5 DEF IInv

\* The file cannot be created: the handler fails.
LEMMA CreateFailsKeeps ==
  ASSUME IInv, NEW h \in Handler, CreateFails(h)
  PROVE  IInv'
<1>0. Typed
  BY DEF IInv
<1>1. Typed'
  BY <1>0 DEF CreateFails, uploading, Goto, Typed, Place
<1>2. Counted'
  BY DEF CreateFails, uploading, IInv, Counted, GoodUpTo
<1>3. UploadAnswered'
  BY DEF CreateFails, uploading, IInv, UploadAnswered
<1>4. Ordered'
  BY DEF CreateFails, uploading, Goto, IInv, Ordered
<1>5. Covered'
  BY DEF CreateFails, uploading, Goto, IInv, Covered
<1> QED BY <1>1, <1>2, <1>3, <1>4, <1>5 DEF IInv

\* A handler asks the primary for the file.
LEMMA RequestKeeps ==
  ASSUME IInv, NEW h \in Handler, Request(h)
  PROVE  IInv'
<1>0. Typed
  BY DEF IInv
<1>1. Typed'
  BY <1>0 DEF Request, uploading, Goto, Typed, Place
<1>2. Counted'
  BY DEF Request, uploading, IInv, Counted, GoodUpTo
<1>3. UploadAnswered'
  BY DEF Request, uploading, IInv, UploadAnswered
<1>4. Ordered'
  BY DEF Request, uploading, Goto, IInv, Ordered
<1>5. Covered'
  BY DEF Request, Goto, IInv, Ordered, Covered
<1> QED BY <1>1, <1>2, <1>3, <1>4, <1>5 DEF IInv

\* What a handler writes to is a file.
LEMMA IsCopy ==
  ASSUME upload \in Seq(Row), NEW f \in [1..Len(upload) -> Content]
  PROVE  f # Absent
<1>1. Len(upload) \in Nat
  OBVIOUS
<1>2. f \in Seq(Content)
  BY <1>1
<1> QED BY AbsentAssumption

\* One chunk is written where the handler has got to.
LEMMA ChunkKeeps ==
  ASSUME IInv, NEW h \in Handler, Chunk(h)
  PROVE  IInv'
<1>0. Typed
  BY DEF IInv
<1>00. /\ upload \in Seq(Row)
       /\ pc[h] = "copying" /\ copy # Absent /\ copy \in [1..Len(upload) -> Content]
       /\ answer = "file" /\ valid_count \in 0..Len(upload)
       /\ pos[h] <= BodyLen(h)
       /\ pos' = [pos EXCEPT ![h] = @ + 1]
       /\ UNCHANGED <<pc, body, uploading, faults>>
  BY DEF Chunk, IInv, Typed, Ordered, Counted
<1>01. CASE body[h] = "error"
  <2>1. spoiled' = TRUE /\ copy' = [copy EXCEPT ![pos[h]] = "error"]
    BY <1>01 DEF Chunk
  <2>2. copy' \in [1..Len(upload) -> Content] /\ copy' # Absent
    BY <1>00, <2>1, IsCopy DEF Content
  <2>3. Typed'
    BY <1>0, <1>00, <2>1, <2>2 DEF Typed, uploading
  <2>4. Counted' /\ UploadAnswered'
    BY <1>00 DEF IInv, Counted, GoodUpTo, UploadAnswered, uploading
  <2>5. Ordered' /\ Covered'
    BY <1>00, <2>1, <2>2 DEF IInv, Typed, Ordered, Covered, uploading
  <2> QED BY <2>3, <2>4, <2>5 DEF IInv
<1>02. CASE body[h] # "error"
  <2>1. spoiled' = spoiled /\ copy' = [copy EXCEPT ![pos[h]] = "data"]
    BY <1>0, <1>02 DEF Chunk, Typed
  <2>2. copy' \in [1..Len(upload) -> Content] /\ copy' # Absent
    BY <1>00, <2>1, IsCopy DEF Content
  <2>3. Typed'
    BY <1>0, <1>00, <2>1, <2>2 DEF Typed, uploading
  <2>4. Counted' /\ UploadAnswered'
    BY <1>00 DEF IInv, Counted, GoodUpTo, UploadAnswered, uploading
  <2>5. Ordered'
    BY <1>00, <1>02, <2>1, <2>2 DEF IInv, Ordered, uploading
  <2>6. Covered'
    BY <1>00, <2>1, <2>2 DEF IInv, Covered, BodyLen
  <2> QED BY <2>3, <2>4, <2>5, <2>6 DEF IInv
<1> QED BY <1>01, <1>02

\* The handler that is done has written every position.
LEMMA DownloadDoneKeeps ==
  ASSUME IInv, NEW h \in Handler, DownloadDone(h)
  PROVE  IInv'
<1>0. Typed
  BY DEF IInv
<1>1. Typed'
  BY <1>0 DEF DownloadDone, uploading, Goto, Typed, Place
<1>2. Counted'
  BY DEF DownloadDone, uploading, IInv, Counted, GoodUpTo
<1>3. UploadAnswered'
  BY DEF DownloadDone, uploading, IInv, UploadAnswered
<1>4. Ordered'
  BY DEF DownloadDone, uploading, Goto, IInv, Ordered
<1>5. Covered'
  BY DEF DownloadDone, uploading, Goto, BodyLen, IInv, Typed, Place, Content,
       UploadAnswered, Ordered, Covered
<1> QED BY <1>1, <1>2, <1>3, <1>4, <1>5 DEF IInv

\* A download that fails in the middle spoils the copy.
LEMMA DownloadFailsKeeps ==
  ASSUME IInv, NEW h \in Handler, DownloadFails(h)
  PROVE  IInv'
<1>0. Typed
  BY DEF IInv
<1>1. Typed'
  BY <1>0 DEF DownloadFails, uploading, Goto, Typed, Place
<1>2. Counted'
  BY DEF DownloadFails, uploading, IInv, Counted, GoodUpTo
<1>3. UploadAnswered'
  BY DEF DownloadFails, uploading, IInv, UploadAnswered
<1>4. Ordered'
  BY DEF DownloadFails, uploading, Goto, IInv, Ordered
<1>5. Covered'
  BY DEF DownloadFails, Covered
<1> QED BY <1>1, <1>2, <1>3, <1>4, <1>5 DEF IInv

-----------------------------------------------------------------------------
(* The theorems.                                                           *)

\* A step keeps the invariant.
LEMMA NextKeeps ==
  ASSUME IInv, [Next]_vars
  PROVE  IInv'
<1>1. CASE Upload
  BY <1>1, CreateFileKeeps, CsvRowKeeps, CopyBodyKeeps, UploadDoneKeeps,
       UploadFailsKeeps, PrimaryMovesKeeps DEF Upload
<1>2. ASSUME NEW h \in Handler, Download(h) PROVE IInv'
  BY <1>2, ExistsKeeps, CreateKeeps, CreateFailsKeeps, RequestKeeps,
       ChunkKeeps, DownloadDoneKeeps, DownloadFailsKeeps DEF Download
<1>3. CASE UNCHANGED vars
  <2>1. Typed' /\ Counted' /\ UploadAnswered'
    BY <1>3 DEF vars, IInv, Typed, Counted, GoodUpTo, UploadAnswered
  <2>2. Ordered' /\ Covered'
    BY <1>3 DEF vars, IInv, Ordered, Covered
  <2> QED BY <2>1, <2>2 DEF IInv
<1> QED BY <1>1, <1>2, <1>3 DEF Next

\* IInv is an invariant.
LEMMA Invariance == Spec => []IInv
<1>1. IInv /\ [Next]_vars => IInv'
  BY NextKeeps
<1> QED BY <1>1, Starts, PTL DEF Spec

\* The count the client is told is that of the rows that were stored, for every
\* upload and wherever it fails.
THEOREM UploadAnsweredAlways == Spec => []UploadAnswered
<1>1. IInv => UploadAnswered
  BY DEF IInv
<1> QED BY <1>1, Invariance, PTL

\* However many handlers look for the file, truncate it and write to it, the
\* file is whole when they are done, unless a download failed.
THEOREM CopyWholeAlways == Spec => []CopyWhole
<1>1. IInv => CopyWhole
  BY DEF IInv, Ordered, Covered, CopyWhole, Complete
<1> QED BY <1>1, Invariance, PTL

\* A whole file that nobody writes is not written again.
THEOREM WholeKeptAlways == Spec => WholeKept
<1>1. ASSUME IInv, [Next]_vars
      PROVE  [ /\ copy # Absent /\ Complete
               /\ \A h \in Handler : pc[h] \in {"new", "ready", "failed"}
               => /\ copy' = copy
                  /\ \A h \in Handler : pc'[h] \in {"new", "ready", "failed"}
             ]_vars
  <2> DEFINE Quiet == \A h \in Handler : pc[h] \in {"new", "ready", "failed"}
  <2> SUFFICES ASSUME copy # Absent, Quiet, Next PROVE copy' = copy /\ Quiet'
    BY <1>1
  <2>1. CASE Upload
    BY <2>1 DEF Upload, CreateFile, CsvRow, CopyBody, UploadDone, UploadFails,
         PrimaryMoves, downloading
  <2>2. ASSUME NEW h \in Handler, Download(h) PROVE copy' = copy /\ Quiet'
    BY <1>1, <2>2 DEF Download, Exists, Create, CreateFails, Request, Chunk,
         DownloadDone, DownloadFails, Goto, IInv, Typed
  <2> QED BY <2>1, <2>2 DEF Next
<1> QED BY <1>1, Invariance, PTL DEF Spec, WholeKept
=============================================================================
