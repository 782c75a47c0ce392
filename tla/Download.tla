------------------------------ MODULE Download ------------------------------
(***************************************************************************)
(* A download: the handler Download (internal/handler/http/v1/decipher.go) *)
(* and Decipher.StreamFile (internal/service/decipher_file.go), while the  *)
(* worker fills the tables and rotations change them.                      *)
(*                                                                         *)
(* A download only reads, and one of them says what all do.  Every query   *)
(* is a step of its own.  The repetitions of retryDo leave no trace: an    *)
(* error here is one that they did not get over.                           *)
(***************************************************************************)
EXTENDS Rotation, Sequences

CONSTANT DownloadPage    \* DECIPHER_PAGE_SIZE

ASSUME DownloadPageAssumption == DownloadPage \in Nat \ {0}

VARIABLES
    step,        \* what StreamFile does next
    after,       \* its cursor: the last chunk of the page before
    ids,         \* the chunks of this page that are not written yet
    data,        \* chunkByUUID: the data read for them
    keys,        \* keyByUUID: the keys read for them
    body,        \* the chunks written to the client, in this order
    answer,      \* "none", "200", "404", "500"; "cut": the connection is
                 \* closed in the middle of a 200
    \* History:
    stored,      \* the chunks that had data when the download began
    settled,     \* those whose latest data and key were one item then
    touched,     \* those from which a row was deleted since
    culprit      \* the chunk at which StreamFile returned an error of its own

localVars == <<step, after, ids, data, keys>>
historyVars == <<stored, settled, touched, culprit>>
downloadVars == <<localVars, body, answer, historyVars>>
allVars == <<vars, downloadVars>>

DownloadInit ==
    /\ Init
    /\ step = "off"
    /\ after = Nil
    /\ ids = {}
    /\ data = {}
    /\ keys = {}
    /\ body = << >>
    /\ answer = "none"
    /\ stored = {}
    /\ settled = {}
    /\ touched = {}
    /\ culprit = Nil

Reading == step \notin {"off", "end"}

-----------------------------------------------------------------------------
\* The versions that a map has for chunk c: an absent row counts as 0.
RowOf(S, c) == {r \in S : r.uuid = c}

Version(S, c) == IF RowOf(S, c) = {} THEN 0 ELSE (CHOOSE r \in RowOf(S, c) : TRUE).version

\* GetDataByVersion, GetKeyByVersion: the row, if it is there.
ByVersion(t, c, v) == {r \in rows[t] : r.uuid = c /\ r.version = v}

\* The next chunk of the page.
FirstOf(S) == CHOOSE u \in S : \A v \in S : u <= v

Agree(c) == Version(data, c) = Version(keys, c)

\* decryptChunk: both rows are there, of one version, and AES-GCM accepts.
Decryptable(c) ==
    \E d \in RowOf(data, c), k \in RowOf(keys, c) :
        d.version = k.version /\ Decrypts(<<d, k>>)

-----------------------------------------------------------------------------
\* StreamFile returns, and the handler ends the response.
Answer(a) ==
    /\ answer' = a
    /\ step' = "end"
    /\ after' = Nil
    /\ ids' = {}
    /\ data' = {}
    /\ keys' = {}

\* Mutant: the handler returns and leaves the rest to net/http, which ends the
\* body as if it were complete.
AnswerErrorPlain == Answer(IF body = << >> THEN "500" ELSE "200")

\* The handler can still say 500 only if nothing was written.  Later it hijacks
\* the connection and closes it, which this HTTP/1.1 server always lets it do;
\* where it cannot, the handler just returns, as the mutant does.
AnswerError == Answer(IF body = << >> THEN "500" ELSE "cut")

Get ==
    /\ step = "off"
    /\ step' = "ids"
    /\ stored' = {r.uuid : r \in rows["data"]}
    /\ settled' = {c \in Chunk : Latest("data", {c}) # {} /\ Latest("data", {c}) = Latest("keys", {c})}
    /\ UNCHANGED <<vars, after, ids, data, keys, body, answer, touched, culprit>>

\* GetChunkUUIDsByFileID; an empty page is the end of the file.
ReadIds ==
    /\ step = "ids"
    /\ IF ChunkUUIDs(after, DownloadPage) = {}
       THEN Answer(IF body = << >> THEN "404" ELSE "200")
       ELSE /\ ids' = ChunkUUIDs(after, DownloadPage)
            /\ step' = "data"
            /\ UNCHANGED <<after, data, keys, answer>>
    /\ UNCHANGED <<vars, body, historyVars>>

\* streamPage: GetLatestData.
ReadLatestData ==
    /\ step = "data"
    /\ data' = Latest("data", ids)
    /\ step' = "keys"
    /\ UNCHANGED <<vars, after, ids, keys, body, answer, historyVars>>

\* Mutant: the keys of the whole file.
ReadAllKeys ==
    /\ step = "keys"
    /\ keys' = Latest("keys", Chunk)
    /\ step' = "chunk"
    /\ UNCHANGED <<vars, after, ids, data, body, answer, historyVars>>

\* streamPage: GetLatestKeys.
ReadLatestKeys ==
    /\ step = "keys"
    /\ keys' = Latest("keys", ids)
    /\ step' = "chunk"
    /\ UNCHANGED <<vars, after, ids, data, body, answer, historyVars>>

\* Mutant: the page is read again, in the hope that c has changed.
ReadPageAgain(c) ==
    /\ step' = "ids"
    /\ ids' = {}
    /\ data' = {}
    /\ keys' = {}
    /\ UNCHANGED <<after, answer, culprit>>

\* The rows of chunk c do not make a chunk: StreamFile returns an error.
BadChunk(c) == AnswerError /\ culprit' = c

\* The two rows of c have the same version, or there are none.
WriteChunk(c) ==
    /\ step = "chunk" /\ c = FirstOf(ids) /\ Agree(c)
    /\ IF Decryptable(c)
       THEN /\ body' = Append(body, c)
            /\ ids' = ids \ {c}
            /\ data' = data \ RowOf(data, c)
            /\ keys' = keys \ RowOf(keys, c)
            /\ after' = IF ids' = {} THEN c ELSE after
            /\ step' = IF ids' = {} THEN "ids" ELSE "chunk"
            /\ UNCHANGED <<answer, culprit>>
       ELSE BadChunk(c) /\ UNCHANGED body
    /\ UNCHANGED <<vars, stored, settled, touched>>

\* Mutant: the greater version, of which one row is missing.
OldVersionMax(c) ==
    IF Version(data, c) > Version(keys, c) THEN Version(data, c) ELSE Version(keys, c)

OldVersion(c) ==
    IF Version(data, c) < Version(keys, c) THEN Version(data, c) ELSE Version(keys, c)

\* getConsistentVersion: GetDataByVersion of the version that both may have.
ReadOldData(c) ==
    LET row == ByVersion("data", c, OldVersion(c)) IN
    /\ step = "chunk" /\ c = FirstOf(ids) /\ ~Agree(c)
    /\ IF row = {}
       THEN BadChunk(c)
       ELSE /\ data' = (data \ RowOf(data, c)) \cup row
            /\ step' = "oldkey"
            /\ UNCHANGED <<after, ids, keys, answer, culprit>>
    /\ UNCHANGED <<vars, body, stored, settled, touched>>

\* getConsistentVersion: GetKeyByVersion.
ReadOldKey(c) ==
    LET row == ByVersion("keys", c, Version(data, c)) IN
    /\ step = "oldkey" /\ c = FirstOf(ids)
    /\ IF row = {}
       THEN BadChunk(c)
       ELSE /\ keys' = (keys \ RowOf(keys, c)) \cup row
            /\ step' = "chunk"
            /\ UNCHANGED <<after, ids, data, answer, culprit>>
    /\ UNCHANGED <<vars, body, stored, settled, touched>>

\* A query fails for good, or the client hangs up.  Write notes the first byte
\* before it writes, so that an error in it is never a 500.
DownloadAbort ==
    /\ Reading
    /\ AnswerError \/ (step = "chunk" /\ Answer("cut"))
    /\ UNCHANGED <<vars, body, historyVars>>

-----------------------------------------------------------------------------
\* The worker and the rotations go on; what they delete is noted.  After the
\* answer they are left alone: it cannot change any more, and all they can do
\* by themselves is there before Get.
Rest ==
    /\ step # "end"
    /\ Next
    /\ touched' = IF Reading
                  THEN touched \cup {r.uuid : r \in UNION {rows[t] \ rows'[t] : t \in Table}}
                  ELSE touched
    /\ UNCHANGED <<localVars, body, answer, stored, settled, culprit>>

StreamFile ==
    \/ ReadIds \/ ReadLatestData \/ ReadLatestKeys
    \/ \E c \in ids : WriteChunk(c) \/ ReadOldData(c) \/ ReadOldKey(c)

DownloadNext == Rest \/ Get \/ StreamFile \/ DownloadAbort

DownloadSpec == DownloadInit /\ [][DownloadNext]_allVars

\* The server runs the goroutine of a request, and a query is answered or
\* fails in the end.
DownloadFairSpec == DownloadSpec /\ WF_allVars(StreamFile)

-----------------------------------------------------------------------------
\* The types; and the maps of a page have rows for what is left of it only.
DownloadTypeOK ==
    /\ step \in {"off", "ids", "data", "keys", "chunk", "oldkey", "end"}
    /\ after \in Chunk \cup {Nil}
    /\ ids \subseteq Chunk
    /\ data \subseteq FlushItem /\ keys \subseteq FlushItem
    /\ \A r \in data \cup keys : r.uuid \in ids
    /\ body \in Seq(Chunk)
    /\ answer \in {"none", "200", "404", "500", "cut"}
    /\ stored \subseteq Chunk /\ settled \subseteq Chunk /\ touched \subseteq Chunk
    /\ culprit \in Chunk \cup {Nil}

Written == {body[i] : i \in DOMAIN body}

\* A response that looks complete has every chunk that was stored when the
\* download began, once and in the order of the file, whatever the worker and
\* rotations do meanwhile; and 404 is not said of a file with a stored chunk.
CompleteBody ==
    answer \in {"200", "404"} =>
        /\ stored \subseteq Written
        /\ \A i, j \in DOMAIN body : i < j => body[i] < body[j]

\* A chunk that was settled when the download began fails it only because a
\* rotation deleted a row of the chunk under its hands, or because two
\* rotations had made the same version of it: the rows that the worker adds in
\* the meantime, to either table first, are no obstacle.
FailsForAReason ==
    culprit \in settled => culprit \in touched \/ Conflict(culprit)

\* "Decrypts and returns the original file" (README.md:27): a response that
\* looks complete is the whole file.
WholeFile == answer = "200" => Written = Chunk

\* The client gets an answer: no chunk is tried for ever.
Answers == step # "off" ~> step = "end"
=============================================================================
