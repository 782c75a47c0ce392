--------------------------- MODULE UploadContract ---------------------------
(***************************************************************************)
(* What an upload promises its client and the worker, without channels,    *)
(* goroutines, contexts or retries: the chunks of the body are taken and   *)
(* written to the stream; none is given up unless an error will be         *)
(* answered; and with the answer the upload is over.                       *)
(***************************************************************************)
EXTENDS FiniteSets

CONSTANT Chunk

VARIABLES
    way,         \* the chunks that were taken and that somebody will still write
    out,         \* the chunks in the stream
    doomed,      \* an error has occurred
    answer       \* "none", "created" or "failed"

contractVars == <<way, out, doomed, answer>>

ContractInit == way = {} /\ out = {} /\ doomed = FALSE /\ answer = "none"

\* The next chunk of the body.
Take(c) ==
    /\ c \notin way \cup out
    /\ way' = way \cup {c}
    /\ UNCHANGED out

\* A write reaches the stream.  It may have to be repeated all the same.
Put(S) ==
    /\ out' = out \cup S
    /\ way' \in {way, way \ S}

Drop(S) == way' = way \ S /\ UNCHANGED out

\* Taking and writing may break the upload, and dropping a chunk does.
Work ==
    /\ answer = "none" /\ UNCHANGED answer
    /\ \/ /\ doomed' \in {doomed, TRUE}
          /\ (\E c \in Chunk : Take(c)) \/ \E S \in SUBSET way : Put(S)
       \/ doomed' = TRUE /\ \E S \in SUBSET way : Drop(S)

\* The client is told of an error if and only if there was one, and of a
\* success only when nothing is left to write.
Reply ==
    /\ answer = "none"
    /\ doomed \/ way = {}
    /\ answer' = IF doomed THEN "failed" ELSE "created"
    /\ UNCHANGED <<way, out, doomed>>

ContractSpec == ContractInit /\ [][Work \/ Reply]_contractVars
=============================================================================
