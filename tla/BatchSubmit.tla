----------------------------- MODULE BatchSubmit ------------------------------
(***************************************************************************)
(* One call of AsyncJob.submitBatch (bb-async-job/src/index.aws.ts): the  *)
(* payloads are cut into requests (chunkBatch), a few workers send them   *)
(* (sendChunksBounded), and the outcome of every payload is collected,    *)
(* returned or thrown, and recorded as `queued`.                          *)
(*                                                                         *)
(* A payload is its position and the size of its body.  SQS is external:  *)
(* it accepts, rejects or forgets to mention each entry of a request, and *)
(* a request that rejects may still have been carried out.                *)
(***************************************************************************)
EXTENDS Naturals, Sequences, FiniteSets

CONSTANTS
    Sizes,                  \* the sizes a body may have
    MaxPayloads,            \* bound: payloads the caller tries to submit
    MAX_BATCH_PAYLOADS,     \* payloads accepted per call
    MAX_BATCH_SIZE,         \* entries per request
    MAX_PAYLOAD_BYTES,      \* bytes per body, and per request
    MAX_BATCH_CONCURRENCY,  \* requests in flight
    STATUS_WRITE_GROUP,     \* status writes in flight
    LostReplies             \* TRUE: a rejected send may have been carried out

ASSUME BatchAssumption ==
    /\ Sizes \subseteq Nat \ {0}
    /\ {MaxPayloads, MAX_BATCH_PAYLOADS} \subseteq Nat
    /\ {MAX_BATCH_SIZE, MAX_PAYLOAD_BYTES, MAX_BATCH_CONCURRENCY, STATUS_WRITE_GROUP}
          \subseteq Nat \ {0}
    /\ LostReplies \in BOOLEAN

VARIABLES
    bodies,     \* the size of each body
    chunks,     \* the requests: sequences of positions
    next,       \* the next request to take
    aborted,    \* a request has failed as a whole
    sending,    \* the request each worker is waiting for, 0 when it is free
    ended,      \* the workers that found nothing left
    jobIds,     \* positions that have a message id
    failed,     \* how many entries of `failed` each position has
    onQueue,    \* how often each body was put on the queue
    recorded,   \* positions whose `queued` was written
    status      \* where the call is

batchVars == <<bodies, chunks, next, aborted, sending, ended, jobIds, failed, onQueue,
               recorded, status>>

Worker == 1..MAX_BATCH_CONCURRENCY
Index == DOMAIN bodies
Settled == {"rejected", "returned", "threw"}

-------------------------------------------------------------------------------
(* chunkBatch.                                                             *)

Empty == [chunks |-> << >>, current |-> << >>, bytes |-> 0]

\* Faulty: the bytes are not reset with the chunk.
AddKeepsBytes(acc, i, bytes) ==
    IF Len(acc.current) > 0
       /\ (Len(acc.current) >= MAX_BATCH_SIZE \/ acc.bytes + bytes > MAX_PAYLOAD_BYTES)
    THEN [chunks |-> Append(acc.chunks, acc.current), current |-> <<i>>,
          bytes |-> acc.bytes + bytes]
    ELSE [acc EXCEPT !.current = Append(@, i), !.bytes = @ + bytes]

\* One turn of the loop: position i joins the running chunk or starts the next.
Add(acc, i, bytes) ==
    IF Len(acc.current) > 0
       /\ (Len(acc.current) >= MAX_BATCH_SIZE \/ acc.bytes + bytes > MAX_PAYLOAD_BYTES)
    THEN [chunks |-> Append(acc.chunks, acc.current), current |-> <<i>>, bytes |-> bytes]
    ELSE [acc EXCEPT !.current = Append(@, i), !.bytes = @ + bytes]

\* The loop's state behind each position.
Running(sizes) ==
    LET upTo[i \in 0..Len(sizes)] == IF i = 0 THEN Empty ELSE Add(upTo[i - 1], i, sizes[i])
    IN  upTo

chunkBatch(sizes) ==
    LET last == Running(sizes)[Len(sizes)]
    IN  IF Len(last.current) > 0 THEN Append(last.chunks, last.current) ELSE last.chunks

-------------------------------------------------------------------------------
(* submitBatch.                                                            *)

\* The limits and every body are checked before anything is sent.
Submit(sizes) ==
    /\ status = "called"
    /\ bodies' = sizes
    /\ IF \/ Len(sizes) = 0
          \/ Len(sizes) > MAX_BATCH_PAYLOADS
          \/ \E i \in DOMAIN sizes : sizes[i] > MAX_PAYLOAD_BYTES
       THEN status' = "rejected" /\ UNCHANGED <<chunks, failed, onQueue>>
       ELSE /\ status' = "sending"
            /\ chunks' = chunkBatch(sizes)
            /\ failed' = [i \in DOMAIN sizes |-> 0]
            /\ onQueue' = [i \in DOMAIN sizes |-> 0]
    /\ UNCHANGED <<next, aborted, sending, ended, jobIds, recorded>>

\* Promise.all waits for min(MAX_BATCH_CONCURRENCY, chunks.length) workers.
Started(w) == status = "sending" /\ w <= Len(chunks)

Free(w) == Started(w) /\ sending[w] = 0 /\ w \notin ended

InChunk(k) == {chunks[k][j] : j \in DOMAIN chunks[k]}

\* A worker takes the next request and sends it.
Take(w) ==
    /\ Free(w)
    /\ next <= Len(chunks)
    /\ ~aborted
    /\ sending' = [sending EXCEPT ![w] = next]
    /\ next' = next + 1
    /\ UNCHANGED <<bodies, chunks, aborted, ended, jobIds, failed, onQueue, recorded, status>>

\* After an abort it is failed without being sent.
Skip(w) ==
    /\ Free(w)
    /\ next <= Len(chunks)
    /\ aborted
    /\ failed' = [i \in Index |-> IF i \in InChunk(next) THEN failed[i] + 1 ELSE failed[i]]
    /\ next' = next + 1
    /\ UNCHANGED <<bodies, chunks, sending, aborted, ended, jobIds, onQueue, recorded, status>>

StopWorker(w) ==
    /\ Free(w)
    /\ next > Len(chunks)
    /\ ended' = ended \cup {w}
    /\ UNCHANGED <<bodies, chunks, next, aborted, sending, jobIds, failed, onQueue, recorded, status>>

\* SQS answers: `ok` in Successful, `bad` in Failed, the rest in neither, though
\* some of those, `unsaid`, may be on the queue.
Answer(w, ok, bad, unsaid) ==
    /\ sending[w] # 0
    /\ sending' = [sending EXCEPT ![w] = 0]
    /\ jobIds' = jobIds \cup ok
    /\ failed' = [i \in Index |-> IF i \in bad THEN failed[i] + 1 ELSE failed[i]]
    /\ onQueue' = [i \in Index |-> IF i \in ok \cup unsaid THEN onQueue[i] + 1 ELSE onQueue[i]]
    /\ UNCHANGED <<bodies, chunks, next, aborted, ended, recorded, status>>

\* The send rejects: throttled, cut off, or its reply lost.
SendFails(w, carriedOut) ==
    /\ sending[w] # 0
    /\ sending' = [sending EXCEPT ![w] = 0]
    /\ aborted' = TRUE
    /\ failed' = [i \in Index |-> IF i \in InChunk(sending[w]) THEN failed[i] + 1 ELSE failed[i]]
    /\ carriedOut => LostReplies
    /\ onQueue' = [i \in Index |->
                      IF carriedOut /\ i \in InChunk(sending[w]) THEN onQueue[i] + 1 ELSE onQueue[i]]
    /\ UNCHANGED <<bodies, chunks, next, ended, jobIds, recorded, status>>

AllEnded == \A w \in Worker : Started(w) => w \in ended

Missing == {i \in Index : i \notin jobIds /\ failed[i] = 0}

\* Faulty: positions nobody mentioned are left out.
CollectTrusting ==
    /\ status = "sending"
    /\ AllEnded
    /\ status' = IF \E i \in Index : failed[i] > 0 THEN "threw" ELSE "recording"
    /\ UNCHANGED <<bodies, chunks, next, aborted, sending, ended, jobIds, failed, onQueue, recorded>>

\* Positions in neither list are failed; any failure is thrown, and then no
\* status is written.
Collect ==
    /\ status = "sending"
    /\ AllEnded
    /\ failed' = [i \in Index |-> IF i \in Missing THEN 1 ELSE failed[i]]
    /\ status' = IF \E i \in Index : failed'[i] > 0 THEN "threw" ELSE "recording"
    /\ UNCHANGED <<bodies, chunks, next, aborted, sending, ended, jobIds, onQueue, recorded>>

\* recordQueuedBatch: groups in order; the writes W of a group succeed, and a
\* group with a failed write is the last.
Record(W) ==
    LET group == {i \in Index \ recorded :
                     Cardinality({j \in Index \ recorded : j < i}) < STATUS_WRITE_GROUP}
    IN  /\ status = "recording"
        /\ W \subseteq group
        /\ recorded' = recorded \cup W
        /\ status' = IF W # group \/ recorded' = Index THEN "returned" ELSE "recording"
        /\ UNCHANGED <<bodies, chunks, next, aborted, sending, ended, jobIds, failed, onQueue>>

-------------------------------------------------------------------------------
BatchInit ==
    /\ bodies = << >>
    /\ chunks = << >>
    /\ next = 1
    /\ aborted = FALSE
    /\ sending = [w \in Worker |-> 0]
    /\ ended = {}
    /\ jobIds = {}
    /\ failed = << >>
    /\ onQueue = << >>
    /\ recorded = {}
    /\ status = "called"

SomeAnswer(w) ==
    \E ok, bad, unsaid \in SUBSET (IF sending[w] = 0 THEN {} ELSE InChunk(sending[w])) :
        /\ ok \cap bad = {}
        /\ unsaid \cap (ok \cup bad) = {}
        /\ Answer(w, ok, bad, unsaid)

WorkerStep(w) ==
    \/ Take(w) \/ Skip(w) \/ StopWorker(w)
    \/ SomeAnswer(w)
    \/ \E carriedOut \in BOOLEAN : SendFails(w, carriedOut)

CallStep ==
    \/ \E n \in 0..MaxPayloads : \E sizes \in [1..n -> Sizes] : Submit(sizes)
    \/ Collect
    \/ \E W \in SUBSET Index : Record(W)

BatchNext == CallStep \/ \E w \in Worker : WorkerStep(w)

BatchSpec == BatchInit /\ [][BatchNext]_batchVars

-------------------------------------------------------------------------------
(* Properties.                                                             *)

BatchTypeOK ==
    /\ next \in 1..(Len(chunks) + 1)
    /\ aborted \in BOOLEAN
    /\ sending \in [Worker -> 0..Len(chunks)]
    /\ ended \subseteq Worker
    /\ jobIds \cup recorded \subseteq Index
    /\ status \in {"called", "sending", "recording"} \cup Settled
    /\ status \notin {"called", "rejected"} =>
          failed \in [Index -> Nat] /\ onQueue \in [Index -> Nat]

\* The bytes up to each position, and from position a to position b.
BytesUpTo(sizes) ==
    LET sum[i \in 0..Len(sizes)] == IF i = 0 THEN 0 ELSE sum[i - 1] + sizes[i]
    IN  sum

Bytes(sizes, a, b) == BytesUpTo(sizes)[b] - BytesUpTo(sizes)[a - 1]

\* Cut before each position of `cuts`, no stretch of `sizes` exceeds a limit.
Fits(sizes, cuts) ==
    \A b \in DOMAIN sizes : \A a \in 1..b :
        cuts \cap ((a + 1)..b) = {} =>
            b - a < MAX_BATCH_SIZE /\ Bytes(sizes, a, b) <= MAX_PAYLOAD_BYTES

\* The requests hold the payloads in order, within SQS's limits, and in as few
\* requests as any such division (index.aws.ts chunkBatch): a lost reset or an
\* off-by-one shows at the limits only.
ChunksOptimal ==
    chunks # << >> =>
        LET cuts == {chunks[k][1] : k \in 2..Len(chunks)}
        IN  /\ \A k \in DOMAIN chunks : chunks[k] # << >>
            /\ \A k \in DOMAIN chunks : \A j \in DOMAIN chunks[k] :
                  chunks[k][j] = chunks[k][1] + (j - 1)
            /\ \A k, l \in DOMAIN chunks : k < l =>
                  chunks[k][1] + Len(chunks[k]) <= chunks[l][1]
            /\ UNION {InChunk(k) : k \in DOMAIN chunks} = Index
            /\ Fits(bodies, cuts)
            /\ \A other \in SUBSET (Index \ {1}) :
                  Fits(bodies, other) => Cardinality(other) >= Cardinality(cuts)

\* However requests fail, overlap or are skipped, the caller gets exactly one
\* outcome per payload: an id, or one entry of `failed` (index.aws.ts: "a complete
\* jobIds / failed picture").
OneOutcomeEach ==
    status \in {"recording", "returned", "threw"} =>
        \A i \in Index : IF i \in jobIds THEN failed[i] = 0 ELSE failed[i] = 1

================================================================================
