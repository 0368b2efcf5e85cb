------------------------------ MODULE GzipPool ------------------------------
(***************************************************************************)
(* The Gzip middleware (internal/handlers/gzip.go): requests that run at   *)
(* the same time compress their responses with writers taken from one      *)
(* sync.Pool.  A writer keeps a destination, data not written out yet and  *)
(* an error from one use to the next, so everything rests on the order     *)
(* Get, Reset, Write, Close, Put.  gzip.Writer and sync.Pool belong to the *)
(* standard library and are external.                                      *)
(***************************************************************************)
EXTENDS Integers, Sequences

CONSTANTS
  Request,    \* requests
  Writer,     \* gzip writers; a name may be used again once it is garbage
  NoWriter,   \* a request that has no writer
  NoRequest,  \* io.Discard, the destination of a new writer
  MaxChunks   \* bound on the calls of Write by a handler

ASSUME NamesAssumption == NoWriter \notin Writer /\ NoRequest \notin Request
ASSUME ChunksAssumption == MaxChunks \in Nat

VARIABLES
  phase,     \* where each request is
  held,      \* gz: the writer of each request
  pool,      \* gzipPool
  writer,    \* the state of each gzip.Writer
  written,   \* what the handler of each request has written
  response,  \* what has been written to each http.ResponseWriter
  broken     \* requests whose client has gone

vars == <<phase, held, pool, writer, written, response, broken>>

Chunk == Request \X (Nat \ {0})

\* gzip.Writer: w, the compressor's data, wroteHeader, closed, err.
WriterState ==
  [dest : Request \union {NoRequest}, buffer : Seq(Chunk), begun : BOOLEAN,
   closed : BOOLEAN, failed : BOOLEAN]

\* A body: gzip headers, the data that decodes, gzip trailers.
Body == [heads : Nat, data : Seq(Chunk), tails : Nat]

NewWriter == [dest |-> NoRequest, buffer |-> << >>, begun |-> FALSE,
              closed |-> FALSE, failed |-> FALSE]

EmptyBody == [heads |-> 0, data |-> << >>, tails |-> 0]

TypeOK ==
  /\ phase \in [Request -> {"new", "handling", "closing", "putting", "done"}]
  /\ held \in [Request -> Writer \union {NoWriter}]
  /\ pool \subseteq Writer
  /\ writer \in [Writer -> WriterState]
  /\ written \in [Request -> Seq(Chunk)]
  /\ response \in [Request -> Body]
  /\ broken \subseteq Request

Init ==
  /\ phase = [r \in Request |-> "new"]
  /\ held = [r \in Request |-> NoWriter]
  /\ pool = {}
  /\ writer = [w \in Writer |-> NewWriter]
  /\ written = [r \in Request |-> << >>]
  /\ response = [r \in Request |-> EmptyBody]
  /\ broken = {}

-----------------------------------------------------------------------------
(* gzip.Writer.                                                            *)

\* Variant: the writer is used as it comes out of the pool.
Reset_Not(w, r) == writer' = writer

Reset(w, r) == writer' = [writer EXCEPT ![w] = [NewWriter EXCEPT !.dest = r]]

\* Bytes go to the destination: the header before anything else, then data,
\* then tails trailers.  A destination whose client has gone is an error.
Output(w, data, tails) ==
  LET d == writer[w].dest
      head == IF writer[w].begun THEN 0 ELSE 1
  IN response' = IF d \in Request \ broken
                   THEN [response EXCEPT
                           ![d] = [heads |-> @.heads + head,
                                   data |-> @.data \o data,
                                   tails |-> @.tails + tails]]
                   ELSE response

\* The compressor keeps the data or writes out all it has.  A writer that has
\* failed or is closed takes nothing any more.
WriteChunk(w, c) ==
  IF writer[w].failed \/ writer[w].closed
    THEN writer' = [writer EXCEPT ![w].failed = TRUE] /\ UNCHANGED response
    ELSE \E spill \in BOOLEAN :
           LET all == Append(writer[w].buffer, c)
           IN /\ Output(w, IF spill THEN all ELSE << >>, 0)
              /\ writer' = [writer EXCEPT
                              ![w].buffer = IF spill THEN << >> ELSE all,
                              ![w].begun = TRUE,
                              ![w].failed = writer[w].dest \in broken]

\* Close writes the rest and the trailer, once.
CloseWriter(w) ==
  IF writer[w].failed \/ writer[w].closed
    THEN UNCHANGED <<writer, response>>
    ELSE /\ Output(w, writer[w].buffer, 1)
         /\ writer' = [writer EXCEPT
                         ![w].buffer = << >>, ![w].begun = TRUE,
                         ![w].closed = TRUE,
                         ![w].failed = writer[w].dest \in broken]

-----------------------------------------------------------------------------
(* The middleware.                                                         *)

\* The client accepts no gzip: the handler writes to the response itself.
EnterPlain(r) ==
  /\ phase[r] = "new"
  /\ phase' = [phase EXCEPT ![r] = "handling"]
  /\ UNCHANGED <<held, pool, writer, written, response, broken>>

\* Neither in the pool nor in use: New may allocate it.
Unused == Writer \ (pool \union {held[r] : r \in Request})

\* Get, which may find nothing in the pool of its processor, and Reset.
EnterGzip(r, w) ==
  /\ phase[r] = "new"
  /\ w \in pool \union Unused
  /\ held' = [held EXCEPT ![r] = w]
  /\ pool' = pool \ {w}
  /\ Reset(w, r)
  /\ phase' = [phase EXCEPT ![r] = "handling"]
  /\ UNCHANGED <<written, response, broken>>

\* gzipResponseWriter.Write, or the Write of the response itself.
Write(r) ==
  /\ phase[r] = "handling"
  /\ Len(written[r]) < MaxChunks
  /\ LET c == <<r, Len(written[r]) + 1>>
     IN /\ written' = [written EXCEPT ![r] = Append(@, c)]
        /\ IF held[r] # NoWriter
             THEN WriteChunk(held[r], c)
             ELSE /\ response' = IF r \in broken
                                   THEN response
                                   ELSE [response EXCEPT
                                           ![r].data = Append(@, c)]
                  /\ UNCHANGED writer
  /\ UNCHANGED <<phase, held, pool, broken>>

\* Variants: Close is forgotten, and Put comes before Close.
HandlerEnds_NoClose(r) ==
  /\ phase[r] = "handling"
  /\ phase' = [phase EXCEPT ![r] = IF held[r] = NoWriter THEN "done"
                                                         ELSE "putting"]
  /\ UNCHANGED <<held, pool, writer, written, response, broken>>

HandlerEnds_PutFirst(r) ==
  /\ phase[r] = "handling"
  /\ phase' = [phase EXCEPT ![r] = IF held[r] = NoWriter THEN "done"
                                                         ELSE "closing"]
  /\ pool' = pool \union ({held[r]} \ {NoWriter})
  /\ UNCHANGED <<held, writer, written, response, broken>>

\* The handler returns or panics; the deferred call runs in either case.
HandlerEnds(r) ==
  /\ phase[r] = "handling"
  /\ phase' = [phase EXCEPT ![r] = IF held[r] = NoWriter THEN "done"
                                                         ELSE "closing"]
  /\ UNCHANGED <<held, pool, writer, written, response, broken>>

\* The deferred call: Close, whose error is logged and no more, ...
Close(r) ==
  /\ phase[r] = "closing"
  /\ CloseWriter(held[r])
  /\ phase' = [phase EXCEPT ![r] = "putting"]
  /\ UNCHANGED <<held, pool, written, broken>>

\* Variant: the request forgets its writer before it puts it back.
Put_Nil(r) ==
  /\ phase[r] = "putting"
  /\ held' = [held EXCEPT ![r] = NoWriter]
  /\ pool' = pool \union {held'[r]}
  /\ phase' = [phase EXCEPT ![r] = "done"]
  /\ UNCHANGED <<writer, written, response, broken>>

\* ... and Put.
Put(r) ==
  /\ phase[r] = "putting"
  /\ pool' = pool \union {held[r]}
  /\ held' = [held EXCEPT ![r] = NoWriter]
  /\ phase' = [phase EXCEPT ![r] = "done"]
  /\ UNCHANGED <<writer, written, response, broken>>

\* The client of a request goes away.
Break(r) ==
  /\ phase[r] \notin {"new", "done"}
  /\ broken' = broken \union {r}
  /\ UNCHANGED <<phase, held, pool, writer, written, response>>

\* The garbage collector empties the pool.
Drop(w) ==
  /\ w \in pool
  /\ pool' = pool \ {w}
  /\ UNCHANGED <<phase, held, writer, written, response, broken>>

Finished == (\A r \in Request : phase[r] = "done") /\ UNCHANGED vars

Next == \/ \E r \in Request :
             \/ EnterPlain(r)
             \/ \E w \in Writer : EnterGzip(r, w)
             \/ Write(r) \/ HandlerEnds(r) \/ Close(r) \/ Put(r) \/ Break(r)
        \/ \E w \in Writer : Drop(w)
        \/ Finished

Spec == Init /\ [][Next]_vars

-----------------------------------------------------------------------------
(* Properties.                                                             *)

InUse(r) == held[r] # NoWriter

\* A writer serves one request at a time: no two requests hold the same one,
\* and none that a request still has to write to or close is in the pool.
WriterIsExclusive ==
  \A r \in Request : InUse(r) =>
    /\ held[r] \notin pool
    /\ \A q \in Request \ {r} : held[q] # held[r]

\* When a response is over and its client is there, its body is one gzip
\* stream: one header, everything the handler wrote, one trailer.  (The body
\* of a client that accepts no gzip has neither header nor trailer.)  It does
\* not matter what other requests did with the writer before or meanwhile,
\* that a writer whose Close failed was put back, or that the handler
\* panicked before it wrote anything.
StreamIsWhole ==
  \A r \in Request : phase[r] \in {"putting", "done"} /\ r \notin broken =>
    /\ response[r].data = written[r]
    /\ response[r].heads = response[r].tails
    /\ response[r].heads \in {0, 1}
    /\ phase[r] = "putting" => response[r].heads = 1

\* The pool is invisible: every response is a stream of its own.
Streams == INSTANCE ResponseStreams
             WITH delivered <- [r \in Request |-> response[r].data],
                  lost <- broken,
                  over <- {r \in Request : phase[r] \in {"putting", "done"}}

ImplementsStreams == Streams!Spec

=============================================================================
