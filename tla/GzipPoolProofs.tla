--------------------------- MODULE GzipPoolProofs ---------------------------
(***************************************************************************)
(* Proofs about GzipPool for any number of requests and writers, and any   *)
(* number of writes by a handler.  The invariant says of each request what *)
(* its writer still owes to its response; it is about one request alone,   *)
(* and a step of another request keeps it because writers are exclusive.   *)
(***************************************************************************)
EXTENDS GzipPool, SequenceTheorems, TLAPS

\* What the writer of a request and its response have in common.
Serves(r) ==
  LET w == writer[held[r]]
  IN /\ w.dest = r
     /\ r \notin broken =>
          /\ ~w.failed
          /\ phase[r] \in {"handling", "closing"} =>
               /\ ~w.closed
               /\ response[r].data \o w.buffer = written[r]
               /\ response[r].tails = 0
               /\ response[r].heads = IF w.begun THEN 1 ELSE 0
          /\ phase[r] = "putting" =>
               /\ response[r].data = written[r]
               /\ response[r].tails = 1
               /\ response[r].heads = 1

RequestInv(r) ==
  /\ phase[r] = "new" => /\ held[r] = NoWriter
                         /\ written[r] = << >>
                         /\ response[r] = EmptyBody
                         /\ r \notin broken
  /\ phase[r] \in {"closing", "putting"} => held[r] # NoWriter
  /\ phase[r] = "done" => held[r] = NoWriter
  /\ held[r] # NoWriter => Serves(r)
  /\ held[r] = NoWriter /\ r \notin broken =>
       /\ response[r].data = written[r]
       /\ response[r].heads = response[r].tails
       /\ response[r].heads \in {0, 1}
  /\ \E rest \in Seq(Chunk) : response[r].data \o rest = written[r]

PoolInv == /\ TypeOK
           /\ WriterIsExclusive
           /\ \A r \in Request : RequestInv(r)

-----------------------------------------------------------------------------
(* Sequences.                                                              *)

\* To append a chunk after a concatenation is to append it to the second part.
LEMMA AppendToConcat ==
  ASSUME NEW s \in Seq(Chunk), NEW t \in Seq(Chunk), NEW c \in Chunk
  PROVE  /\ Append(t, c) \in Seq(Chunk)
         /\ s \o Append(t, c) = Append(s \o t, c)
         /\ <<c>> \in Seq(Chunk) /\ Append(s, c) = s \o <<c>>
<1>1. <<c>> \in Seq(Chunk) /\ Append(t, c) \in Seq(Chunk)
  OBVIOUS
<1>2. Append(t, c) = t \o <<c>> /\ Append(s, c) = s \o <<c>>
  BY AppendIsConcat
<1>3. s \o t \in Seq(Chunk)
  BY ConcatProperties
<1>4. Append(s \o t, c) = (s \o t) \o <<c>>
  BY <1>3, AppendIsConcat
<1>5. (s \o t) \o <<c>> = s \o (t \o <<c>>)
  BY <1>1, ConcatAssociative
<1> QED
  BY <1>1, <1>2, <1>4, <1>5

-----------------------------------------------------------------------------
(* Types.                                                                  *)

\* What Output does, when the destination is the request it is meant for.
LEMMA OutputToRequest ==
  ASSUME TypeOK, NEW r \in Request, NEW w \in Writer, writer[w].dest = r,
         NEW data \in Seq(Chunk), NEW tails \in Nat, Output(w, data, tails)
  PROVE  /\ response' \in [Request -> Body]
         /\ \A q \in Request \ {r} : response'[q] = response[q]
         /\ r \in broken => response' = response
         /\ r \notin broken =>
              /\ response'[r].data = response[r].data \o data
              /\ response'[r].tails = response[r].tails + tails
              /\ response'[r].heads = response[r].heads
                                       + (IF writer[w].begun THEN 0 ELSE 1)
<1>1. response \in [Request -> Body] /\ writer[w].begun \in BOOLEAN
  BY DEF TypeOK, WriterState
<1>2. CASE r \in broken
  BY <1>1, <1>2 DEF Output
<1>3. CASE r \notin broken
  <2> DEFINE head == IF writer[w].begun THEN 0 ELSE 1
             b == [heads |-> response[r].heads + head,
                   data |-> response[r].data \o data,
                   tails |-> response[r].tails + tails]
  <2>1. response' = [response EXCEPT ![r] = b]
    BY <1>3 DEF Output
  <2>2. /\ response[r].data \in Seq(Chunk) /\ response[r].heads \in Nat
        /\ response[r].tails \in Nat
    BY <1>1 DEF Body
  <2>3. response[r].data \o data \in Seq(Chunk)
    BY <2>2, ConcatProperties
  <2>4. b \in Body
    BY <2>2, <2>3 DEF Body
  <2> QED
    BY <1>1, <1>3, <2>1, <2>4
<1> QED
  BY <1>2, <1>3

LEMMA WriterStateChanged ==
  ASSUME NEW x \in WriterState, NEW b \in Seq(Chunk), NEW closed \in BOOLEAN,
         NEW failed \in BOOLEAN
  PROVE  [x EXCEPT !.buffer = b, !.begun = TRUE, !.closed = closed,
                   !.failed = failed] \in WriterState
BY DEF WriterState

\* What a writer that is still open for r does with a chunk.
LEMMA WriteChunkTypes ==
  ASSUME TypeOK, NEW r \in Request, NEW w \in Writer, writer[w].dest = r,
         NEW c \in Chunk, WriteChunk(w, c)
  PROVE  /\ writer' \in [Writer -> WriterState]
         /\ \A v \in Writer \ {w} : writer'[v] = writer[v]
         /\ writer'[w].dest = r
         /\ response' \in [Request -> Body]
         /\ \A q \in Request \ {r} : response'[q] = response[q]
         /\ r \in broken => response' = response
<1>1. /\ writer \in [Writer -> WriterState] /\ writer[w] \in WriterState
      /\ response \in [Request -> Body] /\ broken \subseteq Request
  BY DEF TypeOK
<1>2. CASE writer[w].failed \/ writer[w].closed
  <2>1. writer' = [writer EXCEPT ![w].failed = TRUE] /\ response' = response
    BY <1>2 DEF WriteChunk
  <2> DEFINE x == [writer[w] EXCEPT !.failed = TRUE]
  <2>2. x \in WriterState /\ x.dest = r
    BY <1>1 DEF WriterState
  <2>3. writer' = [writer EXCEPT ![w] = x]
    BY <1>1, <2>1
  <2> HIDE DEF x
  <2>4. /\ writer' \in [Writer -> WriterState]
        /\ \A v \in Writer \ {w} : writer'[v] = writer[v]
        /\ writer'[w].dest = r
    BY <1>1, <2>2, <2>3
  <2>5. /\ response' \in [Request -> Body]
        /\ \A q \in Request \ {r} : response'[q] = response[q]
        /\ r \in broken => response' = response
    BY <1>1, <2>1
  <2> QED
    BY <2>4, <2>5, ZenonT(60)
<1>3. CASE ~(writer[w].failed \/ writer[w].closed)
  <2> DEFINE all == Append(writer[w].buffer, c)
  <2>1. PICK spill \in BOOLEAN :
          /\ Output(w, IF spill THEN all ELSE << >>, 0)
          /\ writer' = [writer EXCEPT
                          ![w].buffer = IF spill THEN << >> ELSE all,
                          ![w].begun = TRUE,
                          ![w].failed = writer[w].dest \in broken]
    BY <1>3, Zenon DEF WriteChunk
  <2>2. all \in Seq(Chunk) /\ << >> \in Seq(Chunk)
    BY <1>1 DEF WriterState
  <2> DEFINE x == [writer[w] EXCEPT
                     !.buffer = IF spill THEN << >> ELSE all,
                     !.begun = TRUE, !.closed = writer[w].closed,
                     !.failed = writer[w].dest \in broken]
  <2>3. x \in WriterState /\ x.dest = r
    <3>1. (IF spill THEN << >> ELSE all) \in Seq(Chunk)
      BY <2>2
    <3>2. writer[w].closed \in BOOLEAN
      BY <1>1 DEF WriterState
    <3>3. (writer[w].dest \in broken) \in BOOLEAN
      OBVIOUS
    <3> HIDE DEF all
    <3>4. x \in WriterState
      BY <1>1, <3>1, <3>2, <3>3, WriterStateChanged
    <3>5. x.dest = writer[w].dest
      BY <1>1 DEF WriterState
    <3> QED
      BY <3>4, <3>5
  <2>4. writer' = [writer EXCEPT ![w] = x]
    BY <1>1, <2>1 DEF WriterState
  <2>5. /\ writer' \in [Writer -> WriterState]
        /\ \A v \in Writer \ {w} : writer'[v] = writer[v]
        /\ writer'[w].dest = r
    BY <1>1, <2>3, <2>4
  <2>6. (IF spill THEN all ELSE << >>) \in Seq(Chunk)
    BY <2>2
  <2> QED
    BY <2>1, <2>5, <2>6, OutputToRequest, Zenon
<1> QED
  BY <1>2, <1>3

\* What closing a writer does.
LEMMA CloseWriterTypes ==
  ASSUME TypeOK, NEW r \in Request, NEW w \in Writer, writer[w].dest = r,
         CloseWriter(w)
  PROVE  /\ writer' \in [Writer -> WriterState]
         /\ \A v \in Writer \ {w} : writer'[v] = writer[v]
         /\ writer'[w].dest = r
         /\ response' \in [Request -> Body]
         /\ \A q \in Request \ {r} : response'[q] = response[q]
         /\ r \in broken => response' = response
<1>1. /\ writer \in [Writer -> WriterState] /\ writer[w] \in WriterState
      /\ response \in [Request -> Body] /\ broken \subseteq Request
  BY DEF TypeOK
<1>2. CASE writer[w].failed \/ writer[w].closed
  BY <1>1, <1>2 DEF CloseWriter
<1>3. CASE ~(writer[w].failed \/ writer[w].closed)
  <2>1. /\ Output(w, writer[w].buffer, 1)
        /\ writer' = [writer EXCEPT
                        ![w].buffer = << >>, ![w].begun = TRUE,
                        ![w].closed = TRUE,
                        ![w].failed = writer[w].dest \in broken]
    BY <1>3 DEF CloseWriter
  <2> DEFINE x == [writer[w] EXCEPT !.buffer = << >>, !.begun = TRUE,
                                    !.closed = TRUE,
                                    !.failed = writer[w].dest \in broken]
  <2>2. x \in WriterState /\ x.dest = r /\ writer[w].buffer \in Seq(Chunk)
    <3>1. (writer[w].dest \in broken) \in BOOLEAN
      OBVIOUS
    <3>2. << >> \in Seq(Chunk)
      OBVIOUS
    <3>3. x \in WriterState
      BY <1>1, <3>1, <3>2, WriterStateChanged
    <3>4. x.dest = r /\ writer[w].buffer \in Seq(Chunk)
      BY <1>1 DEF WriterState
    <3> QED
      BY <3>3, <3>4
  <2>3. writer' = [writer EXCEPT ![w] = x]
    BY <1>1, <2>1
  <2>4. /\ writer' \in [Writer -> WriterState]
        /\ \A v \in Writer \ {w} : writer'[v] = writer[v]
        /\ writer'[w].dest = r
    BY <1>1, <2>2, <2>3
  <2> QED
    BY <2>1, <2>2, <2>4, OutputToRequest
<1> QED
  BY <1>2, <1>3

-----------------------------------------------------------------------------
(* The invariant of one request.                                           *)

\* A step that touches nothing of q keeps what is known of q.
LEMMA OtherRequests ==
  ASSUME NEW q \in Request, RequestInv(q),
         phase'[q] = phase[q], held'[q] = held[q], written'[q] = written[q],
         response'[q] = response[q], q \in broken' <=> q \in broken,
         held[q] # NoWriter => writer'[held[q]] = writer[held[q]]
  PROVE  RequestInv(q)'
<1>1. held[q] # NoWriter => Serves(q)'
  BY DEF RequestInv, Serves
<1> QED
  BY <1>1 DEF RequestInv

\* One request moves and the others stay where they are.
LEMMA OneRequestMoves ==
  ASSUME PoolInv, TypeOK', WriterIsExclusive', NEW r \in Request,
         RequestInv(r)',
         \A q \in Request \ {r} :
           /\ phase'[q] = phase[q] /\ held'[q] = held[q]
           /\ written'[q] = written[q] /\ response'[q] = response[q]
           /\ q \in broken' <=> q \in broken
           /\ held[q] # NoWriter => writer'[held[q]] = writer[held[q]]
  PROVE  PoolInv'
BY OtherRequests DEF PoolInv

LEMMA EnterGzipStep ==
  ASSUME PoolInv, NEW r \in Request, NEW w \in Writer, EnterGzip(r, w)
  PROVE  PoolInv'
<1> USE DEF PoolInv
<1>1. /\ phase[r] = "new" /\ w \in pool \union Unused
      /\ held' = [held EXCEPT ![r] = w] /\ pool' = pool \ {w}
      /\ phase' = [phase EXCEPT ![r] = "handling"]
      /\ UNCHANGED <<written, response, broken>>
      /\ writer' = [writer EXCEPT ![w] = [NewWriter EXCEPT !.dest = r]]
  BY DEF EnterGzip, Reset
<1>2. [NewWriter EXCEPT !.dest = r] \in WriterState
  <2>1. << >> \in Seq(Chunk)
    OBVIOUS
  <2> QED
    BY <2>1 DEF NewWriter, WriterState
<1>3. TypeOK'
  BY <1>1, <1>2 DEF TypeOK
<1>4. \A q \in Request \ {r} : held[q] # w
  BY <1>1, NamesAssumption DEF WriterIsExclusive, InUse, Unused
<1>5. /\ held'[r] = w /\ \A q \in Request \ {r} : held'[q] = held[q]
      /\ writer'[w] = [NewWriter EXCEPT !.dest = r]
      /\ \A v \in Writer \ {w} : writer'[v] = writer[v]
      /\ phase'[r] = "handling"
      /\ \A q \in Request \ {r} : phase'[q] = phase[q]
  BY <1>1 DEF TypeOK
<1>6. WriterIsExclusive'
  BY <1>1, <1>4, <1>5, NamesAssumption DEF WriterIsExclusive, InUse
<1>7. RequestInv(r)'
  <2>1. /\ written[r] = << >> /\ response[r] = EmptyBody /\ r \notin broken
    BY <1>1 DEF RequestInv
  <2>2. /\ response[r].data = << >> /\ response[r].heads = 0
        /\ response[r].tails = 0
    BY <2>1 DEF EmptyBody
  <2>3. << >> \o << >> = << >> /\ << >> \in Seq(Chunk)
    BY ConcatEmptySeq
  <2>4. Serves(r)'
    BY <1>1, <1>5, <2>1, <2>2, <2>3 DEF Serves, NewWriter
  <2>5. \E rest \in Seq(Chunk) : response'[r].data \o rest = written'[r]
    BY <1>1, <2>1, <2>2, <2>3
  <2> QED
    BY <1>5, <2>4, <2>5, NamesAssumption DEF RequestInv
<1>8. \A q \in Request \ {r} :
        /\ phase'[q] = phase[q] /\ held'[q] = held[q]
        /\ written'[q] = written[q] /\ response'[q] = response[q]
        /\ q \in broken' <=> q \in broken
        /\ held[q] # NoWriter => writer'[held[q]] = writer[held[q]]
  BY <1>1, <1>4, <1>5 DEF TypeOK
<1> QED
  BY <1>3, <1>6, <1>7, <1>8, OneRequestMoves

LEMMA EnterPlainStep ==
  ASSUME PoolInv, NEW r \in Request, EnterPlain(r)
  PROVE  PoolInv'
<1> USE DEF PoolInv
<1>1. /\ phase[r] = "new" /\ phase' = [phase EXCEPT ![r] = "handling"]
      /\ UNCHANGED <<held, pool, writer, written, response, broken>>
  BY DEF EnterPlain
<1>2. TypeOK' /\ WriterIsExclusive'
  BY <1>1 DEF TypeOK, WriterIsExclusive, InUse
<1>3. phase'[r] = "handling" /\ \A q \in Request \ {r} : phase'[q] = phase[q]
  BY <1>1 DEF TypeOK
<1>4. RequestInv(r)'
  BY <1>1, <1>3 DEF RequestInv, EmptyBody
<1> QED
  BY <1>1, <1>2, <1>3, <1>4, OneRequestMoves

LEMMA HandlerEndsStep ==
  ASSUME PoolInv, NEW r \in Request, HandlerEnds(r)
  PROVE  PoolInv'
<1> USE DEF PoolInv
<1>1. /\ phase[r] = "handling"
      /\ phase' = [phase EXCEPT ![r] = IF held[r] = NoWriter THEN "done"
                                                            ELSE "closing"]
      /\ UNCHANGED <<held, pool, writer, written, response, broken>>
  BY DEF HandlerEnds
<1>2. TypeOK' /\ WriterIsExclusive'
  BY <1>1 DEF TypeOK, WriterIsExclusive, InUse
<1>3. /\ phase'[r] = IF held[r] = NoWriter THEN "done" ELSE "closing"
      /\ \A q \in Request \ {r} : phase'[q] = phase[q]
  BY <1>1 DEF TypeOK
<1>4. ASSUME held[r] # NoWriter PROVE Serves(r)'
  <2>1. phase'[r] = "closing" /\ Serves(r)
    BY <1>3, <1>4 DEF RequestInv
  <2> QED
    BY <1>1, <2>1 DEF Serves
<1>5. RequestInv(r)'
  BY <1>1, <1>3, <1>4 DEF RequestInv
<1> QED
  BY <1>1, <1>2, <1>3, <1>5, OneRequestMoves

LEMMA PutStep ==
  ASSUME PoolInv, NEW r \in Request, Put(r)
  PROVE  PoolInv'
<1> USE DEF PoolInv
<1>1. /\ phase[r] = "putting" /\ pool' = pool \union {held[r]}
      /\ held' = [held EXCEPT ![r] = NoWriter]
      /\ phase' = [phase EXCEPT ![r] = "done"]
      /\ UNCHANGED <<writer, written, response, broken>>
  BY DEF Put
<1>2. held[r] \in Writer
  BY <1>1 DEF RequestInv, TypeOK
<1>3. TypeOK'
  BY <1>1, <1>2 DEF TypeOK
<1>4. /\ held'[r] = NoWriter /\ phase'[r] = "done"
      /\ \A q \in Request \ {r} : held'[q] = held[q] /\ phase'[q] = phase[q]
  BY <1>1 DEF TypeOK
<1>5. WriterIsExclusive'
  BY <1>1, <1>2, <1>4, NamesAssumption DEF WriterIsExclusive, InUse
<1>6. RequestInv(r)'
  <2>1. held[r] # NoWriter /\ RequestInv(r)
    BY <1>2, NamesAssumption
  <2>2. r \notin broken => /\ response[r].data = written[r]
                           /\ response[r].heads = 1
                           /\ response[r].tails = 1
    BY <1>1, <2>1 DEF RequestInv, Serves
  <2>3. \E rest \in Seq(Chunk) : response[r].data \o rest = written[r]
    BY <2>1 DEF RequestInv
  <2> QED
    BY <1>1, <1>4, <2>2, <2>3 DEF RequestInv
<1> QED
  BY <1>1, <1>3, <1>4, <1>5, <1>6, OneRequestMoves

LEMMA BreakStep ==
  ASSUME PoolInv, NEW r \in Request, Break(r)
  PROVE  PoolInv'
<1> USE DEF PoolInv
<1>1. /\ phase[r] \notin {"new", "done"} /\ broken' = broken \union {r}
      /\ UNCHANGED <<phase, held, pool, writer, written, response>>
  BY DEF Break
<1>2. TypeOK' /\ WriterIsExclusive'
  BY <1>1 DEF TypeOK, WriterIsExclusive, InUse
<1>3. held[r] # NoWriter => Serves(r)'
  BY <1>1 DEF RequestInv, Serves
<1>4. RequestInv(r)'
  BY <1>1, <1>3 DEF RequestInv
<1> QED
  BY <1>1, <1>2, <1>4, OneRequestMoves

-----------------------------------------------------------------------------
(* Writing and closing.                                                    *)

\* A chunk is written: what the client has got grows or stays.
LEMMA WriteEffect ==
  ASSUME PoolInv, NEW r \in Request, Write(r)
  PROVE  /\ UNCHANGED <<phase, held, pool, broken>>
         /\ written' = [written EXCEPT
                          ![r] = Append(@, <<r, Len(written[r]) + 1>>)]
         /\ <<r, Len(written[r]) + 1>> \in Chunk
         /\ writer' \in [Writer -> WriterState]
         /\ \A v \in Writer : v # held[r] => writer'[v] = writer[v]
         /\ response' \in [Request -> Body]
         /\ \A q \in Request \ {r} : response'[q] = response[q]
         /\ \E x \in Seq(Chunk) :
              response'[r].data = response[r].data \o x
         /\ RequestInv(r)'
<1> USE DEF PoolInv
<1>2. written[r] \in Seq(Chunk) /\ Len(written[r]) \in Nat
  BY DEF TypeOK
<1>3. PICK c \in Chunk : c = <<r, Len(written[r]) + 1>>
  <2>1. Len(written[r]) + 1 \in Nat \ {0}
    BY <1>2
  <2> QED
    BY <2>1 DEF Chunk
<1>1. /\ phase[r] = "handling" /\ UNCHANGED <<phase, held, pool, broken>>
      /\ written' = [written EXCEPT ![r] = Append(@, c)]
  BY <1>3 DEF Write
<1>4. written'[r] = Append(written[r], c)
  BY <1>1 DEF TypeOK
<1>5. /\ response[r] \in Body /\ response[r].data \in Seq(Chunk)
      /\ response[r].heads \in Nat /\ response[r].tails \in Nat
  BY DEF TypeOK, Body
<1>6. response[r].data \o << >> = response[r].data /\ << >> \in Seq(Chunk)
  BY <1>5, ConcatEmptySeq
<1>7. PICK rest \in Seq(Chunk) : response[r].data \o rest = written[r]
  BY DEF RequestInv
<1>8. /\ Append(rest, c) \in Seq(Chunk)
      /\ response[r].data \o Append(rest, c) = Append(written[r], c)
      /\ <<c>> \in Seq(Chunk)
      /\ Append(response[r].data, c) = response[r].data \o <<c>>
  <2> DEFINE s == response[r].data
  <2>1. s \in Seq(Chunk) /\ s \o rest = written[r]
    BY <1>5, <1>7
  <2> HIDE DEF s
  <2>2. /\ Append(rest, c) \in Seq(Chunk)
        /\ s \o Append(rest, c) = Append(s \o rest, c)
        /\ <<c>> \in Seq(Chunk) /\ Append(s, c) = s \o <<c>>
    BY <2>1, AppendToConcat
  <2> QED
    BY <2>1, <2>2 DEF s
<1>9. CASE held[r] = NoWriter /\ r \in broken
  <2>1. UNCHANGED <<writer, response>>
    BY <1>3, <1>9 DEF Write
  <2>2. RequestInv(r)'
    <3>1. (\E x \in Seq(Chunk) : response[r].data \o x = written[r])'
      BY <1>4, <1>8, <2>1
    <3>2. phase'[r] = "handling" /\ held'[r] = NoWriter /\ r \in broken'
      BY <1>1, <1>9
    <3> QED
      BY <3>1, <3>2 DEF RequestInv
  <2>3. \E x \in Seq(Chunk) : response'[r].data = response[r].data \o x
    BY <1>6, <2>1
  <2>4. writer' \in [Writer -> WriterState] /\ response' \in [Request -> Body]
    BY <2>1 DEF TypeOK
  <2> QED
    BY <1>1, <1>3, <2>1, <2>2, <2>3, <2>4
<1>10. CASE held[r] = NoWriter /\ r \notin broken
  <2>1. UNCHANGED writer
        /\ response' = [response EXCEPT ![r].data = Append(@, c)]
    BY <1>3, <1>10 DEF Write
  <2> DEFINE b == [response[r] EXCEPT !.data = Append(response[r].data, c)]
  <2>2. Append(response[r].data, c) \in Seq(Chunk)
    BY <1>3, <1>5
  <2>3. b \in Body
    BY <1>5, <2>2 DEF Body
  <2>4. response' = [response EXCEPT ![r] = b]
    BY <2>1 DEF TypeOK, Body
  <2>5. response'[r] = b /\ response' \in [Request -> Body]
        /\ \A q \in Request \ {r} : response'[q] = response[q]
    BY <2>3, <2>4 DEF TypeOK
  <2>6. /\ b.data = Append(response[r].data, c) /\ b.heads = response[r].heads
        /\ b.tails = response[r].tails
    BY <1>5 DEF Body
  <2>7. response[r].data = written[r] /\ response[r].heads = response[r].tails
        /\ response[r].heads \in {0, 1}
    BY <1>10 DEF RequestInv
  <2>8. b.data = written'[r] /\ b.data \o << >> = b.data
    BY <1>4, <2>2, <2>6, <2>7, ConcatEmptySeq
  <2>9. RequestInv(r)'
    <3>1. (\E x \in Seq(Chunk) : response[r].data \o x = written[r])'
      BY <1>6, <2>5, <2>8
    <3>2. (/\ response[r].data = written[r]
           /\ response[r].heads = response[r].tails
           /\ response[r].heads \in {0, 1})'
      BY <2>5, <2>6, <2>7, <2>8
    <3>3. phase'[r] = "handling" /\ held'[r] = NoWriter
      BY <1>1, <1>10
    <3> QED
      BY <3>1, <3>2, <3>3 DEF RequestInv
  <2>10. writer' \in [Writer -> WriterState]
    BY <2>1 DEF TypeOK
  <2>11. \E x \in Seq(Chunk) : response'[r].data = response[r].data \o x
    BY <1>8, <2>5, <2>6
  <2> QED
    BY <1>1, <1>3, <2>1, <2>5, <2>9, <2>10, <2>11
<1>11. CASE held[r] # NoWriter
  <2> DEFINE w == held[r]
  <2>1. w \in Writer /\ WriteChunk(w, c) /\ Serves(r) /\ writer[w].dest = r
    <3>1. w \in Writer
      BY <1>11 DEF TypeOK
    <3>2. Serves(r)
      BY <1>11 DEF RequestInv
    <3>3. writer[w].dest = r
      BY <3>2 DEF Serves
    <3>4. WriteChunk(w, c)
      BY <1>3, <1>11 DEF Write
    <3> QED
      BY <3>1, <3>2, <3>3, <3>4
  <2>2. /\ writer' \in [Writer -> WriterState]
        /\ \A v \in Writer \ {w} : writer'[v] = writer[v]
        /\ writer'[w].dest = r
        /\ response' \in [Request -> Body]
        /\ \A q \in Request \ {r} : response'[q] = response[q]
        /\ r \in broken => response' = response
    BY <1>3, <2>1, WriteChunkTypes
  <2>3. CASE r \in broken
    <3>1. Serves(r)'
      BY <1>1, <2>2, <2>3 DEF Serves
    <3>2. RequestInv(r)'
      BY <1>1, <1>4, <1>8, <1>11, <2>2, <2>3, <3>1 DEF RequestInv
    <3> QED
      BY <1>1, <1>3, <1>6, <2>2, <2>3, <3>2
  <2>4. CASE r \notin broken
    <3> DEFINE all == Append(writer[w].buffer, c)
    <3>1. /\ ~writer[w].failed /\ ~writer[w].closed
          /\ response[r].data \o writer[w].buffer = written[r]
          /\ response[r].tails = 0
          /\ response[r].heads = IF writer[w].begun THEN 1 ELSE 0
      BY <1>1, <2>1, <2>4 DEF Serves
    <3>2. PICK spill \in BOOLEAN :
            /\ Output(w, IF spill THEN all ELSE << >>, 0)
            /\ writer' = [writer EXCEPT
                            ![w].buffer = IF spill THEN << >> ELSE all,
                            ![w].begun = TRUE,
                            ![w].failed = writer[w].dest \in broken]
      BY <2>1, <3>1, Zenon DEF WriteChunk
    <3>3. writer[w] \in WriterState /\ writer[w].buffer \in Seq(Chunk)
      BY <2>1 DEF TypeOK, WriterState
    <3>4. /\ all \in Seq(Chunk)
          /\ response[r].data \o all = Append(written[r], c)
      <4> DEFINE s == response[r].data
                 t == writer[w].buffer
      <4>1. s \in Seq(Chunk) /\ t \in Seq(Chunk) /\ s \o t = written[r]
        BY <1>5, <3>1, <3>3
      <4> HIDE DEF s, t
      <4>2. /\ Append(t, c) \in Seq(Chunk)
            /\ s \o Append(t, c) = Append(s \o t, c)
        BY <4>1, AppendToConcat
      <4> QED
        BY <4>1, <4>2 DEF s, t
    <3>5. /\ writer'[w].buffer = IF spill THEN << >> ELSE all
          /\ writer'[w].begun = TRUE /\ writer'[w].failed = FALSE
          /\ writer'[w].closed = FALSE
      BY <2>1, <2>4, <3>1, <3>2, <3>3 DEF TypeOK, WriterState
    <3> DEFINE out == IF spill THEN all ELSE << >>
    <3>6. out \in Seq(Chunk)
      BY <3>4
    <3>7. /\ response'[r].data = response[r].data \o out
          /\ response'[r].tails = response[r].tails + 0
          /\ response'[r].heads = response[r].heads
                                   + (IF writer[w].begun THEN 0 ELSE 1)
      <4> HIDE DEF out
      <4>1. Output(w, out, 0)
        BY <3>2 DEF out
      <4> QED
        BY <2>1, <2>4, <3>6, <4>1, OutputToRequest
    <3>8. response'[r].data \o writer'[w].buffer = written'[r]
      <4>1. CASE spill
        <5>1. response'[r].data = Append(written[r], c)
              /\ writer'[w].buffer = << >>
          BY <3>4, <3>5, <3>7, <4>1
        <5>2. Append(written[r], c) \in Seq(Chunk)
          BY <1>2, <1>3
        <5> QED
          BY <1>4, <5>1, <5>2, ConcatEmptySeq, SMTT(30)
      <4>2. CASE ~spill
        <5>1. writer'[w].buffer = all /\ out = << >>
          BY <3>5, <4>2
        <5>2. response'[r].data = response[r].data
          BY <1>6, <3>7, <5>1
        <5> QED
          BY <1>4, <3>4, <5>1, <5>2
      <4> QED
        BY <4>1, <4>2
    <3>9. response'[r].tails = 0 /\ response'[r].heads = 1
      BY <3>1, <3>7
    <3>10. Serves(r)'
      BY <1>1, <2>2, <3>5, <3>8, <3>9 DEF Serves
    <3>11. writer'[w].buffer \in Seq(Chunk)
      BY <2>1, <2>2 DEF WriterState
    <3>12. RequestInv(r)'
      <4>1. (\E left \in Seq(Chunk) : response[r].data \o left = written[r])'
        BY <3>8, <3>11
      <4> QED
        BY <1>1, <1>11, <3>10, <4>1 DEF RequestInv
    <3> QED
      BY <1>1, <1>3, <2>2, <3>6, <3>7, <3>12
  <2> QED
    BY <2>3, <2>4
<1> QED
  BY <1>9, <1>10, <1>11

LEMMA WriteStep ==
  ASSUME PoolInv, NEW r \in Request, Write(r)
  PROVE  PoolInv'
<1> USE DEF PoolInv
<1>1. /\ UNCHANGED <<phase, held, pool, broken>>
      /\ written' = [written EXCEPT
                       ![r] = Append(@, <<r, Len(written[r]) + 1>>)]
      /\ <<r, Len(written[r]) + 1>> \in Chunk
      /\ writer' \in [Writer -> WriterState]
      /\ \A v \in Writer : v # held[r] => writer'[v] = writer[v]
      /\ response' \in [Request -> Body]
      /\ \A q \in Request \ {r} : response'[q] = response[q]
      /\ RequestInv(r)'
  BY WriteEffect
<1>2. written' \in [Request -> Seq(Chunk)]
      /\ \A q \in Request \ {r} : written'[q] = written[q]
  BY <1>1 DEF TypeOK
<1>3. TypeOK' /\ WriterIsExclusive'
  BY <1>1, <1>2 DEF TypeOK, WriterIsExclusive, InUse
<1>4. \A q \in Request \ {r} :
        held[q] # NoWriter => held[q] \in Writer /\ held[q] # held[r]
  BY DEF TypeOK, WriterIsExclusive, InUse
<1> QED
  BY <1>1, <1>2, <1>3, <1>4, OneRequestMoves

\* The stream is closed: the client has got all of it, or has gone.
LEMMA CloseEffect ==
  ASSUME PoolInv, NEW r \in Request, Close(r)
  PROVE  /\ UNCHANGED <<held, pool, written, broken>>
         /\ phase' = [phase EXCEPT ![r] = "putting"]
         /\ writer' \in [Writer -> WriterState]
         /\ \A v \in Writer : v # held[r] => writer'[v] = writer[v]
         /\ response' \in [Request -> Body]
         /\ \A q \in Request \ {r} : response'[q] = response[q]
         /\ r \in broken => response' = response
         /\ r \notin broken => response'[r].data = written[r]
         /\ RequestInv(r)'
<1> DEFINE w == held[r]
<1> USE DEF PoolInv
<1>1. /\ phase[r] = "closing" /\ UNCHANGED <<held, pool, written, broken>>
      /\ phase' = [phase EXCEPT ![r] = "putting"] /\ CloseWriter(w)
  BY DEF Close
<1>2. /\ phase'[r] = "putting" /\ held[r] # NoWriter /\ w \in Writer
  BY <1>1 DEF TypeOK, RequestInv
<1>3. Serves(r) /\ writer[w].dest = r
  BY <1>2 DEF RequestInv, Serves
<1>4. /\ writer' \in [Writer -> WriterState]
      /\ \A v \in Writer \ {w} : writer'[v] = writer[v]
      /\ writer'[w].dest = r
      /\ response' \in [Request -> Body]
      /\ \A q \in Request \ {r} : response'[q] = response[q]
      /\ r \in broken => response' = response
  BY <1>1, <1>2, <1>3, CloseWriterTypes
<1>5. CASE r \in broken
  <2>1. Serves(r)'
    BY <1>1, <1>4, <1>5 DEF Serves
  <2>2. (\E rest \in Seq(Chunk) : response[r].data \o rest = written[r])'
    BY <1>1, <1>4, <1>5 DEF RequestInv
  <2>3. phase'[r] = "putting" /\ held'[r] # NoWriter /\ r \in broken'
    BY <1>1, <1>2, <1>5
  <2>4. RequestInv(r)'
    BY <2>1, <2>2, <2>3 DEF RequestInv
  <2> QED
    BY <1>1, <1>4, <1>5, <2>4
<1>6. CASE r \notin broken
  <2>1. /\ ~writer[w].failed /\ ~writer[w].closed
        /\ response[r].data \o writer[w].buffer = written[r]
        /\ response[r].tails = 0
        /\ response[r].heads = IF writer[w].begun THEN 1 ELSE 0
    BY <1>1, <1>3, <1>6 DEF Serves
  <2>2. /\ Output(w, writer[w].buffer, 1)
        /\ writer' = [writer EXCEPT
                        ![w].buffer = << >>, ![w].begun = TRUE,
                        ![w].closed = TRUE,
                        ![w].failed = writer[w].dest \in broken]
    BY <1>1, <2>1 DEF CloseWriter
  <2>3. writer[w] \in WriterState /\ writer[w].buffer \in Seq(Chunk)
    BY <1>2 DEF TypeOK, WriterState
  <2>4. ~writer'[w].failed
    <3>1. writer'[w].failed <=> (writer[w].dest \in broken)
      BY <1>2, <2>2, <2>3 DEF TypeOK, WriterState
    <3> QED
      BY <1>3, <1>6, <3>1
  <2>5. /\ response'[r].data = response[r].data \o writer[w].buffer
        /\ response'[r].tails = response[r].tails + 1
        /\ response'[r].heads = response[r].heads
                                 + (IF writer[w].begun THEN 0 ELSE 1)
    BY <1>2, <1>3, <1>6, <2>2, <2>3, OutputToRequest
  <2>6. /\ response'[r].data = written[r] /\ response'[r].tails = 1
        /\ response'[r].heads = 1
    BY <2>1, <2>5
  <2>7. Serves(r)'
    BY <1>1, <1>2, <1>4, <2>4, <2>6 DEF Serves
  <2>8. response'[r].data \o << >> = written'[r] /\ << >> \in Seq(Chunk)
    BY <1>1, <2>6, ConcatEmptySeq DEF TypeOK
  <2>9. RequestInv(r)'
    BY <1>1, <1>2, <2>7, <2>8 DEF RequestInv
  <2> QED
    BY <1>1, <1>4, <1>6, <2>6, <2>9
<1> QED
  BY <1>5, <1>6

LEMMA CloseStep ==
  ASSUME PoolInv, NEW r \in Request, Close(r)
  PROVE  PoolInv'
<1> USE DEF PoolInv
<1>1. /\ UNCHANGED <<held, pool, written, broken>>
      /\ phase' = [phase EXCEPT ![r] = "putting"]
      /\ writer' \in [Writer -> WriterState]
      /\ \A v \in Writer : v # held[r] => writer'[v] = writer[v]
      /\ response' \in [Request -> Body]
      /\ \A q \in Request \ {r} : response'[q] = response[q]
      /\ RequestInv(r)'
  BY CloseEffect
<1>2. TypeOK' /\ WriterIsExclusive'
  BY <1>1 DEF TypeOK, WriterIsExclusive, InUse
<1>3. \A q \in Request \ {r} :
        /\ phase'[q] = phase[q]
        /\ held[q] # NoWriter => held[q] \in Writer /\ held[q] # held[r]
  BY <1>1 DEF TypeOK, WriterIsExclusive, InUse
<1> QED
  BY <1>1, <1>2, <1>3, OneRequestMoves

-----------------------------------------------------------------------------
(* The theorems.                                                           *)

LEMMA PoolInvInit == Init => PoolInv
<1> SUFFICES ASSUME Init PROVE PoolInv
  OBVIOUS
<1> USE DEF Init
<1>1. << >> \in Seq(Chunk) /\ << >> \o << >> = << >>
  BY ConcatEmptySeq
<1>2. NewWriter \in WriterState /\ EmptyBody \in Body
  BY <1>1 DEF NewWriter, WriterState, EmptyBody, Body
<1>3. TypeOK
  BY <1>1, <1>2 DEF TypeOK
<1>4. WriterIsExclusive
  BY DEF WriterIsExclusive, InUse
<1>5. ASSUME NEW r \in Request PROVE RequestInv(r)
  <2>1. response[r].data \o << >> = written[r]
    BY <1>1 DEF EmptyBody
  <2> QED
    BY <1>1, <2>1 DEF RequestInv, EmptyBody
<1> QED
  BY <1>3, <1>4, <1>5 DEF PoolInv

LEMMA PoolInvStep == PoolInv /\ [Next]_vars => PoolInv'
<1> SUFFICES ASSUME PoolInv, [Next]_vars PROVE PoolInv'
  OBVIOUS
<1>1. CASE \E r \in Request : EnterPlain(r)
  BY <1>1, EnterPlainStep
<1>2. CASE \E r \in Request, w \in Writer : EnterGzip(r, w)
  BY <1>2, EnterGzipStep
<1>3. CASE \E r \in Request : Write(r)
  BY <1>3, WriteStep
<1>4. CASE \E r \in Request : HandlerEnds(r)
  BY <1>4, HandlerEndsStep
<1>5. CASE \E r \in Request : Close(r)
  BY <1>5, CloseStep
<1>6. CASE \E r \in Request : Put(r)
  BY <1>6, PutStep
<1>7. CASE \E r \in Request : Break(r)
  BY <1>7, BreakStep
<1>8. CASE \E w \in Writer : Drop(w)
  <2>1. /\ pool' \subseteq pool
        /\ UNCHANGED <<phase, held, writer, written, response, broken>>
    BY <1>8 DEF Drop
  <2>2. TypeOK' /\ WriterIsExclusive'
    BY <2>1 DEF PoolInv, TypeOK, WriterIsExclusive, InUse
  <2> QED
    BY <2>1, <2>2, OtherRequests DEF PoolInv
<1>9. CASE UNCHANGED vars
  <2>1. TypeOK' /\ WriterIsExclusive'
    BY <1>9 DEF vars, PoolInv, TypeOK, WriterIsExclusive, InUse
  <2> QED
    BY <1>9, <2>1, OtherRequests DEF vars, PoolInv
<1> QED
  BY <1>1, <1>2, <1>3, <1>4, <1>5, <1>6, <1>7, <1>8, <1>9 DEF Next, Finished

LEMMA PoolInvAlways == Spec => []PoolInv
BY PoolInvInit, PoolInvStep, PTL DEF Spec

\* The state of the pool, of its writers and of every request keeps its type.
THEOREM GzipTypes == Spec => []TypeOK
<1>1. PoolInv => TypeOK
  BY DEF PoolInv
<1> QED
  BY <1>1, PoolInvAlways, PTL

\* However many requests compress at once, no writer serves two of them and
\* no writer in use is in gzipPool.
THEOREM WritersAreExclusive == Spec => []WriterIsExclusive
<1>1. PoolInv => WriterIsExclusive
  BY DEF PoolInv
<1> QED
  BY <1>1, PoolInvAlways, PTL

\* Every response that is over is one complete gzip stream of what its own
\* handler wrote, or plain, unless its client went away.
THEOREM StreamsAreWhole == Spec => []StreamIsWhole
<1>1. PoolInv => StreamIsWhole
  <2> SUFFICES ASSUME PoolInv, NEW r \in Request,
                      phase[r] \in {"putting", "done"}, r \notin broken
               PROVE  /\ response[r].data = written[r]
                      /\ response[r].heads = response[r].tails
                      /\ response[r].heads \in {0, 1}
                      /\ phase[r] = "putting" => response[r].heads = 1
    BY Zenon DEF StreamIsWhole
  <2>1. RequestInv(r)
    BY DEF PoolInv
  <2>2. CASE phase[r] = "putting"
    <3>1. Serves(r)
      BY <2>1, <2>2 DEF RequestInv
    <3>2. /\ response[r].data = written[r]
          /\ response[r].tails = 1
          /\ response[r].heads = 1
      BY <2>2, <3>1, SMTT(30) DEF Serves
    <3> QED
      BY <3>2
  <2>3. CASE phase[r] = "done"
    BY <2>1, <2>3 DEF RequestInv
  <2> QED
    BY <2>2, <2>3
<1> QED
  BY <1>1, PoolInvAlways, PTL

-----------------------------------------------------------------------------
(* The pool implements independent streams.                                *)

LEMMA PrefixOfConcat ==
  ASSUME NEW S, NEW s \in Seq(S), NEW t \in Seq(S)
  PROVE  s \in Streams!Prefixes(s \o t)
<1> DEFINE u == s \o t
           p == SubSeq(u, 1, Len(s))
<1>1. /\ u \in Seq(S) /\ Len(u) = Len(s) + Len(t)
      /\ Len(s) \in Nat /\ Len(t) \in Nat
      /\ \A i \in 1..(Len(s) + Len(t)) :
           u[i] = IF i <= Len(s) THEN s[i] ELSE t[i - Len(s)]
  BY ConcatProperties, LenProperties
<1>2. \A i \in 1..Len(s) : u[i] = s[i] /\ s[i] \in S
  BY <1>1, ElementOfSeq
<1> HIDE DEF u
<1>3. /\ p \in Seq(S) /\ Len(p) = Len(s)
      /\ \A i \in 1..Len(s) : p[i] = u[i]
  <2>1. /\ SubSeq(u, 1, Len(s)) \in Seq(S)
        /\ Len(SubSeq(u, 1, Len(s)))
             = IF 1 <= Len(s) THEN Len(s) - 1 + 1 ELSE 0
        /\ \A i \in 1..(Len(s) - 1 + 1) :
             SubSeq(u, 1, Len(s))[i] = u[1 + i - 1]
    <3>1. \A i \in 1..Len(s) : u[i] \in S
      BY <1>2
    <3> QED
      BY <1>1, <3>1, SubSeqProperties
  <2> QED
    BY <1>1, <2>1
<1>4. p = s
  BY <1>2, <1>3, SeqEqual
<1>5. Len(s) \in 0..Len(u)
  BY <1>1
<1> QED
  BY <1>4, <1>5 DEF Streams!Prefixes, u

\* The client's view of the model.
Delivered == [r \in Request |-> response[r].data]
Over == {r \in Request : phase[r] \in {"putting", "done"}}

\* What is hidden from the clients changes nothing of the streams.
LEMMA HiddenSteps ==
  ASSUME UNCHANGED <<written, response, broken>>, Over' = Over
  PROVE  UNCHANGED Streams!streams
BY DEF Streams!streams, Over

LEMMA WriteRefines ==
  ASSUME PoolInv, NEW r \in Request, Write(r)
  PROVE  Streams!Write(r)
<1> USE DEF PoolInv
<1>1. /\ UNCHANGED <<phase, held, pool, broken>>
      /\ written' = [written EXCEPT
                       ![r] = Append(@, <<r, Len(written[r]) + 1>>)]
      /\ response' \in [Request -> Body]
      /\ \A q \in Request \ {r} : response'[q] = response[q]
      /\ RequestInv(r)'
  BY WriteEffect
<1>2. PICK x \in Seq(Chunk) : response'[r].data = response[r].data \o x
  BY WriteEffect
<1>3. PICK rest \in Seq(Chunk) : response'[r].data \o rest = written'[r]
  BY <1>1 DEF RequestInv
<1>4. response[r].data \in Seq(Chunk) /\ response'[r].data \in Seq(Chunk)
  BY <1>1 DEF TypeOK, Body
<1>5. /\ Delivered'[r] \in Streams!Prefixes(written'[r])
      /\ Delivered[r] \in Streams!Prefixes(Delivered'[r])
  <2>1. \A s, t \in Seq(Chunk) : s \in Streams!Prefixes(s \o t)
    BY PrefixOfConcat
  <2>2. Delivered'[r] = response'[r].data /\ Delivered[r] = response[r].data
    BY DEF Delivered
  <2> QED
    BY <1>2, <1>3, <1>4, <2>1, <2>2
<1>6. Delivered' = [Delivered EXCEPT ![r] = Delivered'[r]]
  BY <1>1 DEF Delivered
<1>7. r \notin Over /\ Over' = Over
  BY <1>1 DEF Over, Write
<1> QED
  BY <1>1, <1>5, <1>6, <1>7 DEF Streams!Write, Delivered, Over

LEMMA EndRefines ==
  ASSUME PoolInv, NEW r \in Request,
         Close(r) \/ (HandlerEnds(r) /\ held[r] = NoWriter)
  PROVE  Streams!End(r)
<1> USE DEF PoolInv
<1>1. /\ UNCHANGED <<written, broken>>
      /\ \A q \in Request \ {r} : response'[q].data = response[q].data
      /\ r \in broken => response'[r].data = response[r].data
      /\ r \notin broken => response'[r].data = written[r]
      /\ phase'[r] \in {"putting", "done"}
      /\ phase[r] \notin {"putting", "done"}
      /\ \A q \in Request \ {r} : phase'[q] = phase[q]
  <2>1. CASE Close(r)
    <3>1. phase[r] = "closing" /\ phase' = [phase EXCEPT ![r] = "putting"]
      BY <2>1 DEF Close
    <3> QED
      BY <2>1, <3>1, CloseEffect DEF TypeOK
  <2>2. CASE HandlerEnds(r) /\ held[r] = NoWriter
    BY <2>2 DEF HandlerEnds, TypeOK, RequestInv
  <2> QED
    BY <2>1, <2>2
<1>2. Over' = Over \union {r} /\ r \notin Over
  BY <1>1 DEF Over
<1>3. Delivered' \in {Delivered, [Delivered EXCEPT ![r] = written[r]]}
  BY <1>1 DEF Delivered
<1>4. r \notin broken => Delivered'[r] = written[r]
  BY <1>1 DEF Delivered
<1> QED
  BY <1>1, <1>2, <1>3, <1>4 DEF Streams!End, Delivered, Over

LEMMA StepRefines ==
  PoolInv /\ [Next]_vars => [Streams!Next]_(Streams!streams)
<1> SUFFICES ASSUME PoolInv, [Next]_vars
             PROVE  Streams!Next \/ UNCHANGED Streams!streams
  OBVIOUS
<1>1. CASE \E r \in Request : EnterPlain(r) \/ Put(r)
              \/ (HandlerEnds(r) /\ held[r] # NoWriter)
  <2>1. UNCHANGED <<written, response, broken>> /\ Over' = Over
    BY <1>1 DEF EnterPlain, Put, HandlerEnds, Over, PoolInv, TypeOK
  <2> QED
    BY <2>1, HiddenSteps
<1>2. CASE \E r \in Request, w \in Writer : EnterGzip(r, w)
  <2>1. UNCHANGED <<written, response, broken>> /\ Over' = Over
    BY <1>2 DEF EnterGzip, Over, PoolInv, TypeOK
  <2> QED
    BY <2>1, HiddenSteps
<1>3. CASE \E w \in Writer : Drop(w)
  BY <1>3, HiddenSteps DEF Drop, Over
<1>4. CASE \E r \in Request : Write(r)
  BY <1>4, WriteRefines DEF Streams!Next
<1>5. CASE \E r \in Request :
             Close(r) \/ (HandlerEnds(r) /\ held[r] = NoWriter)
  BY <1>5, EndRefines DEF Streams!Next
<1>6. CASE \E r \in Request : Break(r)
  BY <1>6 DEF Break, Streams!Next, Streams!Lose
<1>7. CASE UNCHANGED vars
  BY <1>7, HiddenSteps DEF vars, Over
<1> QED
  BY <1>1, <1>2, <1>3, <1>4, <1>5, <1>6, <1>7 DEF Next, Finished

\* The middleware implements ResponseStreams: nothing of the pool, of a
\* failed Close or of another request can be seen in a response.
THEOREM PoolIsInvisible == Spec => ImplementsStreams
<1>1. Init => Streams!Init
  BY DEF Init, Streams!Init, EmptyBody
<1> QED
  BY <1>1, StepRefines, PoolInvAlways, PTL
     DEF Spec, ImplementsStreams, Streams!Spec

=============================================================================
