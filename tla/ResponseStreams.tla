--------------------------- MODULE ResponseStreams ---------------------------
(***************************************************************************)
(* What the Gzip middleware promises: whatever it does to them, responses  *)
(* are independent streams.  What a client can decode of its response is a *)
(* prefix of what its handler wrote, and all of it once the response is    *)
(* over, unless the connection was lost.                                   *)
(***************************************************************************)
EXTENDS Integers, Sequences

CONSTANT Request

VARIABLES written,    \* what the handler of each request has written
          delivered,  \* what its client can decode
          lost,       \* requests whose connection is gone
          over        \* requests whose response is over

streams == <<written, delivered, lost, over>>

Prefixes(s) == {SubSeq(s, 1, n) : n \in 0..Len(s)}

Init ==
  /\ written = [r \in Request |-> << >>]
  /\ delivered = [r \in Request |-> << >>]
  /\ lost = {}
  /\ over = {}

\* A chunk is handed over, and some of what is due reaches the client.
Write(r) ==
  /\ r \notin over
  /\ \E c \in {<<r, Len(written[r]) + 1>>} :
       written' = [written EXCEPT ![r] = Append(@, c)]
  /\ \E d \in Prefixes(written'[r]) :
       /\ delivered[r] \in Prefixes(d)
       /\ delivered' = [delivered EXCEPT ![r] = d]
  /\ UNCHANGED <<lost, over>>

Lose(r) == lost' = lost \union {r} /\ UNCHANGED <<written, delivered, over>>

End(r) ==
  /\ r \notin over
  /\ over' = over \union {r}
  /\ delivered' \in {delivered, [delivered EXCEPT ![r] = written[r]]}
  /\ r \notin lost => delivered'[r] = written[r]
  /\ UNCHANGED <<written, lost>>

Next == \E r \in Request : Write(r) \/ Lose(r) \/ End(r)

Spec == Init /\ [][Next]_streams

=============================================================================
