---------------------------- MODULE OrderedPipe ----------------------------
(***************************************************************************)
(* What the pty event loop promises to the main thread about input: the    *)
(* bytes of the inputs come out once each and in the order they were sent, *)
(* in pieces of any size, until the pipe is closed.  Bytes in flight when  *)
(* it closes are lost, so nothing is said of how many come out.            *)
(***************************************************************************)
EXTENDS Integers, Sequences

CONSTANT MaxLen   \* the longest input, in bytes

VARIABLES
  sent,    \* the lengths of the inputs sent
  recvd,   \* the bytes that came out, as <<input, offset>>
  closed   \* nothing more is sent

pipeVars == <<sent, recvd, closed>>

Init == sent = <<>> /\ recvd = <<>> /\ closed = FALSE

\* The byte that comes out next, if it has been sent.
NextByte ==
  IF recvd = <<>>
  THEN <<1, 1>>
  ELSE LET last == recvd[Len(recvd)] IN
       IF last[2] < sent[last[1]] THEN <<last[1], last[2] + 1>>
                                  ELSE <<last[1] + 1, 1>>

Send ==
  /\ ~closed
  /\ \E len \in 1..MaxLen : sent' = Append(sent, len)
  /\ UNCHANGED <<recvd, closed>>

\* A piece of one input.
Deliver ==
  /\ NextByte[1] \in 1..Len(sent)
  /\ \E n \in 1..MaxLen :
       /\ NextByte[2] + n - 1 <= sent[NextByte[1]]
       /\ recvd' = recvd \o [k \in 1..n |-> <<NextByte[1], NextByte[2] + k - 1>>]
  /\ UNCHANGED <<sent, closed>>

Close == closed' = TRUE /\ UNCHANGED <<sent, recvd>>

Next == Send \/ Deliver \/ Close

Spec == Init /\ [][Next]_pipeVars
=============================================================================
