---------------------------- MODULE ByteChannel ----------------------------
(***************************************************************************)
(* What a nanoHTTP stream promises the two ends of a message, whatever the *)
(* transfer style: the bytes arrive in order, none lost and none twice,    *)
(* and a reader told that no data is left has all of them. A body that     *)
(* ends with the connection ("framed" is FALSE) cannot promise the last.   *)
(* Byte k of the body is the number k.                                     *)
(***************************************************************************)
EXTENDS Naturals, Sequences

VARIABLES total,      \* bytes the writer is going to write
          framed,     \* the message says how long its body is
          handed,     \* bytes written so far
          delivered,  \* the bytes the reader has got
          verdict     \* what the reader knows: "open", "complete", "failed"

chanVars == <<total, framed, handed, delivered, verdict>>

ChanInit ==
  /\ total \in Nat
  /\ framed \in BOOLEAN
  /\ handed = 0
  /\ delivered = << >>
  /\ verdict = "open"

Hand ==
  /\ handed' \in handed + 1 .. total
  /\ UNCHANGED <<total, framed, delivered, verdict>>

Deliver ==
  /\ verdict = "open"
  /\ \E upto \in Len(delivered) + 1 .. handed :
       delivered' = [k \in 1 .. upto |-> k]
  /\ UNCHANGED <<total, framed, handed, verdict>>

Complete ==
  /\ verdict = "open"
  /\ framed => Len(delivered) = total
  /\ verdict' = "complete"
  /\ UNCHANGED <<total, framed, handed, delivered>>

Fail ==
  /\ verdict = "open"
  /\ verdict' = "failed"
  /\ UNCHANGED <<total, framed, handed, delivered>>

ChanNext == Hand \/ Deliver \/ Complete \/ Fail

ChanSpec == ChanInit /\ [][ChanNext]_chanVars

=============================================================================
