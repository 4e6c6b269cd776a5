------------------------------- MODULE Duplex -------------------------------
(***************************************************************************)
(* What ser.c promises about the one wire that it shares between sending   *)
(* and receiving: a message handed to it goes out whole, once, in order,   *)
(* and the node listens again only after the last bit is out.              *)
(***************************************************************************)
EXTENDS Sequences

CONSTANT Messages   \* what may be sent: non-empty sequences of bytes

VARIABLES mode,     \* "listen" or "send"
          queue     \* bytes that are still to leave the node

duplexVars == <<mode, queue>>

DuplexInit == mode = "listen" /\ queue = <<>>

\* a message is accepted, whole, by a node that is listening
Send == /\ mode = "listen"
        /\ mode' = "send"
        /\ queue' \in Messages

\* the next byte has left the node
Emit == /\ mode = "send"
        /\ queue # <<>>
        /\ queue' = Tail(queue)
        /\ UNCHANGED mode

\* all bytes are out: listen again
Listen == /\ mode = "send"
          /\ queue = <<>>
          /\ mode' = "listen"
          /\ UNCHANGED queue

DuplexNext == Send \/ Emit \/ Listen

DuplexSafety == DuplexInit /\ [][DuplexNext]_duplexVars

\* a node that sends comes to its end
DuplexSpec == DuplexSafety /\ WF_duplexVars(Emit \/ Listen)
=============================================================================
