------------------------------- MODULE Relay -------------------------------
(***************************************************************************)
(* What port forwarder and proxy promise the two applications of a session:*)
(* each of them receives what the other one has sent, from the first byte  *)
(* on, in order, without a byte added, changed, repeated or left out.  How *)
(* much later, and whether at all, is not said here.                       *)
(***************************************************************************)
EXTENDS Naturals, Sequences

CONSTANTS Node, Session, Other(_), DataByte(_, _, _)

VARIABLES sent,  \* how many bytes the application at a node has sent
          got    \* the bytes the application at a node has received

Stream(n, s, k) == [i \in 1..k |-> DataByte(n, s, i)]

Init == /\ sent = [n \in Node |-> [s \in Session |-> 0]]
        /\ got = [n \in Node |-> [s \in Session |-> <<>>]]

(* Any number of sessions may move at once: poll reports several events.  A *)
(* byte may be taken and handed on in the same step.                        *)
Next == \A n \in Node : \A s \in Session :
          /\ sent'[n][s] >= sent[n][s]
          /\ Len(got'[n][s]) \in Len(got[n][s])..sent'[Other(n)][s]
          /\ got'[n][s] = Stream(Other(n), s, Len(got'[n][s]))

Spec == Init /\ [][Next]_<<sent, got>>
=============================================================================
