--------------------------- MODULE TwinPublications ---------------------------
(***************************************************************************)
(* What the Twin projector promises of its publications.  Each is given    *)
(* one content when it is made, and made once; its content is delivered    *)
(* any number of times, on a topic that only grows; it is acknowledged     *)
(* when it was delivered.  An operator may withdraw all that are made: a   *)
(* withdrawn publication is never made again, and keeps the content it was *)
(* delivered with; one that was not delivered may lose it.                 *)
(***************************************************************************)
EXTENDS Naturals, Sequences

CONSTANTS Publications, Contents,
          NoContent   \* of a publication that has none

VARIABLES phase,      \* [Publications -> {"none", "pending", "acknowledged", "withdrawn"}]
          content,    \* the content of each, or NoContent
          topic       \* the deliveries: [id, state] events

vars == <<phase, content, topic>>

Init == /\ phase = [p \in Publications |-> "none"]
        /\ content = [p \in Publications |-> NoContent]
        /\ topic = <<>>

Delivered(p) == \E i \in 1..Len(topic) : topic[i].id = p

Make(p) == /\ phase[p] = "none"
           /\ phase' = [phase EXCEPT ![p] = "pending"]
           /\ \E c \in Contents \ {NoContent} : content' = [content EXCEPT ![p] = c]
           /\ UNCHANGED topic

(* A delivery under way is not stopped by the withdrawal.                  *)
Deliver(p) == /\ phase[p] \in {"pending", "withdrawn"}
              /\ content[p] # NoContent
              /\ topic' = Append(topic, [id |-> p, state |-> content[p]])
              /\ UNCHANGED <<phase, content>>

Acknowledge(p) == /\ phase[p] = "pending"
                  /\ Delivered(p)
                  /\ phase' = [phase EXCEPT ![p] = "acknowledged"]
                  /\ UNCHANGED <<content, topic>>

Forgetting(lost) == content' = [p \in Publications |-> IF p \in lost THEN NoContent ELSE content[p]]

Withdraw == /\ phase' = [p \in Publications |-> IF phase[p] = "none" THEN "none" ELSE "withdrawn"]
            /\ \E lost \in SUBSET {p \in Publications : ~Delivered(p)} : Forgetting(lost)
            /\ UNCHANGED topic

(* The delivery that was under way is given up.                            *)
Abandon(p) == /\ phase[p] = "withdrawn"
              /\ ~Delivered(p)
              /\ Forgetting({p})
              /\ UNCHANGED <<phase, topic>>

Next == Withdraw \/ \E p \in Publications : Make(p) \/ Deliver(p) \/ Acknowledge(p) \/ Abandon(p)

Spec == Init /\ [][Next]_vars
===============================================================================
