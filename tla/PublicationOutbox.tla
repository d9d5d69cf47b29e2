--------------------------- MODULE PublicationOutbox ---------------------------
(***************************************************************************)
(* What the control plane promises of the lifecycles it publishes.  Some   *)
(* lifecycles of a Run are topics.  The step that enters one records the   *)
(* intent to publish it; only what has an intent is published, any number  *)
(* of times; and an intent is done when its topic was published.  A topic  *)
(* is thus published only of a Run that entered it, however late.          *)
(***************************************************************************)
CONSTANTS Lifecycles, Topics,
          Renewable   \* the topics whose intent every entry makes pending again

VARIABLES lifecycle,
          intent,     \* [Topics -> {"none", "pending", "failed", "published"}]
          published   \* the topics that were published

vars == <<lifecycle, intent, published>>

Init == /\ lifecycle \in Lifecycles \ Topics
        /\ intent = [t \in Topics |-> "none"]
        /\ published = {}

Enter(t) == /\ lifecycle' = t
            /\ intent' = [intent EXCEPT ![t] = IF @ = "none" \/ t \in Renewable
                                               THEN "pending" ELSE @]
            /\ UNCHANGED published

Leave == /\ lifecycle' \in Lifecycles \ Topics
         /\ UNCHANGED <<intent, published>>

(* One who has seen the intent publishes, wherever the Run is by then.     *)
Publish(t) == /\ intent[t] # "none"
              /\ published' = published \cup {t}
              /\ UNCHANGED <<lifecycle, intent>>

MarkPublished(t) == /\ intent[t] # "none" /\ t \in published
                    /\ intent' = [intent EXCEPT ![t] = "published"]
                    /\ UNCHANGED <<lifecycle, published>>

(* A publication that failed, or seemed to.                                *)
MarkFailed(t) == /\ intent[t] # "none"
                 /\ intent' = [intent EXCEPT ![t] = "failed"]
                 /\ UNCHANGED <<lifecycle, published>>

Next == Leave \/ \E t \in Topics : Enter(t) \/ Publish(t) \/ MarkPublished(t) \/ MarkFailed(t)

Spec == Init /\ [][Next]_vars
===============================================================================
