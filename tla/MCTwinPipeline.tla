---------------------------- MODULE MCTwinPipeline ----------------------------
(* Two frames of two tags, the second of a dynamic reactor, and a result.  *)
EXTENDS TwinPipeline

CONSTANTS t1, t2
MCTags == {t1, t2}
MCMeasured == <<[tag |-> t1, at |-> 1, dynamic |-> FALSE], [tag |-> t2, at |-> 2, dynamic |-> TRUE]>>
OneResult == <<[at |-> 1, decodes |-> TRUE]>>
===============================================================================
