---------------------------- MODULE MCArtifactForge ----------------------------
(* Two requests, under two keys: for one reactor in a session with room    *)
(* for both, over either store, and for two reactors in one with room for  *)
(* one.  Either Run may be stopped, that of the first completed.           *)
EXTENDS ArtifactForge

CONSTANTS k1, k2, r1, r2
TwoKeys == {k1, k2}
TwoReactors == {r1, r2}
FirstKey == {k1}

Session(store, f, room) == [backend |-> store, reactorOf |-> f, maxActive |-> room]
OneReactor == [k \in TwoKeys |-> r1]
EachItsOwn == [k \in TwoKeys |-> IF k = k1 THEN r1 ELSE r2]
ThreeSessions ==
  {Session("memory", OneReactor, 2), Session("postgres", OneReactor, 2), Session("memory", EachItsOwn, 1)}
PostgresSession == {Session("postgres", OneReactor, 2)}
===============================================================================
