----------------------------- MODULE ImportOrder -----------------------------
(***************************************************************************)
(* What import resolution promises: files are listed one at a time, each   *)
(* once and only when every file it imports is listed; the walk succeeds   *)
(* only with the main file listed, and nothing is listed after it ended.   *)
(***************************************************************************)
CONSTANTS Paths, Entry

VARIABLES deps, listed, outcome

orderVars == <<deps, listed, outcome>>

OrderInit == /\ deps \in [Paths -> SUBSET Paths]
             /\ listed = {} /\ outcome = "none"

List(p) == /\ outcome = "none" /\ p \notin listed /\ deps[p] \subseteq listed
           /\ listed' = listed \cup {p}
           /\ UNCHANGED <<deps, outcome>>

Succeed == /\ outcome = "none" /\ Entry \in listed
           /\ outcome' = "ok" /\ UNCHANGED <<deps, listed>>

GiveUp == /\ outcome = "none"
          /\ outcome' = "failed" /\ UNCHANGED <<deps, listed>>

OrderNext == (\E p \in Paths : List(p)) \/ Succeed \/ GiveUp

OrderSpec == OrderInit /\ [][OrderNext]_orderVars
=============================================================================
