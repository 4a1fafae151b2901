---------------------------- MODULE MCRuntimeLink ----------------------------
(***************************************************************************)
(* Instance for TLC: two compilations, of two versions of the compiler,    *)
(* that may run at the same time, and one after them, all of one output.   *)
(***************************************************************************)
EXTENDS RuntimeLink

CONSTANTS one, two, last

MCNeeds == [c \in Compilations |-> IF c = last THEN {"crypto", "http"} ELSE {"crypto"}]
MCVersion == [c \in Compilations |-> IF c = one THEN 1 ELSE 2]
MCAfter == [c \in Compilations |-> IF c = last THEN {one, two} ELSE {}]
=============================================================================
