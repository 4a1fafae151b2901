----------------------------- MODULE MCAIControl -----------------------------
(***************************************************************************)
(* Model checking AIControl: the lines an AI may write.                    *)
(***************************************************************************)
EXTENDS AIControl

Cmd(key, cmd, args) == [key |-> key, cmd |-> cmd, hasArgs |-> TRUE, args |-> args]
NoArgs(key, cmd) == [key |-> key, cmd |-> cmd, hasArgs |-> FALSE, args |-> <<>>]

\* Lines with a key the parser accepts, well formed and not.
BareLines ==
    {Cmd("bare", "status", <<>>), NoArgs("bare", "set-profile")}
=============================================================================
