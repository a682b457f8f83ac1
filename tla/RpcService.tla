----------------------------- MODULE RpcService -----------------------------
(***************************************************************************)
(* What a JSON-RPC server promises its client: the requests are answered   *)
(* in the order they were sent, none is skipped, none is answered twice.   *)
(***************************************************************************)
EXTENDS Naturals, Sequences, SequencesExt

VARIABLES
    asked,    \* the requests, in the order the client sent them
    answered  \* the requests answered, in the order of the answers

Init == asked = <<>> /\ answered = <<>>

Ask ==
    /\ asked' \in Seq(Nat)
    /\ Len(asked') = Len(asked) + 1
    /\ IsPrefix(asked, asked')
    /\ UNCHANGED answered

Answer ==
    /\ Len(answered) < Len(asked)
    /\ answered' = Append(answered, asked[Len(answered) + 1])
    /\ UNCHANGED asked

Next == Ask \/ Answer

Spec == Init /\ [][Next]_<<asked, answered>>
=============================================================================
