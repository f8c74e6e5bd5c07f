-------------------------------- MODULE Rpc ---------------------------------
(***************************************************************************)
(* What Client::execute promises its caller: a call is run at most once,   *)
(* and if it returns an answer, then it was run, and the answer shows what *)
(* that run returned.  A call that ends in a connection error may have     *)
(* been run, or may be run later.                                          *)
(***************************************************************************)
EXTENDS Integers, Sequences

CONSTANTS
    Client,
    Answers,        \* of each request, what running it may return
    Shows(_)        \* what the caller sees of that

VARIABLE calls

Open    == [kind |-> "open"]
Lost    == [kind |-> "lost"]
Refused == [kind |-> "refused"]
Returned(result) == [kind |-> "returned", result |-> result]

NewCall(c, r, outcome) == [by |-> c, request |-> r, runs |-> <<>>, outcome |-> outcome]

Free(c) == \A i \in DOMAIN calls : calls[i].by = c => calls[i].outcome # Open

Init == calls = <<>>

Call(c, r) ==
    /\ Free(c)
    /\ \E outcome \in {Open, Refused} : calls' = Append(calls, NewCall(c, r, outcome))

Run(i) ==
    /\ calls[i].runs = <<>> /\ calls[i].outcome # Refused
    /\ \E result \in Answers[calls[i].request] : calls' = [calls EXCEPT ![i].runs = <<result>>]

Return(i) ==
    /\ calls[i].outcome = Open /\ calls[i].runs # <<>>
    /\ calls' = [calls EXCEPT ![i].outcome = Returned(Shows(calls[i].runs[1]))]

Lose(i) ==
    /\ calls[i].outcome = Open
    /\ calls' = [calls EXCEPT ![i].outcome = Lost]

Next == \/ \E c \in Client, r \in DOMAIN Answers : Call(c, r)
        \/ \E i \in DOMAIN calls : Run(i) \/ Return(i) \/ Lose(i)

Spec == Init /\ [][Next]_calls
=============================================================================
