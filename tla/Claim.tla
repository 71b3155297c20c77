------------------------------- MODULE Claim -------------------------------
(***************************************************************************)
(* What checkAndRecord() of the idempotency service promises to the        *)
(* callers that use the same key: while a record of the key exists only    *)
(* the caller that created it is told to go ahead, and a caller is told    *)
(* that it repeats a request only if another one went ahead.               *)
(***************************************************************************)
CONSTANT Caller

VARIABLES
    claimed,  \* a record of the key exists
    answer    \* answer[c]: what caller c was told

Init == claimed = FALSE /\ answer = [c \in Caller |-> "none"]

GoAhead(c) ==
    /\ ~claimed /\ answer[c] = "none"
    /\ claimed' = TRUE
    /\ answer' = [answer EXCEPT ![c] = "first"]

Repeats(c) ==
    /\ answer[c] = "none"
    /\ \E d \in Caller : answer[d] = "first"
    /\ answer' = [answer EXCEPT ![c] = "duplicate"]
    /\ UNCHANGED claimed

Expire == claimed /\ claimed' = FALSE /\ UNCHANGED answer

Next == Expire \/ \E c \in Caller : GoAhead(c) \/ Repeats(c)

Spec == Init /\ [][Next]_<<claimed, answer>>
=============================================================================
