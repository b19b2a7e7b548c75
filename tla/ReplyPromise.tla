----------------------------- MODULE ReplyPromise -----------------------------
(***************************************************************************)
(* What the node broker promises a caller about each request it puts an id *)
(* on, without tables, broker ids or tasks.  A request is refused at once  *)
(* or accepted; an accepted one is forwarded to one connection; and it is  *)
(* settled once, by that connection's answer to it, by an error, or        *)
(* silently (the caller leaves, or cannot be told).  Nothing comes back    *)
(* before it is settled by it, and nothing after.  NodeRouting implements  *)
(* it.                                                                     *)
(***************************************************************************)
CONSTANTS Conn, Request, None

VARIABLES
  stage,      \* stage[r] \in {"new", "accepted", "waiting", "settled"}
  responder,  \* responder[r]: the connection r was forwarded to
  replies     \* replies[r]: what came back

vars == <<stage, responder, replies>>

Init ==
  /\ stage = [r \in Request |-> "new"]
  /\ responder = [r \in Request |-> None]
  /\ replies = [r \in Request |-> <<>>]

Moves(r, from, to) == stage[r] = from /\ stage' = [stage EXCEPT ![r] = to]
Tells(r, m) == replies[r] = <<>> /\ replies' = [replies EXCEPT ![r] = <<m>>]

Error == [kind |-> "error", from |-> None, to |-> None]

\* The responder's answer to r, or what it wrote without having been asked.
Answers(r) == [kind : {"answer"}, from : {responder[r]}, to : {r, None}]

Accept(r) == Moves(r, "new", "accepted") /\ UNCHANGED <<responder, replies>>

Refuse(r) ==
  /\ Moves(r, "new", "settled")
  /\ Tells(r, Error) \/ UNCHANGED replies
  /\ UNCHANGED responder

Forward(r, c) ==
  /\ Moves(r, "accepted", "waiting")
  /\ responder' = [responder EXCEPT ![r] = c]
  /\ UNCHANGED replies

Settle(r) ==
  /\ Moves(r, "waiting", "settled")
  /\ \E m \in Answers(r) \cup {Error} : Tells(r, m)
  /\ UNCHANGED responder

\* Any number of requests, those of a caller that leaves among them.
Abandon(S) ==
  /\ \A r \in S : stage[r] = "waiting"
  /\ stage' = [r \in Request |-> IF r \in S THEN "settled" ELSE stage[r]]
  /\ UNCHANGED <<responder, replies>>

Next ==
  \/ \E r \in Request : Accept(r) \/ Refuse(r) \/ Settle(r) \/ \E c \in Conn : Forward(r, c)
  \/ \E S \in SUBSET Request : Abandon(S)

Spec == Init /\ [][Next]_vars
=============================================================================
