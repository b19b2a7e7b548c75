---------------------------- MODULE MCTopicBroker ----------------------------
(* Instances of TopicBroker for TLC: who is connected and what each client does. *)
EXTENDS TopicBroker, TLC

CONSTANTS c1, c2, c3, s1, s2, t1, n1, n2, u1

OpenTopic    == t1 :> None
PrivateTopic == t1 :> s1

Plan(p) == [v \in Verb |-> IF v \in DOMAIN p THEN p[v] ELSE 0]

\* c1 publishes; c2 subscribes under s1; c3 is c2's successor under s1.
RestartBudget ==
  (c1 :> Plan([publish |-> 2])) @@
  (c2 :> Plan([register |-> 1, subscribe |-> 1, ui |-> 1, fail |-> 1, disconnect |-> 1]))
  @@ (c3 :> Plan([register |-> 1, subscribe |-> 1, unsubscribe |-> 1, ui |-> 1]))

\* A publisher and a subscriber that may leave, or die, under another name than
\* the one they used.
JanitorBudget ==
  (c1 :> Plan([publish |-> 1, volatile |-> 1, disconnect |-> 1])) @@
  (c2 :> Plan([subscribe |-> 1, register |-> 1, fail |-> 1, disconnect |-> 1]))

\* c1 owns the private topic t1 and grants slices of it to the holder of s2.
GrantBudget ==
  (c1 :> Plan([register |-> 1, publish |-> 2, grant |-> 2, clear |-> 1])) @@
  (c2 :> Plan([register |-> 1, fail |-> 1])) @@
  (c3 :> Plan([register |-> 1, unsubscribe |-> 1]))

\* Two publishers of one topic, one of which restarts, and a subscriber.
PublishersBudget ==
  (c1 :> Plan([register |-> 1, publish |-> 1, deregister |-> 1])) @@
  (c2 :> Plan([register |-> 1, publish |-> 1, volatile |-> 1, disconnect |-> 1])) @@
  (c3 :> Plan([subscribe |-> 1, clear |-> 1]))

ActiveBudget ==
  (c1 :> Plan([publish |-> 1, volatile |-> 1])) @@
  (c2 :> Plan([subscribe |-> 1, unsubscribe |-> 1, fail |-> 1]))

DroppedBudget ==
  (c1 :> Plan([volatile |-> 1])) @@
  (c2 :> Plan([subscribe |-> 1, unsubscribe |-> 1])) @@
  (c3 :> Plan([subscribe |-> 1]))

TablesBudgets  == {RestartBudget, PublishersBudget}
JanitorBudgets == {JanitorBudget}
GrantBudgets   == {GrantBudget}
ActiveBudgets  == {ActiveBudget}
DroppedBudgets == {DroppedBudget}
=============================================================================
