----------------------------- MODULE MCDelivery -----------------------------
(* Two instances and one task, which the page shows, in three deployments: *)
(* through RabbitMQ two events with one attempt each and one fault, or one *)
(* event with two attempts and two faults; locally two events and a page.  *)
EXTENDS Delivery

CONSTANTS i1, i2, t1

MCInstances == {i1, i2}
MCTasks == {t1}
MCLastSeq == [t \in MCTasks |-> 2]
MCDeployments ==
  {[transport |-> "rabbitmq", attempts |-> 1, consumers |-> {i1},
    events |-> 2, faults |-> 1, opens |-> 0],
   [transport |-> "rabbitmq", attempts |-> 2, consumers |-> {i1, i2},
    events |-> 1, faults |-> 2, opens |-> 0],
   [transport |-> "local", attempts |-> 2, consumers |-> {},
    events |-> 2, faults |-> 1, opens |-> 2]}
=============================================================================
