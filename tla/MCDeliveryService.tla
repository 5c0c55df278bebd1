-------------------------- MODULE MCDeliveryService --------------------------
(* DeliveryService with two requests at once over three deliveries.        *)
EXTENDS DeliveryService

CONSTANTS u1, u2, w1, w2

Row(i, s, r) == [id |-> i, sender |-> s, receiver |-> r]
ThreeDeliveries == {Row(1, u1, u2), Row(2, u2, u1), Row(3, u1, u1)}
=============================================================================
