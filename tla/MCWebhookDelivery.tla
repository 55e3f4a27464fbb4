-------------------------- MODULE MCWebhookDelivery --------------------------
(* A key of each set and one of neither; a body with a number and a dot. *)
EXTENDS WebhookDelivery

CONSTANT x

MCKeys == {"k65", "k87", "short"}
MCSetOf == [k65 |-> "ml-dsa-65", k87 |-> "ml-dsa-87", short |-> "other"]
MCKidOf == [k65 |-> "kid65", k87 |-> "kid87", short |-> "kid65"]
MCChars == {x, 4, Dot}
MCBodies == {<<x>>, <<4, Dot, x>>}
MCDecimal == [n \in 0..99 |-> IF n < 10 THEN <<n>> ELSE <<n \div 10, n % 10>>]
MCSkews == {2}
================================================================================
