--------------------------- MODULE MCRabbitConsumer ---------------------------
(* Two bindings; the first brings a delivery that is not retried, then two   *)
(* copies of one message.                                                    *)
EXTENDS RabbitConsumer

CONSTANTS b1, b2, d1, d2, d3, m1, m2

MCBindings == <<b1, b2>>
MCCallers == {d1, d2, d3}
MCQueue == [b \in {b1, b2} |-> IF b = b1 THEN <<d1, d2, d3>> ELSE <<>>]
MCRetriable == {d2, d3}
MCMessageOf == [d \in MCCallers |-> IF d = d1 THEN m1 ELSE m2]
=============================================================================
