---------------------------- MODULE MCInterrupts ----------------------------
EXTENDS Interrupts

CONSTANTS ann, bob, cb1, cb2, home, other

OneEach == [c \in {cb1, cb2} |-> IF c = cb1 THEN ann ELSE None]
=============================================================================
