------------------------------ MODULE MCSystem ------------------------------
EXTENDS System, TLC

CONSTANTS alice, bob, c1, t1, t2, s1, s2

Calling(i, t, bound, stream) ==
    [id |-> i, ctx |-> c1, task |-> t, bound |-> bound, stream |-> stream]

\* One caller: a streaming call on one task, unary ones on another, with and
\* without a session of her own choice.
OneCaller ==
    {Calling(alice, t1, None, TRUE), Calling(alice, t2, None, FALSE), Calling(alice, t2, s1, FALSE)}

\* Two callers who bind to the same session or let the server choose.
TwoCallers ==
    {Calling(alice, t1, None, TRUE), Calling(alice, t1, s1, TRUE), Calling(bob, t2, s1, FALSE)}

\* One session, created by the first call: everybody ends up in its queue.
OneSession ==
    {Calling(alice, t1, None, TRUE), Calling(alice, t1, s1, TRUE)}

Symmetry == Permutations(Requests)
=============================================================================
