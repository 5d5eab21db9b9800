---------------------------- MODULE MCInProcessTree ----------------------------
EXTENDS InProcessTreeProperties

Limits(min, max) == [min |-> min, max |-> max]

\* The flags of the layers from the root down to the hosts: none, of the hosts
\* only, of all layers.
FlagsUpTo(n, from) == [d \in 1 .. n |-> d >= from]

Layered(limits, reserve, backfill) ==
    [d \in DOMAIN limits |-> [min |-> limits[d].min, max |-> limits[d].max,
                              reserve |-> reserve[d], backfill |-> backfill[d]]]

InOrder == [l \in 0 .. 5 |-> l]
Reversed == [l \in 0 .. 5 |-> 5 - l]

\* Two hosts of three: a spare on each host, or both on the second.
TwoHosts ==
    {[layers |-> Layered(limits, FlagsUpTo(2, r), FlagsUpTo(2, b)),
      home |-> [l \in 0 .. 5 |-> <<0, l \div 3>>], env |-> InOrder, divisor |-> divisor] :
        limits \in {<<Limits(1, NoLimit), Limits(2, 2)>>, <<Limits(1, 4), Limits(1, NoLimit)>>},
        r \in 1 .. 3, b \in 1 .. 3, divisor \in {1, 2}}

\* Hosts of two, two, one and one: the lone leaves are terminated in the first
\* call, in the order the launcher has given them.
LoneLeaves ==
    {[layers |-> Layered(<<Limits(1, NoLimit), Limits(2, 1)>>, FlagsUpTo(2, r), FlagsUpTo(2, b)),
      home |-> [l \in 0 .. 5 |-> <<0, IF l < 4 THEN l \div 2 ELSE l>>],
      env |-> env, divisor |-> 1] :
        r \in {1, 3}, b \in {1, 3}, env \in {InOrder, Reversed}}

\* A rack of two hosts and a rack of one, all hosts of two.
Racks ==
    {[layers |-> Layered(<<Limits(3, NoLimit), Limits(2, 3), Limits(1, NoLimit)>>,
                         FlagsUpTo(3, r), FlagsUpTo(3, b)),
      home |-> [l \in 0 .. 5 |-> <<0, l \div 4, l \div 2>>], env |-> InOrder, divisor |-> 1] :
        r \in 1 .. 3, b \in 2 .. 4}

MCSetups == TwoHosts \cup LoneLeaves \cup Racks
=============================================================================
