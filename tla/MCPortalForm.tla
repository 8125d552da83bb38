---------------------------- MODULE MCPortalForm ----------------------------
(* PortalForm on devices that start without a network, or with one that has  *)
(* two API endpoints.                                                        *)
EXTENDS PortalForm, TLC

CONSTANTS a, b, t1, t2, t3

TwoApis == [id |-> 1, name |-> a, secret |-> a,
            apis |-> <<[id |-> 2, name |-> a, secret |-> a],
                       [id |-> 3, name |-> b, secret |-> b]>>]
OneApi == [TwoApis EXCEPT !.apis = SubSeq(@, 1, 1)]
OneMinute == [bw |-> TRUE, partials |-> 2, refresh |-> 1]
AnyChoice == {OneMinute, [OneMinute EXCEPT !.bw = FALSE], [OneMinute EXCEPT !.partials = 1]}

\* Careful users of a new device and of one with two endpoints, and a hasty one
\* with two pages open.
Careful0 == [stored |-> <<>>, names |-> {a, b}, panels |-> AnyChoice, tabs |-> {t3}, edits |-> 3,
             resubmits |-> FALSE]
Hasty == [stored |-> <<OneApi>>, names |-> {a}, panels |-> {}, tabs |-> {t1, t2}, edits |-> 2,
          resubmits |-> TRUE]
MCUsers == {Careful0, [Careful0 EXCEPT !.stored = <<TwoApis>>], Hasty}
Pages == Permutations({t1, t2})
=============================================================================
