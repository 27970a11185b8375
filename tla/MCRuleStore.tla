---------------------------- MODULE MCRuleStore ----------------------------
EXTENDS RuleStore, TLC

E130 == <<"E", "130">>

\* No rule; a rule for object 1 with a code of its own in one zone, the object 0
\* unknown; and a rule for everyone with a zone, filed under the object 0.
MCSeeds == {[known |-> Objects, rule |-> NoRule],
            [known |-> {1},
             rule |-> [NoRule EXCEPT !.enabled = TRUE, !.objects = {1}, !.codes = {E130},
                                     !.objCodes = {<<1, E130>>}, !.zones = {<<1, E130, 1>>}]],
            [known |-> Objects,
             rule |-> [NoRule EXCEPT !.enabled = TRUE, !.codes = {<<"", "130">>},
                                     !.zones = {<<Everyone, <<"", "130">>, 1>>}]]}
MCCodes == {E130}
Symm == Permutations(Calls)
=============================================================================
