---------------------------- MODULE MCDeliveries ----------------------------
EXTENDS Deliveries, TLC

\* One delivery; two events, each told to a destination of its own.
Single == <<"discord">>
SingleEvent == <<"stopped">>
TwoDestinations == <<"discord", "email">>
TwoEvents == <<"stopped", "started">>

WorkersAlike == Permutations(Workers)
=============================================================================
