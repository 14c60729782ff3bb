------------------------------ MODULE MCStore ------------------------------
\* One device with a ring that wraps, and two subscribers.
EXTENDS Store, TLC

MCSessions == {1}
MCValues == {-1, 3}
MCMinInt == -16

Interchangeable == Permutations(SubscriberIds)
=============================================================================
