------------------------------- MODULE MCFeed -------------------------------
\* Two metrics, ids of two bits, and a command of every sort.
EXTENDS Feed

MCCommands ==
  {<<Word("SUBSCRIBE"), Word("temp")>>, <<Word("UNSUBSCRIBE")>>, <<Word("STATS")>>}
  \union {<<Word("ACK"), Number(n)>> : n \in {-1, 5}}
  \union {<<Word("ACK"), Number(1), Number(2)>>}
=============================================================================
