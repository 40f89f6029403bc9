----------------------------- MODULE MCKeyboard -----------------------------
EXTENDS Keyboard

Key(k, colour) == [key |-> k, colour |-> colour]
Map(entries) == [verb |-> "set-map", entries |-> entries]

\* A partial map, every key in two frames, one that the CLI accepts and the daemon
\* does not (repeated, out of range), and one that the CLI refuses.
SomeRequests ==
  {Map(<<Key(1, "red")>>), [verb |-> "set-all", colour |-> "red"], [verb |-> "identify", key |-> 1],
   Map(<<Key(0, "red"), Key(0, "dark")>>), Map(<<Key(3, "red")>>), Map(<<Key(0, "mauve")>>)}
=============================================================================
