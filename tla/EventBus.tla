------------------------------ MODULE EventBus ------------------------------
(* The rings of the event bus, core/bus/event_bus.rs. Each event type has one   *)
(* broadcast channel: publishing never waits, the ring keeps the newest         *)
(* RingSize events, and every receiver has a cursor of its own. A publisher is  *)
(* modelled by the sequence of what it published; n below is its length.        *)
EXTENDS Integers, Sequences

CONSTANT RingSize                \* DEFAULT_CHANNEL_CAPACITY, 256

ASSUME RingAssumption == RingSize \in Nat \ {0}

\* The oldest position that is still in the ring.
Oldest(n) == IF n > RingSize THEN n - RingSize + 1 ELSE 1

\* A new receiver sees only what is published from now on.
Subscribe(n) == n + 1

\* recv() has something to return: an event, or the notice that some are gone.
Ready(c, n) == c <= n

\* The receiver at cursor c is behind the ring: recv() returns Lagged and moves
\* the cursor to the oldest event left. subscribe_many() swallows that notice.
Overrun(c, n) == c < Oldest(n)
Missed(c, n) == c .. (Oldest(n) - 1)
=============================================================================
