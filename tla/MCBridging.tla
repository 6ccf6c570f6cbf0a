----------------------------- MODULE MCBridging -----------------------------
(* The ways a small bridge is used.                                         *)
EXTENDS Bridging

NoSwaps == [c \in Chans |-> {}]

Plain == [flags |-> {}, joins |-> Chans, hooks |-> {}, drops |-> {},
          ends |-> Chans, swaps |-> NoSwaps, calls |-> {}]

\* Two channels with features, each of which plays digits to the other.
Features == [Plain EXCEPT !.joins = {"a", "b"}, !.hooks = {"a", "b"}]

\* A conference of up to three channels.
Conference == [Plain EXCEPT !.flags = {"SMART"}, !.ends = {"a", "b"},
                            !.calls = {"depart"}]

\* One channel takes the place of another, or is removed.
Swapped == [Plain EXCEPT !.swaps["c"] = {"a"}, !.calls = {"remove"}]

\* A smart bridge that switches music on hold on a suspended channel.
OnHold == [Plain EXCEPT !.flags = {"SMART"}, !.ends = {"a"}, !.calls = {"suspend"}]

\* A two party bridge that dissolves, and is destroyed.
TwoParty == [Plain EXCEPT !.flags = {"DISSOLVE"}, !.joins = {"a", "b"},
                          !.calls = {"suspend", "destroy"}]

\* The bridge of an attended transfer: the one that transfers, with features,
\* and the one that was called, who takes the bridge with it.
Transfer == [Plain EXCEPT !.joins = {"a", "b"}, !.hooks = {"a"}, !.drops = {"b"},
                          !.calls = {"depart", "destroy"}]

AllUses == {Features, Conference, Swapped, OnHold, TwoParty, Transfer}
=============================================================================
