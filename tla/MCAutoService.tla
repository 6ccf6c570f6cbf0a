--------------------------- MODULE MCAutoService ---------------------------
(* Instances of AutoService for TLC. *)
EXTENDS AutoService

CONSTANTS c1, c2, t1, t2

(* One thread puts two channels in autoservice, as the one that dials does. *)
TwoChannels == {<<t1, c1>>, <<t1, c2>>}

(* Two threads, for instance the channel's own and one of the manager      *)
(* interface, use the same channel.                                        *)
OneChannel == {<<t1, c1>>, <<t2, c1>>}
=============================================================================
