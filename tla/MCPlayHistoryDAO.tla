-------------------------- MODULE MCPlayHistoryDAO --------------------------
(* PlayHistoryDAO for TLC: one song id that both platforms know.           *)
EXTENDS PlayHistoryDAO, TLC

MCSongs ==
  {[song_id |-> "1", where |-> "QQ", singer |-> "x"],
   [song_id |-> "1", where |-> "NetEase", singer |-> "y"]}

Symmetry == Permutations(Threads) \cup Permutations(Conns) \cup Permutations(Users)
=============================================================================
