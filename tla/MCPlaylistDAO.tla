---------------------------- MODULE MCPlaylistDAO ----------------------------
(* PlaylistDAO for TLC: one song id that both platforms know. *)
EXTENDS PlaylistDAO, TLC

MCSongs == [song_id : {"1"}, where : {"QQ", "NetEase"}]
MCUsers == {1}
MCUserIds == {1, 2}

Symmetry == Permutations(Threads) \cup Permutations(Conns) \cup Permutations(Infos)
=============================================================================
