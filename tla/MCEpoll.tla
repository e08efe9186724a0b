------------------------------- MODULE MCEpoll -------------------------------
(* Instances of Epoll for TLC. *)
EXTENDS Epoll, TLC

(* Handles of one kind are interchangeable. *)
KindSymmetry ==
  Permutations(EpollObj) \cup Permutations(Watched) \cup Permutations(DirObj)
=============================================================================
