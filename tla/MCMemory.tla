------------------------------- MODULE MCMemory -------------------------------
(***************************************************************************)
(* Memory in miniature: bytes of one bit, words of three bytes.            *)
(***************************************************************************)
EXTENDS Memory

Pushes == [op : {"push"}, n : Sizes, srcs : {<<"r0">>, <<SP>>, <<"r0", SP>>, <<"null", "r0">>}]
Pops == [op : {"pop"}, n : Sizes, dsts : {<<"r0">>, <<SP>>, <<"r0", "r0">>, <<"null", "r0">>}]
Loads == [op : {"load"}, n : Sizes, dsts : {<<"r0">>, <<"r0", SP>>}, a : {"r0"}]
Stores == [op : {"store"}, n : Sizes, srcs : {<<"r0">>, <<SP>>, <<"r0", SP>>}, a : {"r0"}]

MCInstrs == Pushes \cup Pops \cup Loads \cup Stores
MCValues == {WordOf[v] : v \in {0, 3, MemSize, AddrSpace - 1}}
MCImages == {[k \in 1 .. n |-> k % 2 ^ ByteBits] : n \in {0, MemSize, MemSize + 1}}
=============================================================================
