---------------------------- MODULE MCMemStream -----------------------------
(***************************************************************************)
(* A block of 2, 4 and at most 7 bytes, as 4096, 2^30 and 2^31 - 1; sums   *)
(* wrap at 16, as at 2^32.  A buffer of 9 bytes is negative as a long, one *)
(* of 17 has a size * count of 1.                                          *)
(***************************************************************************)
EXTENDS MemStream

MCImages == {<<"a">>, <<"a", "b", "c">>}
MCBuffers == {<<"d">>, <<"e", "f", "g">>, [k \in 1 .. 9 |-> "x"], [k \in 1 .. 17 |-> "y"]}
MCRequests == {[size |-> 1, count |-> 2], [size |-> 2, count |-> 2], [size |-> 3, count |-> 0]}

=============================================================================
