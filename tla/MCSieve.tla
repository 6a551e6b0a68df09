------------------------------ MODULE MCSieve -------------------------------
(* Sampled positions of the sieve for TLC.                                   *)
EXTENDS Sieve

At(K, s, e, a, b, c, rs, ap) ==
  [K |-> K, startSHIFT |-> s, entry |-> e, i43 |-> a, i47 |-> b, i53 |-> c,
   rows |-> rs, known |-> ap]

(* The positions of four progressions of cpu/test_*.txt: their windows lie   *)
(* in the first word, in the last two, and in a second range of 640 shifts.  *)
FirstWord == At(366384, 0, <<1, 9, 15, 1, 0>>, 6, 13, 27, 1, Dec(<<6252, 792570, 914711>>))
LastWords ==
  At(44121555, 0, <<5, 2, 16, 0, 2>>, 12, 4, 5, 1, Dec(<<156613, 325124, 941593>>))
LastWord ==
  At(47715109, 0, <<0, 4, 13, 0, 0>>, 9, 19, 26, 1, Dec(<<161004, 359399, 459161>>))
SecondRange ==
  At(81292139, 640, <<1, 8, 13, 1, 0>>, 12, 12, 9, 2, Dec(<<242720, 302537, 486841>>))

(* The ends of the loops, for the smallest K and for the largest one that    *)
(* the sources allow for the products of the prologue (cuda/AP26.h:99).      *)
LargestK == 1048929854
FirstEntry == At(1, 0, <<0, 0, 0, 0, 0>>, 2, 1, 1, 2, Zero)
NearLastRow == At(LargestK, 640, <<6, 12, 16, 1, 3>>, 1, 2, 1, 2, Zero)
LastRow == At(LargestK, 0, <<6, 10, 12, 1, 3>>, 1, 1, 1, 2, Zero)

(* The last range of shifts whose candidates, and the products of the tables  *)
(* with MOD, are words of 64 bits.                                           *)
LastRange == At(1, 70704, <<0, 0, 0, 0, 0>>, 2, 1, 1, 1, Zero)

(* Every build at one position, and at the others those where the words of   *)
(* their tables differ; the ends of the loops for one of each width.         *)
MCSamples ==
  (CPU \X {LastWords}) \cup (Kernel \X {FirstWord})
    \cup ({"sse41", "avx", "avx512"} \X {SecondRange})
    \cup ({"sse2", "std"} \X {LastRange})
    \cup {<<"avx512", FirstWord>>, <<"avx512", LastWord>>, <<"avx512", NearLastRow>>,
           <<"avx2", FirstEntry>>, <<"sse41", LastRow>>, <<"mid", LastRow>>,
           <<"clnv", LastWords>>, <<"clnv", NearLastRow>>}
=============================================================================
