------------------------------- MODULE MCMd5 --------------------------------
(***************************************************************************)
(* Instances of Md5 for TLC.  The strings are runs of code points: the     *)
(* lengths around the ends of a block, the three widths beyond ASCII, and  *)
(* keys that fill a block and that exceed it.  The digests are those of    *)
(* RFC 1321 for "", "a", "abc" and the alphabet, and those that another    *)
(* implementation of the two algorithms gives for the others.              *)
(***************************************************************************)
EXTENDS Md5

Run(c, n) == [k \in 1 .. n |-> c + k - 1]

\* First code point and length of the string, those of the key, raw, digest
Vectors == {
    <<Run(97, 0), Run(0, 0), FALSE,
      <<\hd41d, \h8cd9, \h8f00, \hb204, \he980, \h0998, \hecf8, \h427e>>>>,
    <<Run(97, 1), Run(0, 0), FALSE,
      <<\h0cc1, \h75b9, \hc0f1, \hb6a8, \h31c3, \h99e2, \h6977, \h2661>>>>,
    <<Run(97, 3), Run(0, 0), TRUE,
      <<\h9001, \h5098, \h3cd2, \h4fb0, \hd696, \h3f7d, \h28e1, \h7f72>>>>,
    <<Run(97, 26), Run(0, 0), FALSE,
      <<\hc3fc, \hd3d7, \h6192, \he400, \h7dfb, \h496c, \hca67, \he13b>>>>,
    <<Run(32, 55), Run(0, 0), FALSE,
      <<\h46f3, \hf12d, \he95f, \h9735, \h4852, \h8a7f, \hc4a7, \h129a>>>>,
    <<Run(32, 56), Run(0, 0), FALSE,
      <<\h1b9d, \h5453, \hfad1, \ha2a6, \h31b3, \h121f, \h969d, \h32c4>>>>,
    <<Run(32, 63), Run(0, 0), FALSE,
      <<\h3bde, \hf5cd, \h7fa1, \ha4c0, \h003a, \hdce4, \hd0ec, \h505b>>>>,
    <<Run(32, 64), Run(0, 0), FALSE,
      <<\hc654, \ha196, \h5b31, \h2dde, \he3bd, \h884e, \h044a, \h7658>>>>,
    <<Run(48, 120), Run(0, 0), FALSE,
      <<\h4865, \h152b, \h9fcd, \hab44, \h45c3, \h861e, \h99c7, \h55b9>>>>,
    <<Run(31649, 2), Run(0, 0), FALSE,
      <<\h2124, \h4cd9, \hb8d7, \h3edf, \h4f98, \had56, \h0b4d, \h7475>>>>,
    <<Run(128512, 2), Run(0, 0), FALSE,
      <<\h649b, \h836a, \h5bd4, \h5912, \h6756, \hd92c, \ha63f, \hb66d>>>>,
    <<Run(65, 8), Run(11, 16), FALSE,
      <<\hcb74, \h1eb3, \hdac0, \h563d, \h25e7, \hdabc, \ha00e, \h4c6d>>>>,
    <<Run(65, 60), Run(33, 64), TRUE,
      <<\h1807, \hdda0, \h69c0, \h2fb0, \h1469, \h5c08, \ha519, \h6b2d>>>>,
    <<Run(65, 5), Run(33, 65), FALSE,
      <<\h48a2, \h4951, \h4fa5, \h5220, \h6011, \h99de, \h5642, \h4e19>>>>}

Call(v) == [string |-> v[1], key |-> v[2], raw |-> v[3]]

MCJobs == {Call(v) : v \in Vectors}
MCKnown == [j \in MCJobs |-> (CHOOSE v \in Vectors : Call(v) = j)[4]]
=============================================================================
