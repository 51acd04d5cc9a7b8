---------------------------- MODULE MCTlsClient ----------------------------
(* TlsClient with answers around the sizes of its buffers. *)
EXTENDS TlsClient

\* No header, one that ends in the first read, one that needs two, one that fills the
\* buffer, one that is too long; with a true length, none, a smaller and a larger one.
MCAnswers ==
  [head : {0, 2, 4, 6}, length : {NoLength, 0, 2, 4}, body : {0, 2, 4}]
=============================================================================
