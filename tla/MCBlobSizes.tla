----------------------------- MODULE MCBlobSizes ----------------------------
(* Model-checking instance of BlobSizes at the real sizes.                 *)
EXTENDS BlobSizes

\* Around one and two chunks of the real size, and where a message is full.
RealLengths ==
  {1, 3145580, 3145590, 3145600} \cup 3145700 .. 3145760 \cup 6291450 .. 6291460
=============================================================================
