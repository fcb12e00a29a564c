--------------------------- MODULE MCStreamFrames ---------------------------
EXTENDS StreamFrames

\* One of each type; an IDR picture that needs two PES packets, a P picture
\* whose last block is one cell and another that needs two PES packets.
Units ==
  {[type |-> "SPS", size |-> 1], [type |-> "PPS", size |-> 1],
   [type |-> "IDR", size |-> 12], [type |-> "PFRAME", size |-> 5],
   [type |-> "PFRAME", size |-> 9], [type |-> "other", size |-> 1]}
=============================================================================
