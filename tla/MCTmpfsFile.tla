---------------------------- MODULE MCTmpfsFile -----------------------------
(* TmpfsFile for TLC: two handles, a buffer that grows from 2 to 8 bytes, a  *)
(* size_t of four bits.                                                      *)
EXTENDS TmpfsFile

CONSTANTS h1, h2, a, b, junk

MCHandles == {h1, h2}
MCBytes == {a, b}

\* One byte, and more than the buffer holds at first
MCBuffers == {<<a>>, <<b, a, a>>}

\* Within the file, past its end, and wrapping from position 2 on
MCCounts == {1, 3, 14}
MCOffsets == {-1, 0, 2}
=============================================================================
