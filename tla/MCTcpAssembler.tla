-------------------------- MODULE MCTcpAssembler ----------------------------
EXTENDS TcpAssembler
\* Byte p of the stream is p itself, so a byte out of place shows.
MCStream == [p \in Positions |-> p]
MCAlter == {2}
MCFinAt == {Size - 2, Size}
=============================================================================
