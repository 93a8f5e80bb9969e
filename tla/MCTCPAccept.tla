---------------------------- MODULE MCTCPAccept ----------------------------
EXTENDS TCPAccept, TLC

=============================================================================
