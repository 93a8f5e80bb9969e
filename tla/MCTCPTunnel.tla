---------------------------- MODULE MCTCPTunnel ----------------------------
EXTENDS TCPTunnel, TLC

CONSTANTS secret, other

\* Every combination of no password, equal and different passwords, up to a
\* renaming of the passwords.
MCSetting == {[client |-> NoPw, server |-> NoPw], [client |-> NoPw, server |-> secret],
              [client |-> secret, server |-> NoPw], [client |-> secret, server |-> secret],
              [client |-> secret, server |-> other]}
=============================================================================
