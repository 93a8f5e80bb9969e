---------------------------- MODULE UDPBindings ----------------------------
(* What a client UDP port promises (cmd/tunnneji-tail/cli/tunnel.go,        *)
(* handleUDP): every local source address has at most one VPN connection    *)
(* bound to it at a time, a connection is bound to the one source it was    *)
(* dialed for, and a connection is released only once it is not bound any   *)
(* more, so that no datagram is ever routed onto a released connection.     *)
CONSTANTS Src,    \* local source addresses
          Conn,   \* VPN connections, each dialed at most once
          NoConn

VARIABLES bound,    \* bound[k]: the connection bound to source k, or NoConn
          open,     \* connections dialed and not yet released
          released  \* connections released

bvars == <<bound, open, released>>

BInit == /\ bound = [k \in Src |-> NoConn]
         /\ open = {}
         /\ released = {}

\* Dial a fresh connection for a source that has none.
Bind(k, c) == /\ bound[k] = NoConn
              /\ c \notin open \cup released
              /\ bound' = [bound EXCEPT ![k] = c]
              /\ open' = open \cup {c}
              /\ UNCHANGED released

\* Forget the connection of a source.
Unbind(k) == /\ bound[k] # NoConn
             /\ bound' = [bound EXCEPT ![k] = NoConn]
             /\ UNCHANGED <<open, released>>

\* Close a connection no source is bound to.
Release(c) == /\ c \in open
              /\ \A k \in Src : bound[k] # c
              /\ open' = open \ {c}
              /\ released' = released \cup {c}
              /\ UNCHANGED bound

BNext == \/ \E k \in Src, c \in Conn : Bind(k, c)
         \/ \E k \in Src : Unbind(k)
         \/ \E c \in Conn : Release(c)

BSpec == BInit /\ [][BNext]_bvars
=============================================================================
