---------------------------- MODULE SubnetAddrs ----------------------------
(* The addresses registered on netstack's NIC: wrapTCPProtocolHandler and    *)
(* wrapUDPProtocolHandler register the destination of traffic that is not    *)
(* for the node itself, acceptTCP and forwardUDP give it back when they end, *)
(* and UpdateNetstackIPs installs the addresses of a new netmap              *)
(* (wgengine/netstack/netstack.go).                                          *)
EXTENDS Integers

CONSTANTS IP,           \* destination addresses
          TailscaleIP,  \* those in the Tailscale range, the 4via6 range excepted
          ServiceIP,    \* the addresses of the node's own services
          UnmapVia,     \* IP -> IP: the address behind a 4via6 address, else itself
          Netmap,       \* netmaps: the node's addresses, {} for none
          Conn,         \* packets that reach a protocol handler
          MaxUpdates    \* bound on the calls of UpdateNetstackIPs

(* ServiceIP \subseteq TailscaleIP \subseteq IP; the address behind a 4via6  *)
(* address is not in the Tailscale range; Netmap \subseteq SUBSET TailscaleIP. *)

VARIABLES
  counts,    \* connsOpenBySubnetIP, 0 where there is no entry
  keys,      \* addresses that have an entry
  nic,       \* addresses registered on the NIC
  local,     \* the addresses isLocalIP accepts
  pc,        \* Conn -> where the packet and the handler it starts are
  ip,        \* Conn -> destination
  kind,      \* Conn -> what is started for it
  gives,     \* Conn -> forwardUDP's isLocal
  updates,   \* calls of UpdateNetstackIPs so far
  upc,       \* where the running call is
  toAdd,     \* its pfxToAdd
  toRemove   \* its pfxToRemove

vars == <<counts, keys, nic, local, pc, ip, kind, gives, updates, upc, toAdd, toRemove>>
connVars == <<pc, ip, kind, gives>>
updateVars == <<local, updates, upc, toAdd, toRemove>>

\* A TCP connection, a UDP session, a UDP session to a port of ServeTargets, or
\* nothing: a repeated SYN, or a segment of no connection.
Kinds == {"tcp", "udp", "udpServed", "stray"}

PC == {"none", "add", "start", "open", "closed"}

Init == /\ counts = [a \in IP |-> 0]
        /\ keys = {}
        /\ nic = {}
        /\ local = {}
        /\ pc = [c \in Conn |-> "none"]
        /\ ip \in [Conn -> IP]
        /\ kind \in [Conn -> Kinds]
        /\ gives = [c \in Conn |-> FALSE]
        /\ updates = 0
        /\ upc = "idle"
        /\ toAdd = {}
        /\ toRemove = {}

(* ------------------------------ connections ---------------------------- *)

Handled(c) == IF kind[c] = "stray" THEN "closed" ELSE "start"

\* Mutant: every connection but the first finds the address registered.
AddSubnetAddressLate(c) ==
  /\ counts' = [counts EXCEPT ![ip[c]] = @ + 1]
  /\ keys' = keys \cup {ip[c]}
  /\ pc' = [pc EXCEPT ![c] = IF counts'[ip[c]] = 2 THEN "add" ELSE Handled(c)]

\* The part of addSubnetAddress under the lock.
addSubnetAddress(c) ==
  /\ counts' = [counts EXCEPT ![ip[c]] = @ + 1]
  /\ keys' = keys \cup {ip[c]}
  /\ pc' = [pc EXCEPT ![c] = IF counts'[ip[c]] = 1 THEN "add" ELSE Handled(c)]

\* A packet arrives; peers send packets once a first netmap is installed.
ProtocolHandler(c) ==
  /\ pc[c] = "none"
  /\ updates > 0
  /\ IF ip[c] \in local
       THEN /\ pc' = [pc EXCEPT ![c] = Handled(c)]
            /\ UNCHANGED <<counts, keys>>
       ELSE addSubnetAddress(c)
  /\ UNCHANGED <<nic, ip, kind, gives, updateVars>>

\* The rest of addSubnetAddress, after the unlock.
AddProtocolAddress(c) ==
  /\ pc[c] = "add"
  /\ nic' = nic \cup {ip[c]}
  /\ pc' = [pc EXCEPT ![c] = Handled(c)]
  /\ UNCHANGED <<counts, keys, ip, kind, gives, updateVars>>

\* The goroutine of acceptTCP or forwardUDP reads isLocalIP; acceptUDP starts
\* none for a service address.
Start(c) ==
  /\ pc[c] = "start"
  /\ pc' = [pc EXCEPT ![c] = "open"]
  /\ gives' = [gives EXCEPT ![c] = \/ kind[c] = "tcp" /\ ip[c] \notin TailscaleIP
                                   \/ kind[c] = "udp" /\ ip[c] \in local
                                   \/ kind[c] = "udpServed" /\ ip[c] \notin ServiceIP]
  /\ UNCHANGED <<counts, keys, nic, ip, kind, updateVars>>

removeSubnetAddress(a) ==
  /\ counts' = [counts EXCEPT ![a] = @ - 1]
  /\ IF counts'[a] = 0
       THEN nic' = nic \ {a} /\ keys' = keys \ {a}
       ELSE nic' = nic /\ keys' = keys \cup {a}

\* The connection or session ends and gives its address back; acceptTCP has
\* unmapped a 4via6 address by then.
Close(c) ==
  /\ pc[c] = "open"
  /\ gives[c]
  /\ pc' = [pc EXCEPT ![c] = "closed"]
  /\ removeSubnetAddress(IF kind[c] = "tcp" THEN UnmapVia[ip[c]] ELSE ip[c])
  /\ UNCHANGED <<ip, kind, gives, updateVars>>

\* It ends and gives nothing back: forwardUDP also returns early on an error.
CloseKeeping(c) ==
  /\ pc[c] = "open"
  /\ gives[c] => kind[c] # "tcp"
  /\ pc' = [pc EXCEPT ![c] = "closed"]
  /\ UNCHANGED <<counts, keys, nic, ip, kind, gives, updateVars>>

(* --------------------------- UpdateNetstackIPs ------------------------- *)

\* isLocalIP is replaced and the addresses on the NIC are read.
UpdateBegins(nm) ==
  /\ upc = "idle"
  /\ updates < MaxUpdates
  /\ updates = 0 => nm # {}
  /\ updates' = updates + 1
  /\ local' = nm
  /\ toAdd' = nm \ nic
  /\ toRemove' = nic \ nm
  /\ upc' = "filter"
  /\ UNCHANGED <<counts, keys, nic, connVars>>

\* Under the lock: addresses with an entry in connsOpenBySubnetIP are kept.
UpdateFilters ==
  /\ upc = "filter"
  /\ toRemove' = toRemove \ keys
  /\ upc' = "apply"
  /\ UNCHANGED <<counts, keys, nic, local, updates, toAdd, connVars>>

\* Without the lock: removals first, one address at a time.
UpdateRemoves(a) ==
  /\ upc = "apply"
  /\ a \in toRemove
  /\ nic' = nic \ {a}
  /\ toRemove' = toRemove \ {a}
  /\ UNCHANGED <<counts, keys, local, updates, upc, toAdd, connVars>>

UpdateAdds(a) ==
  /\ upc = "apply"
  /\ toRemove = {}
  /\ a \in toAdd
  /\ nic' = nic \cup {a}
  /\ toAdd' = toAdd \ {a}
  /\ UNCHANGED <<counts, keys, local, updates, upc, toRemove, connVars>>

UpdateEnds ==
  /\ upc = "apply"
  /\ toRemove = {}
  /\ toAdd = {}
  /\ upc' = "idle"
  /\ UNCHANGED <<counts, keys, nic, local, updates, toAdd, toRemove, connVars>>

UpdateNetstackIPs == \/ \E nm \in Netmap : UpdateBegins(nm)
                     \/ UpdateFilters
                     \/ \E a \in IP : UpdateRemoves(a) \/ UpdateAdds(a)
                     \/ UpdateEnds

Connection(c) == \/ ProtocolHandler(c)
                 \/ AddProtocolAddress(c)
                 \/ Start(c)
                 \/ Close(c)
                 \/ CloseKeeping(c)

Next == UpdateNetstackIPs \/ \E c \in Conn : Connection(c)

Spec == Init /\ [][Next]_vars

(* ------------------------------ properties ----------------------------- *)

TypeOK == /\ counts \in [IP -> Int]
          /\ keys \subseteq IP
          /\ nic \subseteq IP
          /\ local \in Netmap \cup {{}}
          /\ pc \in [Conn -> PC]
          /\ ip \in [Conn -> IP]
          /\ kind \in [Conn -> Kinds]
          /\ gives \in [Conn -> BOOLEAN]
          /\ updates \in 0..MaxUpdates
          /\ upc \in {"idle", "filter", "apply"}
          /\ toAdd \subseteq IP
          /\ toRemove \subseteq IP \ local

\* The node can be reached at its own addresses whenever UpdateNetstackIPs has
\* finished, although UDP sessions to them decrement counts nobody incremented.
SelfRegistered == upc = "idle" => local \subseteq nic

\* Until a second netmap arrives, the address of an open TCP connection to a
\* subnet is on the NIC, or the handler that counted first is just about to put it
\* there, whatever other connections and sessions to the address do.  There are
\* two exceptions: a later UpdateNetstackIPs unlocks before it removes, and a
\* connection to a 4via6 address gives back the address behind it, which it never
\* counted.
RegisteredWhileOpen ==
  \A c \in Conn :
    (/\ pc[c] = "open" /\ kind[c] = "tcp" /\ gives[c]
     /\ updates = 1
     /\ \A a \in IP : UnmapVia[a] = ip[c] => a = ip[c]) =>
      \/ ip[c] \in nic
      \/ \E d \in Conn : ip[d] = ip[c] /\ pc[d] = "add"
=============================================================================
