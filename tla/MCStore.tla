------------------------------ MODULE MCStore ------------------------------
(* Three parts, each on its own: the state file, the addresses on the NIC    *)
(* and the command line.  part says which one a behaviour is about; the      *)
(* variables of the others keep their values.                                *)
EXTENDS FileStore, Integers, TLC

CONSTANTS v1, v2, \* values of the state file
          self, service, subnet, via, behind, \* addresses
          Conn,   \* packets, numbered
          None, Default \* no flag; the default state file

VARIABLES part,
  counts, keys, nic, local, pc, ip, kind, gives, updates, upc, toAdd, toRemove,
  left, given, files, raw, last, phase, groups

(* One address of the node, one service address, a subnet address, and the   *)
(* 4via6 form of another subnet address.                                     *)
AllIPs == {self, service, subnet, via, behind}
Behind == [a \in AllIPs |-> IF a = via THEN behind ELSE a]
Own == {self, service}
Service == {service}
Netmaps == {{self}}
Addrs == INSTANCE SubnetAddrs WITH
  IP <- AllIPs, TailscaleIP <- Own, ServiceIP <- Service, UnmapVia <- Behind, Netmap <- Netmaps, MaxUpdates <- 2

\* Packets are interchangeable: they are numbered by destination and kind.
IPOrder == <<self, service, subnet, via, behind>>
KindOrder == <<"tcp", "udp", "udpServed", "stray">>
Place(seq, x) == CHOOSE i \in DOMAIN seq : seq[i] = x
Rank(c) == 4 * Place(IPOrder, ip[c]) + Place(KindOrder, kind[c])

F(f, g, dir, sub, val) == [flag |-> f, n |-> g, dir |-> dir, sub |-> sub, val |-> val]

\* Keys and files of four groups; two groups name one file.
KeyLines == {F("K", 1, "", "", "k1"), F("K", 1, "", "", "k2"), F("K", 2, "", "", "k2"), F("K", -1, "", "", "k3"),
             F("T", 0, "", "", "f1"), F("T", 1, "", "", "f1"), F("T", 2, "", "", "f2"), F("H", -1, "", "", "h")}
            \cup {F("S", g, "", "", "80") : g \in {-1, 0, 1, 2}}

\* Passwords of group 0 and of all groups, an empty one among them.
PasswordLines == {F("K", 0, "", "", "k1"), F("S", 0, "", "a", "80"), F("S", 0, "", "", "80"),
                  F("C", 0, "", "a", "80"), F("C", 0, "", "", "81"), F("P", 0, "S", "", "")}
                 \cup {F("P", 0, d, s, "own") : d \in {"", "S"}, s \in {"", "a"}}
                 \cup {F("P", -1, d, s, "all") : d \in {"", "S"}, s \in {"", "a"}}

\* Whitelists, hostnames and a mapping that does not parse.
AcceptLines == {F("S", -1, "", "a", "80"), F("S", -1, "", "", "bad"), F("K", -1, "", "", "k1"),
                F("A", -1, "S", "", "some"), F("A", -1, "S", "a", "few"), F("A", -1, "", "a", "few"),
                F("A", 1, "S", "a", "own"), F("S", 1, "", "a", "80"), F("C", 1, "", "", "81"),
                F("T", 1, "", "", "f1"), F("H", 1, "", "", "g"), F("H", 1, "", "", "h"), F("H", -1, "", "", "h")}

AllLines == {KeyLines, PasswordLines, AcceptLines}
AllGroups == {-1, 0, 1, 2}
AllSubs == {"", "a"}
AllFiles == {"f1", "f2", Default}
Line == INSTANCE CommandLine WITH
  Lines <- AllLines, Groups <- AllGroups, Subs <- AllSubs, StateFile <- AllFiles, MaxArgs <- 6, BadPort <- "bad", out <- groups

store == <<faulty, file, run, cache, holder, step, op, allowed, stale>>
addrs == <<counts, keys, nic, local, pc, ip, kind, gives, updates, upc, toAdd, toRemove>>
line == <<left, given, files, raw, last, phase, groups>>

\* A part that a behaviour is not about has no state to speak of.
NoAddrs == /\ counts = <<>> /\ keys = {} /\ nic = {} /\ local = {} /\ pc = <<>> /\ ip = <<>> /\ kind = <<>>
           /\ gives = <<>> /\ updates = 0 /\ upc = "" /\ toAdd = {} /\ toRemove = {}
NoLine == /\ left = {} /\ given = {} /\ files = {} /\ raw = <<>> /\ last = <<>>
          /\ phase = "" /\ groups = <<>>

AllInit == /\ part \in {"store", "addrs", "line"}
           /\ Init /\ (part # "store" => ~faulty)
           /\ IF part = "addrs" THEN Addrs!Init /\ \A c, d \in Conn : c < d => Rank(c) <= Rank(d) ELSE NoAddrs
           /\ IF part = "line" THEN Line!Init ELSE NoLine

AllNext == \/ part = "store" /\ Next /\ UNCHANGED <<part, addrs, line>>
           \/ part = "addrs" /\ Addrs!Next /\ UNCHANGED <<part, store, line>>
           \/ part = "line" /\ Line!Next /\ UNCHANGED <<part, store, addrs>>

AllSpec == AllInit /\ [][AllNext]_<<part, store, addrs, line>>

\* The command line alone.
LineSpec == AllInit /\ part = "line" /\ [][AllNext]_<<part, store, addrs, line>>

StoreSymmetry == Permutations(Key) \cup Permutations(Caller) \cup Permutations({v1, v2})

(* ------------------------------ properties ----------------------------- *)

\* The node's own addresses and those of open connections to subnets are on the NIC,
\* with the exceptions that SubnetAddrs names.
AddrsRegistered == part = "addrs" => Addrs!SelfRegistered /\ Addrs!RegisteredWhileOpen

\* Ports get the passwords and whitelists that the usage text says.
PortsAsDocumented == Line!PortsAsDocumented

\* Groups get the keys and files given for them; group 0 may get another's.
CredentialsOwn == Line!CredentialsOwn

\* "Each numbered group requires its own -K or -T", or uses the default file.
OwnKeyOrFile == Line!OwnKeyOrFile
=============================================================================
