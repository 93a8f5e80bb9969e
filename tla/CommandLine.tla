---------------------------- MODULE CommandLine ----------------------------
(* parseTunnelArgs (cmd/tunnneji-tail/cli/root.go): the command line is read *)
(* one flag at a time into raw groups, and then validated and turned into    *)
(* the groups that the process runs.  Flags are given as parseFlag returns   *)
(* them, mappings by the port they listen on.                                *)
EXTENDS Integers, Sequences, FiniteSets, Functions

CONSTANTS Lines,   \* sets of flags, each with its value, of which lines are made
          Groups, Subs, StateFile, \* numbers of groups, port groups and files on them
          MaxArgs, \* flags on a line
          None, Default, \* no value; ttstate.json
          BadPort  \* stands for a mapping that does not parse

\* A flag is a record [flag, n, dir, sub, val]: its letter, the number of its group (-1
\* for none), its direction, its port group ("" for none) and its value.

VARIABLES
  left,  \* flags that may still follow
  given, \* history: the flags so far
  files, \* state files that exist
  raw,   \* group -> rawGroup
  last,  \* lastAuthKey, lastStateFile and lastHostname
  phase, \* "read", then "error" or "done"
  out    \* group -> TunnelGroup

vars == <<left, given, files, raw, last, phase, out>>

Keys == {"", "S", "C"} \X Subs

NoGroup == [seen |-> FALSE, K |-> None, T |-> None, H |-> None, entries |-> {}, clash |-> FALSE,
            A |-> [k \in Keys |-> None], P |-> [k \in Keys |-> None]]

Init == /\ left \in Lines /\ given = {}
        /\ files \in SUBSET StateFile
        /\ raw = [n \in Groups |-> NoGroup]
        /\ last = [K |-> None, T |-> None, H |-> None]
        /\ phase = "read" /\ out = <<>>

(* -------------------------------- flags -------------------------------- *)

Fails == phase' = "error" /\ UNCHANGED <<left, given, files, raw, last, out>>

Read(a, g, l) == /\ left' = left \ {a} /\ given' = given \cup {a}
                  /\ raw' = [raw EXCEPT ![a.n] = [g EXCEPT !.seen = TRUE]]
                  /\ last' = l
                  /\ UNCHANGED <<files, phase, out>>

Reading(a) == phase = "read" /\ Cardinality(given) < MaxArgs /\ a \in left

\* -K, -T and -H: once per group; a state file is not given twice in a row.  A hostname
\* counts for other groups if it has no number, a key and a file always do.
Setting(a) ==
  /\ Reading(a) /\ a.flag \in {"K", "T", "H"}
  /\ IF raw[a.n][a.flag] # None \/ (a.flag = "T" /\ last.T = a.val)
     THEN Fails
     ELSE Read(a, [raw[a.n] EXCEPT ![a.flag] = a.val],
                IF a.flag = "H" /\ a.n # -1 THEN last ELSE [last EXCEPT ![a.flag] = a.val])

Mapping(a) ==
  /\ Reading(a) /\ a.flag \in {"S", "C"}
  /\ LET g == raw[a.n]
         entry == [dir |-> a.flag, sub |-> a.sub, port |-> a.val]
         used == \E e \in g.entries : e.dir = a.flag /\ e.port = a.val IN
     Read(a, [g EXCEPT !.entries = @ \cup {entry}, !.clash = @ \/ used], last)

\* -A and -P: once per group, direction and port group; -A needs a direction.
Rule(a) ==
  /\ Reading(a) /\ a.flag \in {"A", "P"}
  /\ LET k == <<a.dir, a.sub>> IN
     IF (a.flag = "A" /\ a.dir = "") \/ raw[a.n][a.flag][k] # None
     THEN Fails
     ELSE Read(a, [raw[a.n] EXCEPT ![a.flag][k] = a.val], last)

(* ------------------------------ the groups ----------------------------- *)

Seen == {n \in Groups : raw[n].seen}

Or(v, w) == IF v = None THEN w ELSE v

InheritedIf(n, takesLast) ==
  LET g == raw[n]
      none == raw[-1] IN
  IF n = -1 THEN g
  ELSE [g EXCEPT !.K = IF takesLast THEN Or(@, last.K) ELSE @,
                 !.T = IF takesLast THEN Or(@, last.T) ELSE @,
                 !.H = Or(@, last.H),
                 !.A = [k \in Keys |-> Or(@[k], none.A[k])],
                 !.P = [k \in Keys |-> Or(@[k], none.P[k])]]

\* Mutant: every group takes the last key and file.
InheritedByAll(n) == InheritedIf(n, TRUE)

\* What was given without a number is inherited; group 0 takes the last key and file.
Inherited(n) == InheritedIf(n, n = 0)

Active(n) == n \in Seen /\ (raw[n].entries # {} \/ raw[n].K # None \/ raw[n].T # None)

File(n) == Or(Inherited(n).T, Default)

GroupError(n) ==
  LET own == raw[n].K # None \/ raw[n].T # None IN
  /\ n # -1 \/ raw[n].entries # {}
  /\ \/ ~own /\ (n > 0 \/ raw[n].entries = {})
     \/ raw[n].K # None /\ raw[n].T # None /\ File(n) \in files
     \/ raw[n].entries = {}
     \/ Inherited(n).K = None /\ File(n) \notin files
     \/ raw[n].clash \/ \E e \in raw[n].entries : e.port = BadPort

LineError == \/ \A n \in Groups : raw[n].entries = {}
             \/ Active(-1) /\ \E n \in Groups \ {-1} : Active(n)
             \/ \E n \in Seen : GroupError(n)

\* The value of the first key that has one.
Lookup(f, keys) == LET ks == SelectSeq(keys, LAMBDA k : f[k] # None) IN
                   IF ks = <<>> THEN None ELSE ks[1]

ValueAt(f, k) == IF k = None THEN None ELSE f[k]

\* Mutant: the port group before the direction.
PassKeysSubFirst(e) == << <<e.dir, e.sub>>, <<"", e.sub>>, <<e.dir, "">>, <<"", "">> >>

passKeys(e) == << <<e.dir, e.sub>>, <<e.dir, "">>, <<"", e.sub>>, <<"", "">> >>

acceptKeys(e) == << <<e.dir, e.sub>>, <<e.dir, "">> >>

PortEntry(n, e) ==
  LET g == Inherited(n)
      pw == ValueAt(g.P, Lookup(g.P, passKeys(e))) IN
  [dir |-> e.dir, sub |-> e.sub, port |-> e.port,
   accept |-> ValueAt(g.A, Lookup(g.A, acceptKeys(e))),
   password |-> IF pw = None THEN "" ELSE pw]

DropICMP(ports) == \A e \in ports : e.dir = "S" => e.password # ""

TunnelGroup(n) ==
  LET ports == {PortEntry(n, e) : e \in raw[n].entries} IN
  [key |-> Inherited(n).K, file |-> File(n), host |-> Inherited(n).H,
   ports |-> ports, dropICMP |-> DropICMP(ports)]

\* The line ends: the groups with mappings, or an error.
Finish ==
  /\ phase = "read"
  /\ phase' = IF LineError THEN "error" ELSE "done"
  /\ out' = IF LineError THEN out ELSE [n \in {m \in Seen : raw[m].entries # {}} |-> TunnelGroup(n)]
  /\ UNCHANGED <<left, given, files, raw, last>>

Next == (\E a \in left : Setting(a) \/ Mapping(a) \/ Rule(a)) \/ Finish

Spec == Init /\ [][Next]_vars

(* ------------------------------ properties ----------------------------- *)

Accepted == phase = "done"

\* The values given for a flag of a group: one at most, if the line is accepted.
Values(f, n, dir, sub) == {a.val : a \in {b \in given : b.flag = f /\ b.n = n /\ b.dir = dir /\ b.sub = sub}}

\* What "-PS1a > -PS1 > -Pa > -P" says: keys in their order, and for each the group's own
\* value before the one without a number.
Documented(f, n, keys) ==
  LET here(k) == IF Values(f, n, k[1], k[2]) # {} THEN Values(f, n, k[1], k[2]) ELSE Values(f, -1, k[1], k[2])
      hits == {i \in DOMAIN keys : here(keys[i]) # {}}
  IN IF hits = {} THEN {} ELSE here(keys[CHOOSE i \in hits : \A j \in hits : i <= j])

\* Whatever the order of the flags, each mapping on an accepted line is served by its
\* group, once, with the password and the whitelist that the usage text says, and ICMP
\* is answered exactly where a server port has no password.
PortsAsDocumented ==
  Accepted =>
  \A n \in DOMAIN out :
    LET ports == out[n].ports
        mappings == {a \in given : a.n = n /\ a.flag \in {"S", "C"}} IN
    /\ {<<e.dir, e.sub, e.port>> : e \in ports} = {<<a.flag, a.sub, a.val>> : a \in mappings}
    /\ Cardinality({<<e.dir, e.port>> : e \in ports}) = Cardinality(mappings)
    /\ \A e \in ports :
         LET s == e.sub
             pw == Documented("P", n, << <<e.dir, s>>, <<e.dir, "">>, <<"", s>>, <<"", "">> >>)
             ac == Documented("A", n, << <<e.dir, s>>, <<e.dir, "">> >>) IN
         /\ IF pw = {} THEN e.password = "" ELSE pw = {e.password}
         /\ IF ac = {} THEN e.accept = None ELSE ac = {e.accept}
    /\ out[n].dropICMP <=> ~ \E e \in ports : e.dir = "S" /\ e.password = ""

\* A group has the key and the file that were given for it, the default file otherwise,
\* and has one that it can use: a key, or a file that exists; a key is not given for a
\* file that exists.  Group 0 is the exception: it may have those of another group.
CredentialsOwn ==
  Accepted =>
  \A n \in DOMAIN out :
    LET own(f) == Values(f, n, "", "") IN
    /\ n # 0 => /\ out[n].key = None <=> own("K") = {}
                /\ out[n].file = Default <=> own("T") = {}
    /\ own("K") # {} => own("K") = {out[n].key}
    /\ own("T") # {} => own("T") = {out[n].file}
    /\ out[n].key = None => out[n].file \in files
    /\ own("K") # {} /\ own("T") # {} => out[n].file \notin files
    /\ n = -1 => DOMAIN out = {-1}

\* "Each numbered group requires its own -K or -T": a group that has neither may have
\* the default file, but not the key of another group.
OwnKeyOrFile == Accepted => \A n \in DOMAIN out \ {-1} :
                              Values("K", n, "", "") = {} /\ Values("T", n, "", "") = {} => out[n].key = None
=============================================================================
