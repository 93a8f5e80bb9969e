---------------------------- MODULE UDPSessions ----------------------------
(* The UDP side of a client port: handleUDP, the loop that reads datagrams  *)
(* of local programs and owns the session table, and udpRemoteToLocal, one  *)
(* goroutine per session that carries the replies back                      *)
(* (cmd/tunnneji-tail/cli/tunnel.go).  The table is guarded by a mutex that *)
(* the loop keeps while it dials.  Payloads are abstracted away; sessions   *)
(* are members of Sess, each dialed at most once.                           *)
CONSTANTS Src,        \* local source addresses (keyStr)
          Accept,     \* those the -AC whitelist of the port lets through
          Sess,       \* *udpSession values
          Encrypted,  \* whether the port has a password
          NoSess,
          NoSrc

ASSUME SessAssumption == /\ Accept \subseteq Src
                         /\ Encrypted \in BOOLEAN
                         /\ NoSess \notin Sess
                         /\ NoSrc \notin Src

VARIABLES
  main,      \* where the loop of handleUDP is
  src,       \* source of the datagram in hand
  sess,      \* session picked for it
  sessions,  \* the table: source -> session or NoSess
  owner,     \* owner[s] = s.local, NoSrc when s has not been dialed
  remote,    \* state of s.remote: "none", "open", "broken", "closed"
  reader     \* where udpRemoteToLocal(s) is

vars == <<main, src, sess, sessions, owner, remote, reader>>

\* "read" also stands for ReadFromUDP; "dial" holds the mutex; "returned" is
\* after the deferred local.Close().
MainPC == {"read", "lookup", "dial", "write", "delete", "close", "returned"}
ReaderPC == {"none", "read", "write", "delete", "close", "done"}

Dialed == {s \in Sess : owner[s] # NoSrc}
InTable(s) == \E k \in Src : sessions[k] = s
muFree == main # "dial"
localOpen == main # "returned"

Init == /\ main = "read"
        /\ src = NoSrc
        /\ sess = NoSess
        /\ sessions = [k \in Src |-> NoSess]
        /\ owner = [s \in Sess |-> NoSrc]
        /\ remote = [s \in Sess |-> "none"]
        /\ reader = [s \in Sess |-> "none"]

(* -------------------------- the loop of handleUDP ---------------------- *)

\* A datagram arrives; the whitelist drops it (next datagram) or not.
ReadFromUDP(k) ==
  /\ main = "read"
  /\ main' = IF k \in Accept THEN "lookup" ELSE "read"
  /\ src' = k
  /\ UNCHANGED <<sess, sessions, owner, remote, reader>>

\* ReadFromUDP fails: the loop returns and the deferred Close runs.
ReadError ==
  /\ main = "read"
  /\ main' = "returned"
  /\ UNCHANGED <<src, sess, sessions, owner, remote, reader>>

\* Mutant: the session variable keeps the session of an earlier datagram.
LookupStale ==
  /\ main = "lookup"
  /\ main' = IF sess # NoSess THEN "write" ELSE "dial"
  /\ UNCHANGED <<src, sess, sessions, owner, remote, reader>>

\* Mutant: the loop dials for every datagram.
LookupNever ==
  /\ main = "lookup"
  /\ main' = "dial"
  /\ UNCHANGED <<src, sess, sessions, owner, remote, reader>>

\* Lock; a session found in the table is used, otherwise UserDial starts with
\* the lock held.
Lookup ==
  /\ main = "lookup"
  /\ IF sessions[src] # NoSess
       THEN main' = "write" /\ sess' = sessions[src]
       ELSE main' = "dial" /\ UNCHANGED sess
  /\ UNCHANGED <<src, sessions, owner, remote, reader>>

\* UserDial succeeds: the session enters the table and its reader starts.
DialOK(s) ==
  /\ main = "dial"
  /\ s \notin Dialed
  /\ main' = "write"
  /\ sess' = s
  /\ sessions' = [sessions EXCEPT ![src] = s]
  /\ owner' = [owner EXCEPT ![s] = src]
  /\ remote' = [remote EXCEPT ![s] = "open"]
  /\ reader' = [reader EXCEPT ![s] = "read"]
  /\ UNCHANGED src

DialError ==
  /\ main = "dial"
  /\ main' = "read"
  /\ UNCHANGED <<src, sess, sessions, owner, remote, reader>>

\* EncryptUDPPacket fails, or the write goes through: next datagram.
WriteOK ==
  /\ main = "write"
  /\ Encrypted \/ remote[sess] = "open"
  /\ main' = "read"
  /\ UNCHANGED <<src, sess, sessions, owner, remote, reader>>

WriteError ==
  /\ main = "write"
  /\ main' = "delete"
  /\ UNCHANGED <<src, sess, sessions, owner, remote, reader>>

\* Lock; delete(sessions, keyStr), whatever the entry is; Unlock.
DeleteEntry ==
  /\ main = "delete"
  /\ main' = "close"
  /\ sessions' = [sessions EXCEPT ![src] = NoSess]
  /\ UNCHANGED <<src, sess, owner, remote, reader>>

\* Mutant: the connection is not closed after its entry is deleted.
CloseRemoteSkipped ==
  /\ main = "close"
  /\ main' = "read"
  /\ UNCHANGED <<src, sess, sessions, owner, remote, reader>>

CloseRemote ==
  /\ main = "close"
  /\ main' = "read"
  /\ remote' = [remote EXCEPT ![sess] = "closed"]
  /\ UNCHANGED <<src, sess, sessions, owner, reader>>

(* ------------------------- udpRemoteToLocal(s) ------------------------- *)

\* A reply arrives.
ReaderRead(s) ==
  /\ reader[s] = "read"
  /\ remote[s] = "open"
  /\ reader' = [reader EXCEPT ![s] = "write"]
  /\ UNCHANGED <<main, src, sess, sessions, owner, remote>>

\* Read fails, as it must once the connection is broken or closed.
ReaderError(s) ==
  /\ reader[s] = "read"
  /\ reader' = [reader EXCEPT ![s] = "delete"]
  /\ UNCHANGED <<main, src, sess, sessions, owner, remote>>

\* The reply cannot be decrypted and is skipped, or it is delivered.
ReaderWriteOK(s) ==
  /\ reader[s] = "write"
  /\ Encrypted \/ localOpen
  /\ reader' = [reader EXCEPT ![s] = "read"]
  /\ UNCHANGED <<main, src, sess, sessions, owner, remote>>

ReaderWriteError(s) ==
  /\ reader[s] = "write"
  /\ reader' = [reader EXCEPT ![s] = "delete"]
  /\ UNCHANGED <<main, src, sess, sessions, owner, remote>>

\* Mutant: the reader closes its connection and leaves the entry behind.
ReaderDeleteNever(s) ==
  /\ reader[s] = "delete"
  /\ reader' = [reader EXCEPT ![s] = "close"]
  /\ UNCHANGED <<main, src, sess, sessions, owner, remote>>

\* Lock; the entry is deleted only if it still is this session; Unlock.
ReaderDelete(s) ==
  /\ reader[s] = "delete"
  /\ muFree
  /\ sessions' = IF sessions[owner[s]] = s
                   THEN [sessions EXCEPT ![owner[s]] = NoSess]
                   ELSE sessions
  /\ reader' = [reader EXCEPT ![s] = "close"]
  /\ UNCHANGED <<main, src, sess, owner, remote>>

ReaderClose(s) ==
  /\ reader[s] = "close"
  /\ reader' = [reader EXCEPT ![s] = "done"]
  /\ remote' = [remote EXCEPT ![s] = "closed"]
  /\ UNCHANGED <<main, src, sess, sessions, owner>>

\* The network stack fails the connection: reads and writes on it fail.
Break(s) ==
  /\ remote[s] = "open"
  /\ remote' = [remote EXCEPT ![s] = "broken"]
  /\ UNCHANGED <<main, src, sess, sessions, owner, reader>>

HandleUDP == \/ \E k \in Src : ReadFromUDP(k)
             \/ ReadError
             \/ Lookup
             \/ \E s \in Sess : DialOK(s)
             \/ DialError
             \/ WriteOK
             \/ WriteError
             \/ DeleteEntry
             \/ CloseRemote

UdpRemoteToLocal(s) == \/ ReaderRead(s)
                       \/ ReaderError(s)
                       \/ ReaderWriteOK(s)
                       \/ ReaderWriteError(s)
                       \/ ReaderDelete(s)
                       \/ ReaderClose(s)

Next == HandleUDP \/ \E s \in Sess : UdpRemoteToLocal(s) \/ Break(s)

Spec == Init /\ [][Next]_vars

(* The loop finishes a datagram it has read (UserDial and Write return), a  *)
(* reader that may run runs, and sync.Mutex hands the lock to a waiter that *)
(* has waited long enough (starvation mode), hence SF for ReaderDelete.     *)
(* Nothing says that datagrams arrive or that Read ever returns on an open  *)
(* connection.                                                              *)
HandleDatagram == HandleUDP /\ main # "read"

Fairness ==
  /\ WF_vars(HandleDatagram)
  /\ \A s \in Sess :
       /\ WF_vars(ReaderError(s) /\ remote[s] \in {"broken", "closed"})
       /\ WF_vars(ReaderWriteOK(s) \/ ReaderWriteError(s))
       /\ SF_vars(ReaderDelete(s))
       /\ WF_vars(ReaderClose(s))

FairSpec == Spec /\ Fairness

(* ------------------------------ properties ----------------------------- *)

TypeOK == /\ main \in MainPC
          /\ src \in Src \cup {NoSrc}
          /\ sess \in Sess \cup {NoSess}
          /\ sessions \in [Src -> Sess \cup {NoSess}]
          /\ owner \in [Sess -> Src \cup {NoSrc}]
          /\ remote \in [Sess -> {"none", "open", "broken", "closed"}]
          /\ reader \in [Sess -> ReaderPC]

\* An entry of the table is the session dialed for that source, for a source
\* the whitelist accepts; its connection has not been closed and its reader is
\* still there to remove it.  handleUDP uses an entry it finds without any
\* check, so a closed one would swallow the datagrams of its source.
EntriesLive ==
  \A k \in Src : sessions[k] # NoSess =>
    /\ k \in Accept
    /\ owner[sessions[k]] = k
    /\ remote[sessions[k]] \in {"open", "broken"}
    /\ reader[sessions[k]] \in {"read", "write", "delete"}

\* A dialed session that is not in the table is closed, or its reader or the
\* loop is just about to close it: deleting an entry never leaks a connection.
NoOrphan ==
  \A s \in Dialed :
    \/ InTable(s)
    \/ remote[s] = "closed"
    \/ reader[s] = "close"
    \/ main = "close" /\ sess = s

\* While the loop works with a session outside the lock, the entry of its source
\* is that session or gone, although readers delete entries meanwhile: the
\* unconditional delete after a write error never removes another session.
DeletesOwnSession ==
  main \in {"write", "delete"} =>
    /\ owner[sess] = src
    /\ sessions[src] \in {sess, NoSess}

\* What the loop knows of its local variables, and what the reader and the
\* connection of a session have in common; with the four invariants above this
\* is inductive.
LoopLocals ==
  /\ main \in {"lookup", "dial", "write", "delete", "close"} => src \in Accept
  /\ main = "dial" => sessions[src] = NoSess
  /\ main \in {"write", "delete", "close"} => sess \in Sess /\ owner[sess] = src
  /\ main = "close" => sessions[src] = NoSess

Lifecycle ==
  \A s \in Sess : /\ reader[s] = "none" <=> owner[s] = NoSrc
                  /\ remote[s] = "none" <=> owner[s] = NoSrc
                  /\ reader[s] = "done" => remote[s] = "closed"

\* The inductive invariant of the session table.
IInv == /\ TypeOK
        /\ EntriesLive
        /\ NoOrphan
        /\ DeletesOwnSession
        /\ LoopLocals
        /\ Lifecycle

\* A session the loop deleted after a write error, or whose connection broke, is
\* collected: out of the table, closed, its goroutine finished.
Collected ==
  \A s \in Sess : (remote[s] = "broken" \/ (s \in Dialed /\ ~InTable(s)))
    ~> (~InTable(s) /\ remote[s] = "closed" /\ reader[s] = "done")

\* The table implements the binding service of UDPBindings.
Bindings == INSTANCE UDPBindings WITH
  Conn <- Sess, NoConn <- NoSess, bound <- sessions,
  open <- {s \in Sess : remote[s] \in {"open", "broken"}},
  released <- {s \in Sess : remote[s] = "closed"}

ImplementsBindings == Bindings!BSpec
=============================================================================
