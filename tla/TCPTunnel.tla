----------------------------- MODULE TCPTunnel -----------------------------
(* One TCP connection through the tunnel: the application connects to the    *)
(* client port, handleConn (cmd/tunnneji-tail/cli/tunnel.go) dials through   *)
(* the VPN, the server wraps the connection (netstack's newEncryptedTCPConn) *)
(* and forwards it to its target (tcpHandlerForServe and                     *)
(* forwardTCPWithProxyProtocol, ipn/ipnlocal/serve.go).  With a password     *)
(* each side sends a nonce and encrypts what follows with a stream cipher.   *)
(*                                                                           *)
(*    local --cUp--> up --sUp--> toBack      toApp <--cDown-- down <--sDown-- *)
(*                                                             fromBack      *)
EXTENDS Naturals, Sequences, SequencesExt

CONSTANTS Password,  \* passwords a port may have
          NoPw,      \* no password
          Setting,   \* passwords of the client port and the server port
          NApp,      \* chunks the application sends
          NBack      \* chunks the target sends

Side == {"client", "server"}

ASSUME TunnelAssumption ==
  /\ NApp \in Nat /\ NBack \in Nat
  /\ NoPw \notin Password
  /\ Setting \subseteq [Side -> Password \cup {NoPw}]

Copier == {"cUp", "cDown", "sUp", "sDown"}
Stream == {"local", "up", "toBack", "fromBack", "down", "toApp"}

SideOf(c) == IF c \in {"cUp", "cDown"} THEN "client" ELSE "server"
SrcOf == [cUp |-> "local", cDown |-> "down", sUp |-> "up", sDown |-> "fromBack"]
DstOf == [cUp |-> "up", cDown |-> "toApp", sUp |-> "toBack", sDown |-> "down"]
\* Streams a side writes.
Writes == [client |-> {"up", "toApp"}, server |-> {"down", "toBack"}]
VPN == {"up", "down"}

VARIABLES
  pw,      \* Side -> password of the client port, of the server port
  pc,      \* Side -> where handleConn and the server's handler are
  q,       \* Stream -> items written and not yet read
  eof,     \* Stream -> its writer has closed it
  broken,  \* the VPN connection was reset
  sent,    \* chunks sent by the applications: [app, back]
  cop,     \* Copier -> "off", "read", "write", "report", "ended"
  buf,     \* Copier -> value held between Read and Write
  copied,  \* Copier -> values written
  res,     \* Copier -> "none", "eof" or "error": how it ended
  errc,    \* Side -> results in the channel
  why      \* Side -> the copier whose result handleConn received, or "none"

vars == <<pw, pc, q, eof, broken, sent, cop, buf, copied, res, errc, why>>
copVars == <<cop, buf, copied, res, errc>>

ErrcCap == [client |-> 2, server |-> 1]

\* What travels: a chunk of an application, a nonce, or what a wrong key makes
\* of either, with the key it is encrypted with.
Item(k, v) == [key |-> k, val |-> v]
Garbage == 0
Nonce == NApp + NBack + 1
Decrypt(i, k) == IF i.key = k /\ i.val # Nonce THEN i.val ELSE Garbage

Init == /\ pw \in Setting
        /\ pc = [client |-> "dial", server |-> "none"]
        /\ q = [s \in Stream |-> <<>>]
        /\ eof = [s \in Stream |-> FALSE]
        /\ broken = FALSE
        /\ sent = [app |-> 0, back |-> 0]
        /\ cop = [c \in Copier |-> "off"]
        /\ buf = [c \in Copier |-> Garbage]
        /\ copied = [c \in Copier |-> 0]
        /\ res = [c \in Copier |-> "none"]
        /\ errc = [client |-> <<>>, server |-> <<>>]
        /\ why = [client |-> "none", server |-> "none"]

\* Copiers of a side start.
StartCopiers(side) == cop' = [c \in Copier |-> IF SideOf(c) = side THEN "read" ELSE cop[c]]

\* The deferred Close of both connections of a side.
CloseBoth(side) == eof' = [s \in Stream |-> eof[s] \/ s \in Writes[side]]

Closed(side) == pc[side] = "done"

(* ---------------------------- applications ----------------------------- *)

\* External: an application sends, or shuts down its sending side.
AppSend ==
  /\ sent.app < NApp
  /\ ~eof["local"]
  /\ sent' = [sent EXCEPT !.app = @ + 1]
  /\ q' = [q EXCEPT !["local"] = Append(@, Item(NoPw, sent'.app))]
  /\ UNCHANGED <<pw, pc, eof, broken, copVars, why>>

BackSend ==
  /\ pc["server"] = "copy"
  /\ sent.back < NBack
  /\ ~eof["fromBack"]
  /\ sent' = [sent EXCEPT !.back = @ + 1]
  /\ q' = [q EXCEPT !["fromBack"] = Append(@, Item(NoPw, sent'.back))]
  /\ UNCHANGED <<pw, pc, eof, broken, copVars, why>>

AppShutdown(s) ==
  /\ s = "fromBack" => pc["server"] = "copy"
  /\ ~eof[s]
  /\ eof' = [eof EXCEPT ![s] = TRUE]
  /\ UNCHANGED <<pw, pc, q, broken, sent, copVars, why>>

\* External: the VPN connection is reset and what it carried is lost, as happens
\* also when a side closes it before it has read everything.
Break ==
  /\ ~broken
  /\ pc["server"] # "none"
  /\ broken' = TRUE
  /\ q' = [q EXCEPT !["up"] = <<>>, !["down"] = <<>>]
  /\ UNCHANGED <<pw, pc, eof, sent, copVars, why>>

(* --------------------------- set-up of a side -------------------------- *)

Goto(side, l) == pc' = [pc EXCEPT ![side] = l]

\* Mutant: the client waits for the server's nonce before it sends its own.
DialReadsFirst ==
  /\ pc["client"] = "dial"
  /\ pc' = [client |-> IF pw["client"] = NoPw THEN "copy" ELSE "readNonce",
            server |-> IF pw["server"] = NoPw THEN "dialBack" ELSE "readNonce"]
  /\ IF pw["client"] = NoPw THEN StartCopiers("client") ELSE UNCHANGED cop
  /\ UNCHANGED <<pw, q, eof, broken, sent, buf, copied, res, errc, why>>

\* The dial succeeds: the server's acceptTCP completes the handshake.
Dial ==
  /\ pc["client"] = "dial"
  /\ pc' = [client |-> IF pw["client"] = NoPw THEN "copy" ELSE "writeNonce",
            server |-> IF pw["server"] = NoPw THEN "dialBack" ELSE "readNonce"]
  /\ IF pw["client"] = NoPw THEN StartCopiers("client") ELSE UNCHANGED cop
  /\ UNCHANGED <<pw, q, eof, broken, sent, buf, copied, res, errc, why>>

\* It fails or is not answered within ten seconds.
DialFails ==
  /\ pc["client"] = "dial"
  /\ Goto("client", "done")
  /\ CloseBoth("client")
  /\ UNCHANGED <<pw, q, broken, sent, copVars, why>>

OutOf == [client |-> "up", server |-> "down"]
InOf == [client |-> "down", server |-> "up"]
Peer == [client |-> "server", server |-> "client"]

\* NewChacha20Writer.
WriteNonce(side) ==
  /\ pc[side] = "writeNonce"
  /\ ~broken
  /\ q' = [q EXCEPT ![OutOf[side]] = Append(@, Item(pw[side], Nonce))]
  /\ Goto(side, IF side = "client" THEN "readNonce" ELSE "dialBack")
  /\ UNCHANGED <<pw, eof, broken, sent, copVars, why>>

\* Mutant: the nonce stays in the stream.
ReadNoncePeeks(side) ==
  /\ pc[side] = "readNonce"
  /\ q[InOf[side]] # <<>>
  /\ IF side = "client"
       THEN Goto(side, "copy") /\ StartCopiers(side)
       ELSE Goto(side, "writeNonce") /\ UNCHANGED cop
  /\ UNCHANGED <<pw, q, eof, broken, sent, buf, copied, res, errc, why>>

\* NewChacha20Reader: whatever comes first is taken for the nonce.
ReadNonce(side) ==
  /\ pc[side] = "readNonce"
  /\ q[InOf[side]] # <<>>
  /\ q' = [q EXCEPT ![InOf[side]] = Tail(@)]
  /\ IF side = "client"
       THEN Goto(side, "copy") /\ StartCopiers(side)
       ELSE Goto(side, "writeNonce") /\ UNCHANGED cop
  /\ UNCHANGED <<pw, eof, broken, sent, buf, copied, res, errc, why>>

\* Either of them fails, or the server cannot dial its target.
SetupFails(side) ==
  /\ \/ pc[side] = "writeNonce" /\ (broken \/ Closed(Peer[side]))
     \/ pc[side] = "readNonce" /\ q[InOf[side]] = <<>> /\ (broken \/ eof[InOf[side]])
     \/ pc[side] = "dialBack"
  /\ Goto(side, "done")
  /\ CloseBoth(side)
  /\ UNCHANGED <<pw, q, broken, sent, copVars, why>>

DialBack ==
  /\ pc["server"] = "dialBack"
  /\ Goto("server", "copy")
  /\ StartCopiers("server")
  /\ UNCHANGED <<pw, q, eof, broken, sent, buf, copied, res, errc, why>>

(* -------------------------------- copying ------------------------------ *)

\* Keys: data from the VPN is decrypted, data to the VPN encrypted.
Received(c, i) == Decrypt(i, IF SrcOf[c] \in VPN THEN pw[SideOf(c)] ELSE NoPw)

\* Mutant: only the client encrypts.
OutgoingClientOnly(c, v) == Item(IF c = "cUp" THEN pw["client"] ELSE NoPw, v)

Outgoing(c, v) == Item(IF DstOf[c] \in VPN THEN pw[SideOf(c)] ELSE NoPw, v)

Ends(c, r) == cop' = [cop EXCEPT ![c] = "report"] /\ res' = [res EXCEPT ![c] = r]

\* io.Copy: a Read returns data.
CopyReads(c) ==
  /\ cop[c] = "read"
  /\ ~Closed(SideOf(c))
  /\ q[SrcOf[c]] # <<>>
  /\ q' = [q EXCEPT ![SrcOf[c]] = Tail(@)]
  /\ cop' = [cop EXCEPT ![c] = "write"]
  /\ buf' = [buf EXCEPT ![c] = Received(c, Head(q[SrcOf[c]]))]
  /\ UNCHANGED <<pw, pc, eof, broken, sent, copied, res, errc, why>>

\* A Read returns the end of the stream, or fails: the connection was reset, or
\* closed by handleConn's return.
CopyReadEnds(c) ==
  /\ cop[c] = "read"
  /\ IF Closed(SideOf(c)) \/ (SrcOf[c] \in VPN /\ broken)
       THEN Ends(c, "error")
       ELSE q[SrcOf[c]] = <<>> /\ eof[SrcOf[c]] /\ Ends(c, "eof")
  /\ UNCHANGED <<pw, pc, q, eof, broken, sent, buf, copied, errc, why>>

\* A Write is accepted unless the connection is closed here or reset; the peer's
\* Close may or may not be known yet.
CopyWrites(c) ==
  /\ cop[c] = "write"
  /\ ~Closed(SideOf(c))
  /\ DstOf[c] \in VPN => ~broken
  /\ q' = [q EXCEPT ![DstOf[c]] = Append(@, Outgoing(c, buf[c]))]
  /\ copied' = [copied EXCEPT ![c] = @ + 1]
  /\ buf' = [buf EXCEPT ![c] = Garbage]
  /\ cop' = [cop EXCEPT ![c] = "read"]
  /\ UNCHANGED <<pw, pc, eof, broken, sent, res, errc, why>>

CopyWriteFails(c) ==
  /\ cop[c] = "write"
  /\ \/ Closed(SideOf(c))
     \/ DstOf[c] \in VPN /\ (broken \/ Closed(Peer[SideOf(c)]))
  /\ buf' = [buf EXCEPT ![c] = Garbage]
  /\ Ends(c, "error")
  /\ UNCHANGED <<pw, pc, q, eof, broken, sent, copied, errc, why>>

\* Mutant: the channel holds no result once one was received.
ReportUnbuffered(c) ==
  /\ cop[c] = "report"
  /\ why[SideOf(c)] = "none"
  /\ errc[SideOf(c)] = <<>>
  /\ errc' = [errc EXCEPT ![SideOf(c)] = Append(@, c)]
  /\ cop' = [cop EXCEPT ![c] = "ended"]
  /\ UNCHANGED <<pw, pc, q, eof, broken, sent, buf, copied, res, why>>

\* Mutant: a result is sent without waiting for room.
ReportAlways(c) ==
  /\ cop[c] = "report"
  /\ errc' = [errc EXCEPT ![SideOf(c)] = Append(@, c)]
  /\ cop' = [cop EXCEPT ![c] = "ended"]
  /\ UNCHANGED <<pw, pc, q, eof, broken, sent, buf, copied, res, why>>

\* The goroutine sends its result and ends; it blocks while errc is full.
Report(c) ==
  /\ cop[c] = "report"
  /\ Len(errc[SideOf(c)]) < ErrcCap[SideOf(c)]
  /\ errc' = [errc EXCEPT ![SideOf(c)] = Append(@, c)]
  /\ cop' = [cop EXCEPT ![c] = "ended"]
  /\ UNCHANGED <<pw, pc, q, eof, broken, sent, buf, copied, res, why>>

\* The handler receives one result, returns and closes both connections.
Return(side) ==
  /\ pc[side] = "copy"
  /\ errc[side] # <<>>
  /\ why' = [why EXCEPT ![side] = Head(errc[side])]
  /\ errc' = [errc EXCEPT ![side] = Tail(@)]
  /\ Goto(side, "done")
  /\ CloseBoth(side)
  /\ UNCHANGED <<pw, q, broken, sent, cop, buf, copied, res>>

Setup(side) == WriteNonce(side) \/ ReadNonce(side) \/ SetupFails(side)

Copy(c) == CopyReads(c) \/ CopyReadEnds(c) \/ CopyWrites(c) \/ CopyWriteFails(c) \/ Report(c)

Next == \/ AppSend
        \/ BackSend
        \/ \E s \in {"local", "fromBack"} : AppShutdown(s)
        \/ Break
        \/ Dial
        \/ DialFails
        \/ DialBack
        \/ \E side \in Side : Setup(side) \/ Return(side)
        \/ \E c \in Copier : Copy(c)

Spec == Init /\ [][Next]_vars

(* Goroutines run when they can and the VPN delivers; nothing says that an   *)
(* application sends or ends.                                                *)
Fairness == /\ WF_vars(Dial \/ DialFails)
            /\ WF_vars(DialBack)
            /\ \A side \in Side : WF_vars(Setup(side)) /\ WF_vars(Return(side))
            /\ \A c \in Copier : WF_vars(Copy(c))

FairSpec == Spec /\ Fairness

(* ------------------------------ properties ----------------------------- *)

Items == [key : Password \cup {NoPw}, val : 0..Nonce]

TypeOK ==
  /\ pw \in Setting
  /\ pc \in [Side -> {"none", "dial", "writeNonce", "readNonce", "dialBack", "copy", "done"}]
  /\ \A s \in Stream : q[s] \in Seq(Items)
  /\ eof \in [Stream -> BOOLEAN]
  /\ broken \in BOOLEAN
  /\ sent \in [app : 0..NApp, back : 0..NBack]
  /\ cop \in [Copier -> {"off", "read", "write", "report", "ended"}]
  /\ buf \in [Copier -> 0..(Nonce - 1)]
  /\ copied \in [Copier -> 0..Nonce]
  /\ res \in [Copier -> {"none", "eof", "error"}]
  /\ \A side \in Side : Len(errc[side]) <= ErrcCap[side]
  /\ why \in [Side -> Copier \cup {"none"}]

Values(s) == [i \in 1..Len(q[s]) |-> q[s][i].val]

\* With equal passwords, or none on both sides, what the target and the application
\* have received is a prefix of what the other one sent, through every reset, early
\* close and half-close; and when handleConn returns because the application, or the
\* server's handler because the target, ended its stream, all it sent was passed on.
StreamFaithful ==
  /\ pw["client"] = pw["server"] =>
       /\ IsPrefix(Values("toBack"), [i \in 1..sent.app |-> i])
       /\ IsPrefix(Values("toApp"), [i \in 1..sent.back |-> i])
  /\ (why["client"] = "cUp" /\ res["cUp"] = "eof") => copied["cUp"] = sent.app
  /\ (why["server"] = "sDown" /\ res["sDown"] = "eof") => copied["sDown"] = sent.back

\* With different passwords neither end ever receives a chunk of the other.
NothingInTheClear ==
  pw["client"] # pw["server"] =>
    \A s \in {"toBack", "toApp"} : \A i \in 1..Len(q[s]) : q[s][i].val = Garbage

\* With equal passwords the exchange of nonces leaves neither side waiting for
\* the other.
NoncesExchanged ==
  pw["client"] = pw["server"] =>
    /\ pc["client"] = "readNonce" ~> pc["client"] \in {"copy", "done"}
    /\ pc["server"] = "readNonce" ~> pc["server"] \in {"copy", "done"}

\* When one side is done the other is in the end, and no copier is left running
\* or blocked on errc.
TornDown ==
  \A side \in Side :
    pc[side] = "done" /\ pc[Peer[side]] # "none" ~>
      /\ \A t \in Side : pc[t] = "done"
      /\ \A c \in Copier : cop[c] \in {"off", "ended"}
=============================================================================
