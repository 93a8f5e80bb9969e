------------------------- MODULE LinkEndpointProofs -------------------------
(* Closing the link endpoint while gVisor writes to it, and the references   *)
(* of its packets, for any writers, closers and sizes.                       *)
EXTENDS LinkEndpoint, FiniteSetTheorems, TLAPS

Sizes == Batch \in Nat /\ Replies \in Nat /\ Size \in Nat

(* -------------------------------- closing ------------------------------ *)

Types == /\ chan \in Seq(Packet)
         /\ chanClosed \in BOOLEAN
         /\ refs \in [Packet -> Nat]
         /\ wpc \in [Sender -> {"idle", "select", "done"}]
         /\ sent \in [Sender -> Nat]
         /\ writing \in [Sender -> Packet \cup {NoPacket}]
         /\ cpc \in [Closer -> {"idle", "once", "lock", "drain", "done"}]
         /\ ipc \in {"read", "handle", "deliver", "done"}
         /\ pkt \in Packet \cup {NoPacket}

\* Whoever drains the channel has closed it, and then nobody is in a select.
Shut == /\ \A c \in Closer : cpc[c] \in {"drain", "done"} => chanClosed
        /\ CloseIsSafe

(* ------------------------------- references ---------------------------- *)

\* A packet is numbered by what its sender has sent: the one being written is the next,
\* those in the channel and in the hands of inject were sent.
Numbered ==
  /\ \A w \in Sender : IF wpc[w] = "select" THEN sent[w] < Limit(w) /\ writing[w] = <<w, sent[w] + 1>>
                                            ELSE writing[w] = NoPacket
  /\ \A i \in 1..Len(chan) : chan[i][2] <= sent[chan[i][1]]
  /\ pkt # NoPacket => pkt[2] <= sent[pkt[1]]
  /\ pkt # NoPacket <=> ipc = "handle"
  /\ wpc[Inject] = "select" => ipc = "deliver"

\* A packet is in one place.
Apart == /\ \A i, j \in 1..Len(chan) : chan[i] = chan[j] => i = j
         /\ \A i \in 1..Len(chan) : chan[i] # pkt

One(b) == IF b THEN 1 ELSE 0

Counted(p) == refs[p] = One(p \in ToSet(chan)) + One(writing[p[1]] = p) + One(pkt = p)

IInv == Types /\ Shut /\ Numbered /\ Apart /\ \A p \in Packet : Counted(p)

(* --------------------------------- lemmas ------------------------------ *)

\* What a packet is.
LEMMA Packets ==
  ASSUME Sizes
  PROVE  /\ NoPacket \notin Packet
         /\ \A p \in Packet : p[1] \in Sender /\ p[2] \in Nat /\ p = <<p[1], p[2]>>
         /\ \A w \in Sender, n \in Nat : n < Limit(w) => <<w, n + 1>> \in Packet
         /\ \A w, n : <<w, n>>[1] = w /\ <<w, n>>[2] = n /\ <<w, n>> # NoPacket
  <1>1. \A w \in Sender : Limit(w) \in Nat
    BY DEF Sizes, Limit
  <1>2. \A p \in Packet : \E w \in Sender : \E n \in 1..Limit(w) : p = <<w, n>>
    BY DEF Packet
  <1>3. \A w, n : <<w, n>>[1] = w /\ <<w, n>>[2] = n /\ <<w, n>> # NoPacket
    BY DEF NoPacket
  <1>4. ASSUME NEW w \in Sender, NEW n \in Nat, n < Limit(w) PROVE <<w, n + 1>> \in Packet
    <2>1. n + 1 \in 1..Limit(w)
      BY <1>1, <1>4
    <2> QED
      BY <2>1 DEF Packet
  <1>5. NoPacket \notin Packet
    BY <1>2, <1>3
  <1>6. ASSUME NEW p \in Packet PROVE p[1] \in Sender /\ p[2] \in Nat /\ p = <<p[1], p[2]>>
    BY <1>1, <1>2, <1>6
  <1> QED
    BY <1>3, <1>4, <1>5, <1>6

\* The members of a sequence by their places, and what appending and taking one does.
LEMMA Members ==
  ASSUME NEW S, NEW s \in Seq(S), NEW x
  PROVE  x \in ToSet(s) <=> \E i \in 1..Len(s) : s[i] = x
  BY DEF ToSet

LEMMA Taking ==
  ASSUME NEW S, NEW s \in Seq(S), s # <<>>, \A i, j \in 1..Len(s) : s[i] = s[j] => i = j
  PROVE  /\ Head(s) \in S /\ Tail(s) \in Seq(S) /\ Len(s) \in Nat /\ Len(Tail(s)) = Len(s) - 1 /\ Head(s) = s[1]
         /\ 1 \in 1..Len(s)
         /\ \A i \in 1..Len(Tail(s)) : Tail(s)[i] = s[i + 1] /\ i + 1 \in 1..Len(s) /\ s[i + 1] # Head(s)
         /\ \A x : x \in ToSet(s) <=> x \in ToSet(Tail(s)) \/ x = Head(s)
         /\ Head(s) \notin ToSet(Tail(s))
  <1>1. /\ Head(s) \in S /\ Tail(s) \in Seq(S) /\ Len(s) \in Nat /\ Len(Tail(s)) = Len(s) - 1 /\ Head(s) = s[1]
        /\ Len(s) > 0 /\ \A i \in 1..Len(Tail(s)) : Tail(s)[i] = s[i + 1]
    OBVIOUS
  <1>0. \A y : y \in ToSet(Tail(s)) <=> \E i \in 1..Len(Tail(s)) : Tail(s)[i] = y
    <2> DEFINE t == Tail(s)
    <2>1. t \in Seq(S)
      BY <1>1
    <2> HIDE DEF t
    <2>2. \A y : y \in ToSet(t) <=> \E i \in 1..Len(t) : t[i] = y
      BY <2>1, Members
    <2> QED
      BY <2>2 DEF t
  <1>2. \A i \in 1..Len(Tail(s)) : i + 1 \in 1..Len(s) /\ s[i + 1] # Head(s)
    BY <1>1
  <1>3. ASSUME NEW x PROVE x \in ToSet(s) <=> x \in ToSet(Tail(s)) \/ x = Head(s)
    <2>1. ASSUME x \in ToSet(s) PROVE x \in ToSet(Tail(s)) \/ x = Head(s)
      <3>1. PICK i \in 1..Len(s) : s[i] = x
        BY <2>1, Members
      <3>2. CASE i = 1
        BY <1>1, <3>1, <3>2
      <3>3. CASE i # 1
        <4>1. i - 1 \in 1..Len(Tail(s)) /\ Tail(s)[i - 1] = x
          BY <1>1, <3>1, <3>3
        <4> QED
          BY <1>1, <4>1, Members
      <3> QED
        BY <3>2, <3>3
    <2>2. ASSUME x \in ToSet(Tail(s)) \/ x = Head(s) PROVE x \in ToSet(s)
      <3>1. CASE x = Head(s)
        BY <1>1, <3>1, Members
      <3>2. CASE x \in ToSet(Tail(s))
        <4>1. PICK i \in 1..Len(Tail(s)) : Tail(s)[i] = x
          BY <1>0, <3>2
        <4>2. i + 1 \in 1..Len(s) /\ s[i + 1] = x
          BY <1>1, <1>2, <4>1
        <4> QED
          BY <4>2, Members
      <3> QED
        BY <2>2, <3>1, <3>2
    <2> QED
      BY <2>1, <2>2
  <1>4. ASSUME Head(s) \in ToSet(Tail(s)) PROVE FALSE
    <2>1. PICK i \in 1..Len(Tail(s)) : Tail(s)[i] = Head(s)
      BY <1>0, <1>4
    <2> QED
      BY <1>1, <1>2, <2>1
  <1> QED
    BY <1>1, <1>2, <1>3, <1>4

LEMMA Appending ==
  ASSUME NEW S, NEW s \in Seq(S), NEW x \in S
  PROVE  /\ Append(s, x) \in Seq(S) /\ Len(s) \in Nat /\ Len(Append(s, x)) = Len(s) + 1
         /\ Append(s, x)[Len(s) + 1] = x /\ \A i \in 1..Len(s) : Append(s, x)[i] = s[i]
         /\ \A y : y \in ToSet(Append(s, x)) <=> y \in ToSet(s) \/ y = x
  <1>1. /\ Append(s, x) \in Seq(S) /\ Len(s) \in Nat /\ Len(Append(s, x)) = Len(s) + 1
        /\ Append(s, x)[Len(s) + 1] = x /\ \A i \in 1..Len(s) : Append(s, x)[i] = s[i]
    OBVIOUS
  <1>2. ASSUME NEW y PROVE y \in ToSet(Append(s, x)) <=> y \in ToSet(s) \/ y = x
    <2>1. y \in ToSet(Append(s, x)) <=> \E i \in 1..(Len(s) + 1) : Append(s, x)[i] = y
      BY <1>1 DEF ToSet
    <2>2. y \in ToSet(s) <=> \E i \in 1..Len(s) : s[i] = y
      BY Members
    <2> QED
      BY <1>1, <2>1, <2>2
  <1> QED
    BY <1>1, <1>2

\* The endpoint starts open and empty.
LEMMA EndpointInit ==
  ASSUME Sizes, Init
  PROVE  IInv
  <1>1. /\ NoPacket \notin Packet /\ \A p \in Packet : p[1] \in Sender
    BY Packets
  <1>2. Types
    <2>1. chanClosed \in BOOLEAN
      BY Zenon DEF Init
    <2>2. chan \in Seq(Packet) /\ refs \in [Packet -> Nat] /\ sent \in [Sender -> Nat]
      BY DEF Init
    <2> QED
      BY <2>1, <2>2 DEF Init, Types
  <1>3. Shut
    BY DEF Init, Shut, CloseIsSafe
  <1>4. Numbered /\ Apart
    BY DEF Init, Numbered, Apart, Sender
  <1>5. ASSUME NEW p \in Packet PROVE Counted(p)
    <2>1. ToSet(chan) = {} /\ refs[p] = 0 /\ writing[p[1]] = NoPacket /\ pkt = NoPacket
      BY <1>1 DEF Init, ToSet
    <2> QED
      BY <1>1, <2>1 DEF Counted, One
  <1> QED
    BY <1>2, <1>3, <1>4, <1>5 DEF IInv

(* --------------------------------- steps ------------------------------- *)

\* Closing touches neither packets nor the calls that handle them.
LEMMA ClosingStep ==
  ASSUME IInv, Cancel \/ \E c \in Closer : Detach(c) \/ CloseOnce(c) \/ CloseChan(c)
  PROVE  IInv'
  <1>1. UNCHANGED <<chan, refs, wpc, sent, writing, ipc, pkt>>
    BY DEF Cancel, Detach, CloseOnce, CloseChan, CloseChanIf
  <1>2. Numbered' /\ Apart' /\ \A p \in Packet : Counted(p)'
    BY <1>1 DEF IInv, Numbered, Apart, Counted
  <1>3. Types /\ Shut
    BY DEF IInv
  <1>4. CASE Cancel
    BY <1>1, <1>2, <1>3, <1>4 DEF Cancel, IInv, Types, Shut, CloseIsSafe
  <1>5. ASSUME NEW c \in Closer, Detach(c) \/ CloseOnce(c) PROVE IInv'
    <2>1. /\ chanClosed' = chanClosed
          /\ cpc' = [cpc EXCEPT ![c] = "once"] \/ cpc' = [cpc EXCEPT ![c] = "lock"]
      BY <1>5 DEF Detach, CloseOnce
    <2>2. Types'
      BY <1>1, <1>3, <2>1 DEF Types
    <2>3. Shut'
      BY <1>1, <1>3, <2>1 DEF Types, Shut, CloseIsSafe
    <2> QED
      BY <1>2, <2>2, <2>3 DEF IInv
  <1>6. ASSUME NEW c \in Closer, CloseChan(c) PROVE IInv'
    <2>1. chanClosed' = TRUE /\ cpc' = [cpc EXCEPT ![c] = "drain"] /\ \A w \in Sender : wpc[w] # "select"
      BY <1>6 DEF CloseChan, CloseChanIf, LockFree
    <2>2. Types'
      BY <1>1, <1>3, <2>1 DEF Types
    <2>3. Shut'
      BY <1>1, <1>3, <2>1 DEF Types, Shut, CloseIsSafe
    <2> QED
      BY <1>2, <2>2, <2>3 DEF IInv
  <1> QED
    BY <1>4, <1>5, <1>6

\* A write begins with a reference, unless the queue is closed.
LEMMA WriteBeginsStep ==
  ASSUME Sizes, IInv, NEW w \in Sender, WriteBegins(w)
  PROVE  IInv'
  <1>1. /\ wpc[w] = "idle" /\ sent[w] < Limit(w) /\ UNCHANGED <<chan, sent, pkt, chanClosed, cpc>>
        /\ w = Inject => ipc = "deliver"
    BY DEF WriteBegins, closing
  <1>2. Types /\ Shut /\ Numbered /\ Apart /\ \A p \in Packet : Counted(p)
    BY DEF IInv
  <1>3. Apart'
    BY <1>1, <1>2 DEF Apart
  <1>4. CASE chanClosed
    <2>1. /\ wpc' = [wpc EXCEPT ![w] = IF w = Inject THEN "idle" ELSE "done"]
          /\ ipc' = (IF w = Inject THEN "read" ELSE ipc) /\ UNCHANGED <<refs, writing>>
      BY <1>4 DEF WriteBegins
    <2>2. Types'
      BY <1>1, <1>2, <2>1 DEF Types
    <2>3. Shut'
      BY <1>1, <1>2, <2>1 DEF Types, Shut, CloseIsSafe
    <2>4. Numbered'
      BY <1>1, <1>2, <2>1 DEF Types, Numbered
    <2>5. \A p \in Packet : Counted(p)'
      BY <1>1, <1>2, <2>1 DEF Counted
    <2> QED
      BY <1>3, <2>2, <2>3, <2>4, <2>5 DEF IInv
  <1>5. CASE ~chanClosed
    <2> DEFINE p0 == <<w, sent[w] + 1>>
    <2>1. sent[w] \in Nat /\ p0 \in Packet /\ p0[1] = w /\ p0[2] = sent[w] + 1 /\ p0 # NoPacket
      BY <1>1, <1>2, Packets DEF Types
    <2>2. /\ wpc' = [wpc EXCEPT ![w] = "select"] /\ ipc' = ipc
          /\ writing' = [writing EXCEPT ![w] = p0] /\ writing'[w] = p0
          /\ refs' = [refs EXCEPT ![p0] = @ + 1]
      BY <1>2, <1>5 DEF WriteBegins, IncRef, Types
    <2> HIDE DEF p0
    <2>3. Types'
      BY <1>1, <1>2, <2>1, <2>2 DEF Types
    <2>4. Shut'
      BY <1>1, <1>2, <1>5, <2>2 DEF Types, Shut, CloseIsSafe
    <2>5. Numbered'
      <3>1. p0 = <<w, sent[w] + 1>>
        BY DEF p0
      <3>2. \A v \in Sender : IF wpc'[v] = "select" THEN sent'[v] < Limit(v) /\ writing'[v] = <<v, sent'[v] + 1>>
                                                  ELSE writing'[v] = NoPacket
        BY <1>1, <1>2, <2>2, <3>1 DEF Types, Numbered
      <3>3. wpc'[Inject] = "select" => ipc' = "deliver"
        BY <1>1, <1>2, <2>2 DEF Types, Numbered, Sender
      <3> QED
        BY <1>1, <1>2, <2>2, <3>2, <3>3 DEF Numbered
    <2>6. ASSUME NEW p \in Packet PROVE Counted(p)'
      <3>1. Counted(p) /\ refs[p] \in Nat /\ writing[w] = NoPacket /\ p[1] \in Sender /\ p # NoPacket
        BY <1>1, <1>2, Packets DEF Types, Numbered
      <3>2. CASE p = p0
        <4>1. refs'[p] = refs[p] + 1 /\ writing'[p[1]] = p /\ writing[p[1]] # p
          BY <1>2, <2>1, <2>2, <3>1, <3>2 DEF Types
        <4> QED
          BY <1>1, <3>1, <4>1 DEF Counted, One
      <3>3. CASE p # p0
        <4>1. refs'[p] = refs[p] /\ (writing'[p[1]] = p <=> writing[p[1]] = p)
          BY <1>2, <2>1, <2>2, <3>1, <3>3 DEF Types
        <4> QED
          BY <1>1, <3>1, <4>1 DEF Counted, One
      <3> QED
        BY <3>2, <3>3
    <2> QED
      BY <1>3, <2>3, <2>4, <2>5, <2>6 DEF IInv
  <1> QED
    BY <1>4, <1>5

\* A packet moves from its writer to the channel, with its reference.
LEMMA WriteSendsStep ==
  ASSUME Sizes, IInv, NEW w \in Sender, WriteSends(w)
  PROVE  IInv'
  <1> DEFINE p0 == writing[w]
  <1>1. /\ wpc[w] = "select" /\ UNCHANGED <<refs, ipc, pkt, chanClosed, cpc>>
        /\ chan' = Append(chan, p0)
        /\ sent' = [sent EXCEPT ![w] = @ + 1]
        /\ wpc' = [wpc EXCEPT ![w] = "idle"] \/ wpc' = [wpc EXCEPT ![w] = "done"]
        /\ writing' = [writing EXCEPT ![w] = NoPacket]
    BY DEF WriteSends, closing
  <1>2. Types /\ Shut /\ Numbered /\ Apart /\ \A p \in Packet : Counted(p)
    BY DEF IInv
  <1>3. /\ sent[w] \in Nat /\ p0 \in Packet /\ p0[1] = w /\ p0[2] = sent[w] + 1 /\ p0 # NoPacket
        /\ sent'[w] = sent[w] + 1 /\ writing'[w] = NoPacket /\ wpc'[w] # "select"
    <2>1. sent[w] \in Nat /\ sent[w] < Limit(w) /\ p0 = <<w, sent[w] + 1>>
      BY <1>1, <1>2 DEF Types, Numbered
    <2>2. sent'[w] = sent[w] + 1 /\ writing'[w] = NoPacket /\ wpc'[w] # "select"
      BY <1>1, <1>2 DEF Types
    <2> HIDE DEF p0
    <2> QED
      BY <2>1, <2>2, Packets
  <1> HIDE DEF p0
  <1>4. /\ chan' \in Seq(Packet) /\ Len(chan) \in Nat /\ Len(chan') = Len(chan) + 1
        /\ chan'[Len(chan) + 1] = p0 /\ \A i \in 1..Len(chan) : chan'[i] = chan[i]
        /\ \A y : y \in ToSet(chan') <=> y \in ToSet(chan) \/ y = p0
    BY <1>1, <1>2, <1>3, Appending DEF Types
  <1>5. /\ \A i \in 1..Len(chan) : chan[i] # p0 /\ chan[i] \in Packet
        /\ p0 # pkt /\ p0 \notin ToSet(chan)
    <2>1. ASSUME NEW i \in 1..Len(chan) PROVE chan[i] # p0 /\ chan[i] \in Packet
      <3>1. chan[i] \in Packet /\ chan[i][2] <= sent[chan[i][1]]
        BY <1>2, <1>4 DEF Types, Numbered
      <3> QED
        BY <1>3, <3>1
    <2>2. p0 # pkt
      BY <1>2, <1>3 DEF Numbered
    <2> QED
      BY <1>2, <2>1, <2>2, Members DEF Types
  <1>6. Types'
    <2>1. sent' \in [Sender -> Nat]
      BY <1>1, <1>2, <1>3 DEF Types
    <2>2. wpc' \in [Sender -> {"idle", "select", "done"}] /\ writing' \in [Sender -> Packet \cup {NoPacket}]
      BY <1>1, <1>2 DEF Types
    <2> QED
      BY <1>1, <1>2, <1>4, <2>1, <2>2 DEF Types
  <1>7. Shut'
    BY <1>1, <1>2 DEF Types, Shut, CloseIsSafe
  <1>8. Numbered'
    <2>1. \A v \in Sender : IF wpc'[v] = "select" THEN sent'[v] < Limit(v) /\ writing'[v] = <<v, sent'[v] + 1>>
                                                 ELSE writing'[v] = NoPacket
      BY <1>1, <1>2, <1>3 DEF Types, Numbered
    <2>2. \A v \in Sender : sent[v] \in Nat /\ sent'[v] \in Nat /\ sent[v] <= sent'[v]
      BY <1>1, <1>2 DEF Types
    <2>3. ASSUME NEW i \in 1..Len(chan') PROVE chan'[i][2] <= sent'[chan'[i][1]]
      <3>1. CASE i = Len(chan) + 1
        BY <1>3, <1>4, <3>1
      <3>2. CASE i # Len(chan) + 1
        <4>1. i \in 1..Len(chan) /\ chan'[i] = chan[i]
          BY <1>4, <3>2
        <4>2. chan[i][2] <= sent[chan[i][1]] /\ chan[i][1] \in Sender /\ chan[i][2] \in Nat
          BY <1>2, <1>5, <4>1, Packets DEF Numbered
        <4> QED
          BY <2>2, <4>1, <4>2
      <3> QED
        BY <3>1, <3>2
    <2>4. pkt' # NoPacket => pkt'[2] <= sent'[pkt'[1]]
      <3>1. pkt # NoPacket => pkt[1] \in Sender /\ pkt[2] \in Nat /\ pkt[2] <= sent[pkt[1]]
        BY <1>2, Packets DEF Types, Numbered
      <3> QED
        BY <1>1, <2>2, <3>1
    <2>5. wpc'[Inject] = "select" => ipc' = "deliver"
      BY <1>1, <1>2 DEF Types, Numbered, Sender
    <2> QED
      BY <1>1, <1>2, <2>1, <2>3, <2>4, <2>5 DEF Numbered
  <1>9. Apart'
    <2>1. \A i \in 1..Len(chan') : i = Len(chan) + 1 \/ i \in 1..Len(chan)
      BY <1>4
    <2>2. ASSUME NEW i \in 1..Len(chan'), NEW j \in 1..Len(chan'), chan'[i] = chan'[j] PROVE i = j
      BY <1>2, <1>4, <1>5, <2>1, <2>2 DEF Apart
    <2>3. ASSUME NEW i \in 1..Len(chan') PROVE chan'[i] # pkt'
      BY <1>1, <1>2, <1>4, <1>5, <2>1 DEF Apart
    <2> QED
      BY <2>2, <2>3 DEF Apart
  <1>10. ASSUME NEW p \in Packet PROVE Counted(p)'
    <2>1. Counted(p) /\ refs'[p] = refs[p] /\ pkt' = pkt /\ p[1] \in Sender /\ p # NoPacket
      BY <1>1, <1>2, Packets
    <2>2. CASE p = p0
      <3>1. p \notin ToSet(chan) /\ p \in ToSet(chan') /\ writing[p[1]] = p /\ writing'[p[1]] # p
        BY <1>3, <1>4, <1>5, <2>1, <2>2 DEF p0
      <3> QED
        BY <2>1, <3>1 DEF Counted, One
    <2>3. CASE p # p0
      <3>1. p \in ToSet(chan') <=> p \in ToSet(chan)
        BY <1>4, <2>3
      <3>2. writing'[p[1]] = p <=> writing[p[1]] = p
        BY <1>1, <1>2, <2>1, <2>3 DEF Types, p0
      <3> QED
        BY <2>1, <3>1, <3>2 DEF Counted, One
    <2> QED
      BY <2>2, <2>3
  <1> QED
    BY <1>6, <1>7, <1>8, <1>9, <1>10 DEF IInv

\* A write that the closing queue turns away gives its reference back.
LEMMA WriteClosedStep ==
  ASSUME Sizes, IInv, NEW w \in Sender, WriteClosed(w)
  PROVE  IInv'
  <1> DEFINE p0 == writing[w]
  <1>1. /\ wpc[w] = "select" /\ UNCHANGED <<chan, sent, pkt, chanClosed, cpc>>
        /\ refs' = [refs EXCEPT ![p0] = @ - 1]
        /\ writing' = [writing EXCEPT ![w] = NoPacket]
        /\ wpc' = [wpc EXCEPT ![w] = IF w = Inject THEN "idle" ELSE "done"]
        /\ ipc' = IF w = Inject THEN "read" ELSE ipc
    BY DEF WriteClosed, closing, DecRef
  <1>2. Types /\ Shut /\ Numbered /\ Apart /\ \A p \in Packet : Counted(p)
    BY DEF IInv
  <1>3. /\ p0 \in Packet /\ p0[1] = w /\ p0 # NoPacket /\ writing'[w] = NoPacket
        /\ w = Inject => ipc = "deliver"
    <2>1. sent[w] \in Nat /\ sent[w] < Limit(w) /\ p0 = <<w, sent[w] + 1>>
      BY <1>1, <1>2 DEF Types, Numbered
    <2>2. writing'[w] = NoPacket /\ (w = Inject => ipc = "deliver")
      BY <1>1, <1>2 DEF Types, Numbered
    <2> HIDE DEF p0
    <2> QED
      BY <2>1, <2>2, Packets
  <1>4. refs[p0] \in Nat /\ refs[p0] >= 1
    <2>1. Counted(p0) /\ refs[p0] \in Nat
      BY <1>2, <1>3 DEF Types
    <2>2. writing[p0[1]] = p0
      BY <1>3
    <2> HIDE DEF p0
    <2> QED
      BY <2>1, <2>2 DEF Counted, One
  <1> HIDE DEF p0
  <1>5. Types'
    BY <1>1, <1>2, <1>3, <1>4 DEF Types
  <1>6. Shut'
    BY <1>1, <1>2 DEF Types, Shut, CloseIsSafe
  <1>7. Numbered'
    BY <1>1, <1>2, <1>3 DEF Types, Numbered
  <1>8. Apart'
    BY <1>1, <1>2 DEF Apart
  <1>9. ASSUME NEW p \in Packet PROVE Counted(p)'
    <2>1. Counted(p) /\ pkt' = pkt /\ chan' = chan /\ p[1] \in Sender /\ p # NoPacket /\ refs[p] \in Nat
      BY <1>1, <1>2, Packets DEF Types
    <2>2. CASE p = p0
      <3>1. writing[p[1]] = p /\ writing'[p[1]] # p /\ refs'[p] = refs[p] - 1
        BY <1>1, <1>2, <1>3, <2>1, <2>2 DEF p0, Types
      <3> QED
        BY <2>1, <3>1 DEF Counted, One
    <2>3. CASE p # p0
      <3>1. (writing'[p[1]] = p <=> writing[p[1]] = p) /\ refs'[p] = refs[p]
        BY <1>1, <1>2, <2>1, <2>3 DEF Types, p0
      <3> QED
        BY <2>1, <3>1 DEF Counted, One
    <2> QED
      BY <2>2, <2>3
  <1> QED
    BY <1>5, <1>6, <1>7, <1>8, <1>9 DEF IInv

\* The first packet leaves the channel: what is left is as it was.
LEMMA TakeKeeps ==
  ASSUME Sizes, IInv, chan # <<>>, chan' = Tail(chan), sent' = sent
  PROVE  /\ Head(chan) \in Packet /\ Head(chan) # pkt /\ Head(chan)[2] <= sent[Head(chan)[1]]
         /\ chan' \in Seq(Packet)
         /\ \A i \in 1..Len(chan') : chan'[i] # pkt /\ chan'[i] # Head(chan) /\ chan'[i][2] <= sent'[chan'[i][1]]
         /\ \A i, j \in 1..Len(chan') : chan'[i] = chan'[j] => i = j
         /\ \A x : x \in ToSet(chan) <=> x \in ToSet(chan') \/ x = Head(chan)
         /\ Head(chan) \notin ToSet(chan')
  <1>1. Types /\ Numbered /\ Apart /\ chan \in Seq(Packet) /\ \A i, j \in 1..Len(chan) : chan[i] = chan[j] => i = j
    BY DEF IInv, Types, Apart
  <1>2. /\ Head(chan) \in Packet /\ chan' \in Seq(Packet) /\ Len(chan) \in Nat /\ Len(chan') = Len(chan) - 1
        /\ Head(chan) = chan[1] /\ 1 \in 1..Len(chan)
        /\ \A i \in 1..Len(chan') : chan'[i] = chan[i + 1] /\ i + 1 \in 1..Len(chan) /\ chan[i + 1] # Head(chan)
        /\ \A x : x \in ToSet(chan) <=> x \in ToSet(chan') \/ x = Head(chan)
        /\ Head(chan) \notin ToSet(chan')
    BY <1>1, Taking
  <1>3. Head(chan) # pkt /\ Head(chan)[2] <= sent[Head(chan)[1]]
    BY <1>1, <1>2 DEF Numbered, Apart
  <1>4. ASSUME NEW i \in 1..Len(chan')
        PROVE  chan'[i] # pkt /\ chan'[i] # Head(chan) /\ chan'[i][2] <= sent'[chan'[i][1]]
    BY <1>1, <1>2 DEF Numbered, Apart
  <1>5. ASSUME NEW i \in 1..Len(chan'), NEW j \in 1..Len(chan'), chan'[i] = chan'[j] PROVE i = j
    <2>1. i + 1 = j + 1
      BY <1>1, <1>2, <1>5
    <2> QED
      BY <1>2, <2>1
  <1> QED
    BY <1>2, <1>3, <1>4, <1>5

\* Drain takes packets with their references, until there is none.
LEMMA DrainStep ==
  ASSUME Sizes, IInv, NEW c \in Closer, Drain(c)
  PROVE  IInv'
  <1>1. cpc[c] = "drain" /\ UNCHANGED <<chanClosed, wpc, sent, writing, ipc, pkt>>
    BY DEF Drain
  <1>2. Types /\ Shut /\ Numbered /\ Apart /\ \A p \in Packet : Counted(p)
    BY DEF IInv
  <1>3. CASE chan = <<>>
    <2>1. cpc' = [cpc EXCEPT ![c] = "done"] /\ UNCHANGED <<chan, refs>>
      BY <1>3 DEF Drain
    <2>2. Types'
      BY <1>1, <1>2, <2>1 DEF Types
    <2>3. Shut'
      BY <1>1, <1>2, <1>3, <2>1 DEF Types, Shut, CloseIsSafe
    <2>4. Numbered' /\ Apart' /\ \A p \in Packet : Counted(p)'
      BY <1>1, <1>2, <2>1 DEF Numbered, Apart, Counted
    <2> QED
      BY <2>2, <2>3, <2>4 DEF IInv
  <1>4. CASE chan # <<>>
    <2> DEFINE p0 == Head(chan)
    <2>1. refs' = [refs EXCEPT ![p0] = @ - 1] /\ chan' = Tail(chan) /\ cpc' = cpc
      BY <1>4 DEF Drain, DecRef
    <2>2. /\ p0 \in Packet /\ chan' \in Seq(Packet)
          /\ \A i \in 1..Len(chan') : chan'[i] # pkt /\ chan'[i][2] <= sent'[chan'[i][1]]
          /\ \A i, j \in 1..Len(chan') : chan'[i] = chan'[j] => i = j
          /\ \A x : x \in ToSet(chan) <=> x \in ToSet(chan') \/ x = p0
          /\ p0 \notin ToSet(chan')
      BY <1>1, <1>4, <2>1, TakeKeeps
    <2> HIDE DEF p0
    <2>3. refs[p0] \in Nat /\ refs[p0] >= 1
      <3>1. Counted(p0) /\ refs[p0] \in Nat /\ p0 \in ToSet(chan)
        BY <1>2, <2>2 DEF Types
      <3> QED
        BY <3>1 DEF Counted, One
    <2>4. Types'
      BY <1>1, <1>2, <2>1, <2>2, <2>3 DEF Types
    <2>5. Shut'
      BY <1>1, <1>2, <1>4, <2>1 DEF Types, Shut, CloseIsSafe
    <2>6. Numbered' /\ Apart'
      BY <1>1, <1>2, <2>2 DEF Numbered, Apart
    <2>7. ASSUME NEW p \in Packet PROVE Counted(p)'
      <3>1. /\ Counted(p) /\ refs[p] \in Nat /\ pkt' = pkt /\ writing' = writing
            /\ refs'[p] = IF p = p0 THEN refs[p] - 1 ELSE refs[p]
            /\ p = p0 => p \in ToSet(chan) /\ p \notin ToSet(chan')
            /\ p # p0 => (p \in ToSet(chan') <=> p \in ToSet(chan))
        BY <1>1, <1>2, <2>1, <2>2 DEF Types
      <3> QED
        BY <3>1 DEF Counted, One
    <2> QED
      BY <2>4, <2>5, <2>6, <2>7 DEF IInv
  <1> QED
    BY <1>3, <1>4

\* inject takes a packet over with its reference.
LEMMA ReadContextStep ==
  ASSUME Sizes, IInv, ReadContext
  PROVE  IInv'
  <1> DEFINE p0 == Head(chan)
  <1>1. /\ ipc = "read" /\ chan # <<>> /\ pkt' = p0 /\ chan' = Tail(chan) /\ ipc' = "handle"
        /\ UNCHANGED <<refs, wpc, sent, writing, chanClosed, cpc>>
    BY DEF ReadContext, closing
  <1>2. Types /\ Shut /\ Numbered /\ Apart /\ pkt = NoPacket /\ \A p \in Packet : Counted(p)
    BY <1>1 DEF IInv, Numbered
  <1>3. /\ p0 \in Packet /\ p0[2] <= sent[p0[1]] /\ chan' \in Seq(Packet)
        /\ \A i \in 1..Len(chan') : chan'[i] # p0 /\ chan'[i][2] <= sent'[chan'[i][1]]
        /\ \A i, j \in 1..Len(chan') : chan'[i] = chan'[j] => i = j
        /\ \A x : x \in ToSet(chan) <=> x \in ToSet(chan') \/ x = p0
        /\ p0 \notin ToSet(chan')
    BY <1>1, TakeKeeps
  <1> HIDE DEF p0
  <1>4. Types'
    BY <1>1, <1>2, <1>3 DEF Types
  <1>5. Shut'
    BY <1>1, <1>2 DEF Types, Shut, CloseIsSafe
  <1>6. p0 # NoPacket
    BY <1>3, Packets
  <1>7. Numbered' /\ Apart'
    BY <1>1, <1>2, <1>3, <1>6 DEF Numbered, Apart
  <1>8. ASSUME NEW p \in Packet PROVE Counted(p)'
    <2>1. /\ Counted(p) /\ refs'[p] = refs[p] /\ refs[p] \in Nat /\ pkt # p /\ writing' = writing
          /\ p = p0 => p \in ToSet(chan) /\ p \notin ToSet(chan') /\ pkt' = p
          /\ p # p0 => (p \in ToSet(chan') <=> p \in ToSet(chan)) /\ pkt' # p
      BY <1>1, <1>2, <1>3, Packets DEF Types
    <2> QED
      BY <2>1 DEF Counted, One
  <1> QED
    BY <1>4, <1>5, <1>7, <1>8 DEF IInv

\* inject gives the reference of its packet back, and otherwise only goes on.
LEMMA InjectRest ==
  ASSUME Sizes, IInv, ReadContextNil \/ InjectPacket \/ DeliverLoopback \/ LoopbackReturns
  PROVE  IInv'
  <1>1. UNCHANGED <<chan, wpc, sent, writing, chanClosed, cpc>>
    BY DEF ReadContextNil, InjectPacket, DeliverLoopback, LoopbackReturns, closing
  <1>2. Types /\ Shut /\ Numbered /\ Apart /\ \A p \in Packet : Counted(p)
    BY DEF IInv
  <1>3. Shut'
    BY <1>1, <1>2 DEF Shut, CloseIsSafe
  <1>4. CASE ReadContextNil \/ LoopbackReturns
    <2>1. UNCHANGED <<refs, pkt>> /\ ipc' \in {"read", "done"} /\ ipc # "handle" /\ wpc[Inject] # "select"
      BY <1>2, <1>4 DEF ReadContextNil, LoopbackReturns, Numbered
    <2>2. Types'
      BY <1>1, <1>2, <2>1 DEF Types
    <2>3. Numbered' /\ Apart' /\ \A p \in Packet : Counted(p)'
      BY <1>1, <1>2, <2>1 DEF Numbered, Apart, Counted
    <2> QED
      BY <1>3, <2>2, <2>3 DEF IInv
  <1>5. CASE InjectPacket \/ DeliverLoopback
    <2>1. /\ ipc = "handle" /\ refs' = [refs EXCEPT ![pkt] = @ - 1] /\ pkt' = NoPacket
          /\ ipc' \in {"read", "done", "deliver"}
      BY <1>5 DEF InjectPacket, DeliverLoopback, DecRef
    <2>2. pkt \in Packet /\ wpc[Inject] # "select"
      BY <1>2, <2>1 DEF Types, Numbered
    <2>3. refs[pkt] \in Nat /\ refs[pkt] >= 1
      <3>1. Counted(pkt) /\ refs[pkt] \in Nat
        BY <1>2, <2>2 DEF Types
      <3> QED
        BY <3>1 DEF Counted, One
    <2>4. Types'
      BY <1>1, <1>2, <2>1, <2>2, <2>3 DEF Types
    <2>5. \A i \in 1..Len(chan) : chan[i] # NoPacket
      BY <1>2, Packets DEF Types
    <2>6. Numbered' /\ Apart'
      BY <1>1, <1>2, <2>1, <2>2, <2>5 DEF Numbered, Apart
    <2>7. ASSUME NEW p \in Packet PROVE Counted(p)'
      <3>1. /\ Counted(p) /\ refs[p] \in Nat /\ pkt' # p /\ writing' = writing /\ chan' = chan
            /\ refs'[p] = IF p = pkt THEN refs[p] - 1 ELSE refs[p]
        BY <1>1, <1>2, <2>1, Packets DEF Types
      <3> QED
        BY <3>1 DEF Counted, One
    <2> QED
      BY <1>3, <2>4, <2>6, <2>7 DEF IInv
  <1> QED
    BY <1>4, <1>5

(* -------------------------------- theorems ----------------------------- *)

\* Packets, references and the calls of Close stay in step with each other.
THEOREM EndpointInvariant == ASSUME Sizes PROVE Spec => []IInv
  <1>1. Init => IInv
    BY EndpointInit
  <1>2. IInv /\ [Next]_vars => IInv'
    <2> SUFFICES ASSUME IInv, [Next]_vars PROVE IInv'
      OBVIOUS
    <2>1. ASSUME NEW w \in Sender, WritePackets(w) PROVE IInv'
      BY <2>1, WriteBeginsStep, WriteSendsStep, WriteClosedStep DEF WritePackets
    <2>2. CASE Cancel
      BY <2>2, ClosingStep
    <2>3. ASSUME NEW c \in Closer, Detach(c) \/ Close(c) PROVE IInv'
      BY <2>3, ClosingStep, DrainStep DEF Close
    <2>4. CASE InjectStep
      BY <2>4, ReadContextStep, InjectRest DEF InjectStep
    <2>5. CASE UNCHANGED vars
      BY <2>5 DEF vars, IInv, Types, Shut, CloseIsSafe, Numbered, Apart, Counted
    <2> QED
      BY <2>1, <2>2, <2>3, <2>4, <2>5 DEF Next
  <1> QED
    BY <1>1, <1>2, PTL DEF Spec

\* Close may be called at any moment of a write: no writer sends on a closed channel, and
\* no packet is left in it when Close returns.
THEOREM ClosingIsSafe == ASSUME Sizes PROVE Spec => []CloseIsSafe
  <1>1. IInv => CloseIsSafe
    BY DEF IInv, Shut
  <1> QED
    BY <1>1, EndpointInvariant, PTL

\* The queue's references of a packet are one while it is written, queued or handled, and
\* none otherwise: no packet leaks and none is freed twice, whoever closes when.
THEOREM ReferencesBalanced == ASSUME Sizes PROVE Spec => []RefsBalanced
  <1>1. ASSUME IInv, NEW p \in Packet
        PROVE  refs[p] = (IF p \in ToSet(chan) THEN 1 ELSE 0)
                       + Cardinality({w \in Sender : writing[w] = p}) + (IF pkt = p THEN 1 ELSE 0)
    <2>1. p[1] \in Sender /\ p # NoPacket /\ Counted(p)
      BY <1>1, Packets DEF IInv
    <2>2. \A w \in Sender : writing[w] = p => w = p[1]
      BY <1>1, <2>1, Packets DEF IInv, Numbered
    <2>3. Cardinality({w \in Sender : writing[w] = p}) = One(writing[p[1]] = p)
      <3>1. CASE writing[p[1]] = p
        <4>1. {w \in Sender : writing[w] = p} = {p[1]}
          BY <2>1, <2>2, <3>1
        <4> QED
          BY <3>1, <4>1, FS_Singleton DEF One
      <3>2. CASE writing[p[1]] # p
        <4>1. {w \in Sender : writing[w] = p} = {}
          BY <2>2, <3>2
        <4> QED
          BY <3>2, <4>1, FS_EmptySet DEF One
      <3> QED
        BY <3>1, <3>2
    <2> QED
      BY <2>1, <2>3 DEF Counted, One
  <1>2. IInv => RefsBalanced
    BY <1>1 DEF RefsBalanced
  <1> QED
    BY <1>2, EndpointInvariant, PTL
=============================================================================
