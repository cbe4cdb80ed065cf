----------------------- MODULE SotwConvergenceProofs ------------------------
(***************************************************************************)
(* Proofs that state-of-the-world clients converge, for all nodes,         *)
(* streams, types, names, snapshots and bounds: streams without ordered    *)
(* ADS, no heartbeats, clients that ask for more and more names.           *)
(*                                                                         *)
(* What a stream counts on of each type, its names, the last response and  *)
(* its nonce, is what the client knows once the messages between them are  *)
(* delivered; and an open watch has nothing new to tell.                   *)
(***************************************************************************)
EXTENDS SotwServiceProofs

----------------------------------------------------------------------------
(* Streams at rest have brought their clients up to date                   *)

\* The requests of a stream that were not handled yet, in their order.
Pend(s) == IF Handling(s) THEN <<current[s]>> \o toServer[s] ELSE toServer[s]

\* The elements of a type in a queue of requests or responses.
None(q, t) == \A i \in DOMAIN q : q[i].type # t
IsLast(q, t, i) ==
    /\ i \in DOMAIN q
    /\ q[i].type = t
    /\ \A j \in DOMAIN q : q[j].type = t => j <= i

\* The last element of a type in one queue is the last one in another.
SameLast(p, q, t) == \A i : IsLast(p, t, i) => \E j \in DOMAIN q : IsLast(q, t, j) /\ p[i] = q[j]

\* Requests of a type ask for more and more names.
Growing(q, t, least, most) ==
    \A i \in DOMAIN q : q[i].type = t =>
        /\ least \subseteq q[i].names /\ q[i].names \subseteq most
        /\ \A j \in DOMAIN q : q[j].type = t /\ i < j => q[i].names \subseteq q[j].names

\* A version stands for contents; the empty one, which a client has before it
\* has received anything, for none.
VersionsNameContents ==
    \A t \in Types, S \in Snapshots :
        /\ S.version[t] = NoVersion => S.resources[t] = EmptyMap
        /\ \A S2 \in Snapshots : S2.version[t] = S.version[t] => S2.resources[t] = S.resources[t]

\* What is held is what the version accepted last has of the names, and of all
\* resources where all are wanted.
Has(st, t, names) ==
    \A S \in Snapshots : S.version[t] = st.version =>
        /\ \A x \in names \cap DOMAIN S.resources[t] :
              x \in DOMAIN st.content /\ st.content[x] = S.resources[t][x]
        /\ st.names = {} => st.content = S.resources[t]

\* What a response has is what its version has of the names it answers.
Faithful(t, version, names, resources) ==
    \A S \in Snapshots : S.version[t] = version =>
        resources = IF names = {} THEN S.resources[t]
                    ELSE Restrict(S.resources[t], DOMAIN S.resources[t] \cap names)

\* The names known to be received, those of the last response, of the last
\* request accepted, and of the client.
Nested(st, w, k, l) == k \subseteq l.names /\ l.names \subseteq w.names /\ w.names \subseteq st.names

\* The last request under way tells what the client knows.
Tells(r, st) == r.names = st.names /\ r.version = st.version /\ r.nonce = st.nonce
LastTells(q, t, st) == \A i \in DOMAIN q : IsLast(q, t, i) => Tells(q[i], st)

\* The last response on the wire is the one sent last; when none is, the client
\* has seen its nonce, and rejected a response or holds what it was sent.
LastSent(o, t, l) == \A i \in DOMAIN o : IsLast(o, t, i) => o[i].nonce = l.nonce /\ o[i].names = l.names
Received(st, l, o, t) ==
    None(o, t) => /\ l.nonce # 0 => st.nonce = l.nonce
                  /\ st.rejected \/ Has(st, t, l.names)

\* When nothing is under way, the server waits for a version other than the one
\* the client has accepted last.
Settled(st, w, q, o, open, t) ==
    st.asked /\ None(q, t) /\ None(o, t) =>
        /\ w.active /\ w.nonce = 0 /\ w.names = st.names
        /\ \A x \in open : x.request.version = st.version

\* A watch is open because its version has none of the names it asks for that
\* the client is not known to have received.
NoNews(k, open, t) ==
    \A x \in open, S \in Snapshots : S.version[t] = x.request.version =>
        (x.request.names \ k) \cap DOMAIN S.resources[t] = {}

\* A client and its stream agree about a type: st is what the client knows, w the
\* responder, k the names known, l the last response, q the requests and o the
\* responses under way, open the watches.
Synced(st, w, k, l, q, o, open, t) ==
    /\ Nested(st, w, k, l)
    /\ w.nonce \in {0, l.nonce}
    /\ Growing(q, t, w.names, st.names)
    /\ LastTells(q, t, st)
    /\ LastSent(o, t, l)
    /\ Received(st, l, o, t)
    /\ Settled(st, w, q, o, open, t)
    /\ NoNews(k, open, t)

Sync(s, t) ==
    Synced(client[StreamNode[s]][t], responders[s][t], known[s][t], last[s][t], Pend(s), toClient[s],
           OpenOn(Channel(s, t), t), t)

\* Responses carry what their version has.
Carries(r, t, names) == ~r.heartbeat /\ Faithful(t, r.version, names, r.resources)
GenuineIn(buffer, t) == \A i \in DOMAIN buffer : Carries(buffer[i], t, buffer[i].request.names)
GenuineOn(o) == \A i \in DOMAIN o : Carries(o[i], o[i].type, o[i].names)

Genuine(s) == (\A t \in Types : GenuineIn(responses[Channel(s, t)], t)) /\ GenuineOn(toClient[s])

\* As long as no snapshot was set for the node, its streams have sent nothing.
Blank(s) ==
    ~Exists(StreamNode[s]) =>
        /\ toClient[s] = <<>>
        /\ \A t \in Types : responses[Channel(s, t)] = <<>>
        /\ Used(s) => \A i \in DOMAIN Pend(s) : Pend(s)[i].version = NoVersion

\* A client has accepted what it received last, and holds all of it where all is
\* wanted, or has rejected it.
Holding(n) ==
    \A t \in Types :
        LET st == client[n][t]
        IN  /\ st.rejected \/ (st.received = st.version /\ Has(st, t, {}))
            /\ ~Exists(n) => st.version = NoVersion /\ st.received = NoVersion

\* There are no heartbeats, and no ordered ADS.
PlainInv ==
    /\ heartbeat = "off" /\ holder # "beat"
    /\ \A s \in Streams : pc[s] \notin {"ads", "drain"} /\ resent[s] = NoRequest

StreamOK(s) == (Used(s) => \A t \in Types : Sync(s, t)) /\ Genuine(s) /\ Blank(s)

ConvergedInv ==
    /\ ServiceInv
    /\ PlainInv
    /\ \A s \in Streams : StreamOK(s)
    /\ \A n \in Nodes : Holding(n)

----------------------------------------------------------------------------
(* Queues by type                                                          *)

\* One more element, of another type.
LEMMA AppendOther ==
    ASSUME NEW S, NEW q \in Seq(S), NEW d, NEW t, d.type # t
    PROVE  /\ None(Append(q, d), t) <=> None(q, t)
           /\ SameLast(Append(q, d), q, t)
           /\ \A least, most : Growing(q, t, least, most) => Growing(Append(q, d), t, least, most)
  <1> DEFINE p == Append(q, d)
             k == Len(q) + 1
  <1>1. /\ DOMAIN p = DOMAIN q \cup {k} /\ p[k] = d
        /\ \A i \in DOMAIN q : i \in Nat /\ i < k /\ p[i] = q[i]
        /\ k \in Nat
    BY AppendParts
  <1> HIDE DEF p, k
  <1>2. k \notin DOMAIN q
    BY <1>1
  <1>3. None(p, t) <=> None(q, t)
    BY <1>1 DEF None
  <1>4. ASSUME NEW i, IsLast(p, t, i) PROVE IsLast(q, t, i) /\ p[i] = q[i]
    BY <1>1, <1>4 DEF IsLast
  <1>5. SameLast(p, q, t)
    BY <1>4 DEF SameLast, IsLast
  <1>6. ASSUME NEW least, NEW most, Growing(q, t, least, most) PROVE Growing(p, t, least, most)
    BY <1>1, <1>6 DEF Growing
  <1> QED
    BY <1>3, <1>5, <1>6 DEF p

\* One more element, of the type.
LEMMA AppendSame ==
    ASSUME NEW S, NEW q \in Seq(S), NEW d, NEW t, d.type = t
    PROVE  /\ ~None(Append(q, d), t)
           /\ \A i : IsLast(Append(q, d), t, i) => Append(q, d)[i] = d
           /\ \A least, most : /\ Growing(q, t, least, most)
                               /\ most \subseteq d.names
                               /\ least \subseteq d.names
                               => Growing(Append(q, d), t, least, d.names)
  <1> DEFINE p == Append(q, d)
             k == Len(q) + 1
  <1>1. /\ DOMAIN p = DOMAIN q \cup {k} /\ p[k] = d
        /\ \A i \in DOMAIN q : i \in Nat /\ i < k /\ p[i] = q[i]
        /\ k \in Nat
    BY AppendParts
  <1> HIDE DEF p, k
  <1>2. ~None(p, t)
    BY <1>1 DEF None
  <1>3. ASSUME NEW i, IsLast(p, t, i) PROVE p[i] = d
    BY <1>1, <1>3 DEF IsLast
  <1>4. ASSUME NEW least, NEW most, Growing(q, t, least, most), most \subseteq d.names, least \subseteq d.names
        PROVE  Growing(p, t, least, d.names)
    <2> SUFFICES ASSUME NEW i \in DOMAIN p, p[i].type = t
                 PROVE  /\ least \subseteq p[i].names /\ p[i].names \subseteq d.names
                        /\ \A j \in DOMAIN p : p[j].type = t /\ i < j => p[i].names \subseteq p[j].names
      BY DEF Growing
    <2>1. CASE i \in DOMAIN q
      <3>1. /\ q[i].type = t /\ p[i] = q[i]
            /\ least \subseteq q[i].names /\ q[i].names \subseteq most
            /\ \A j \in DOMAIN q : q[j].type = t /\ i < j => q[i].names \subseteq q[j].names
        BY <1>1, <1>4, <2>1 DEF Growing
      <3> QED
        BY <1>1, <1>4, <3>1
    <2>2. CASE i = k
      <3>1. \A j \in DOMAIN p : ~(i < j)
        BY <1>1, <2>2
      <3> QED
        BY <1>1, <1>4, <2>2, <3>1
    <2> QED
      BY <1>1, <2>1, <2>2
  <1> QED
    BY <1>2, <1>3, <1>4 DEF p

\* Without its head, which is of another type.
LEMMA TailOther ==
    ASSUME NEW S, NEW q \in Seq(S), q # <<>>, NEW t, Head(q).type # t
    PROVE  /\ None(Tail(q), t) <=> None(q, t)
           /\ SameLast(Tail(q), q, t)
           /\ \A least, most : Growing(q, t, least, most) => Growing(Tail(q), t, least, most)
  <1> DEFINE p == Tail(q)
             h == Head(q)
  <1>1. /\ 1 \in DOMAIN q /\ h = q[1]
        /\ \A i \in DOMAIN p : i \in Nat /\ i + 1 \in DOMAIN q /\ p[i] = q[i + 1]
        /\ \A i \in DOMAIN q : i \in Nat /\ i >= 1 /\ (i = 1 \/ (i - 1 \in DOMAIN p /\ p[i - 1] = q[i]))
    BY TailParts
  <1> HIDE DEF p, h
  <1>2. None(p, t) <=> None(q, t)
    BY <1>1 DEF None, h
  <1>3. ASSUME NEW i, IsLast(p, t, i) PROVE i + 1 \in DOMAIN q /\ IsLast(q, t, i + 1) /\ p[i] = q[i + 1]
    <2>1. i \in DOMAIN p /\ p[i].type = t /\ \A j \in DOMAIN p : p[j].type = t => j <= i
      BY <1>3 DEF IsLast
    <2>2. ASSUME NEW j \in DOMAIN q, q[j].type = t PROVE j <= i + 1
      <3>1. j \in Nat /\ i \in Nat /\ (j = 1 \/ (j - 1 \in DOMAIN p /\ p[j - 1] = q[j]))
        BY <1>1, <2>1
      <3>2. CASE j - 1 \in DOMAIN p /\ p[j - 1] = q[j]
        <4>1. j - 1 <= i
          BY <2>1, <2>2, <3>2
        <4> QED
          BY <3>1, <4>1
      <3> QED
        BY <3>1, <3>2
    <2> QED
      BY <1>1, <2>1, <2>2 DEF IsLast
  <1>4. ASSUME NEW least, NEW most, Growing(q, t, least, most) PROVE Growing(p, t, least, most)
    <2> SUFFICES ASSUME NEW i \in DOMAIN p, p[i].type = t
                 PROVE  /\ least \subseteq p[i].names /\ p[i].names \subseteq most
                        /\ \A j \in DOMAIN p : p[j].type = t /\ i < j => p[i].names \subseteq p[j].names
      BY DEF Growing
    <2>1. i \in Nat /\ i + 1 \in DOMAIN q /\ p[i] = q[i + 1]
      BY <1>1
    <2>2. /\ least \subseteq q[i + 1].names /\ q[i + 1].names \subseteq most
          /\ \A j \in DOMAIN q : q[j].type = t /\ i + 1 < j => q[i + 1].names \subseteq q[j].names
      BY <1>4, <2>1 DEF Growing
    <2>3. ASSUME NEW j \in DOMAIN p, p[j].type = t, i < j PROVE p[i].names \subseteq p[j].names
      <3>1. j \in Nat /\ j + 1 \in DOMAIN q /\ p[j] = q[j + 1]
        BY <1>1
      <3>2. i + 1 < j + 1
        BY <2>1, <2>3, <3>1
      <3> QED
        BY <2>1, <2>2, <2>3, <3>1, <3>2
    <2> QED
      BY <2>1, <2>2, <2>3
  <1>5. SameLast(p, q, t)
    BY <1>3 DEF SameLast
  <1> QED
    BY <1>2, <1>4, <1>5 DEF p

\* Without its head, which is of the type.
LEMMA TailSame ==
    ASSUME NEW S, NEW q \in Seq(S), q # <<>>, NEW t, Head(q).type = t
    PROVE  /\ ~None(q, t)
           /\ None(Tail(q), t) => 1 \in DOMAIN q /\ IsLast(q, t, 1) /\ q[1] = Head(q)
           /\ SameLast(Tail(q), q, t)
           /\ \A least, most : Growing(q, t, least, most) =>
                 /\ least \subseteq Head(q).names /\ Head(q).names \subseteq most
                 /\ Growing(Tail(q), t, least, most)
                 /\ Growing(Tail(q), t, Head(q).names, most)
  <1> DEFINE p == Tail(q)
             h == Head(q)
  <1>1. /\ 1 \in DOMAIN q /\ h = q[1]
        /\ \A i \in DOMAIN p : i \in Nat /\ i + 1 \in DOMAIN q /\ p[i] = q[i + 1]
        /\ \A i \in DOMAIN q : i \in Nat /\ i >= 1 /\ (i = 1 \/ (i - 1 \in DOMAIN p /\ p[i - 1] = q[i]))
    BY TailParts
  <1>0. h.type = t
    OBVIOUS
  <1> HIDE DEF p, h
  <1>2. ~None(q, t)
    BY <1>0, <1>1 DEF None
  <1>3. ASSUME None(p, t) PROVE IsLast(q, t, 1)
    <2>1. ASSUME NEW j \in DOMAIN q, q[j].type = t PROVE j = 1
      BY <1>1, <1>3, <2>1 DEF None
    <2> QED
      BY <1>0, <1>1, <2>1 DEF IsLast
  <1>4. ASSUME NEW i, IsLast(p, t, i) PROVE i + 1 \in DOMAIN q /\ IsLast(q, t, i + 1) /\ p[i] = q[i + 1]
    <2>1. i \in DOMAIN p /\ p[i].type = t /\ \A j \in DOMAIN p : p[j].type = t => j <= i
      BY <1>4 DEF IsLast
    <2>2. i \in Nat /\ i + 1 \in DOMAIN q
      BY <1>1, <2>1
    <2>3. ASSUME NEW j \in DOMAIN q, q[j].type = t PROVE j <= i + 1
      <3>1. j \in Nat /\ (j = 1 \/ (j - 1 \in DOMAIN p /\ p[j - 1] = q[j]))
        BY <1>1
      <3>2. CASE j - 1 \in DOMAIN p /\ p[j - 1] = q[j]
        <4>1. j - 1 <= i
          BY <2>1, <2>3, <3>2
        <4> QED
          BY <2>2, <3>1, <4>1
      <3>3. CASE j = 1
        BY <2>2, <3>3
      <3> QED
        BY <3>1, <3>2, <3>3
    <2> QED
      BY <1>1, <2>1, <2>2, <2>3 DEF IsLast
  <1>5. ASSUME NEW least, NEW most, Growing(q, t, least, most)
        PROVE  /\ least \subseteq h.names /\ h.names \subseteq most
               /\ Growing(p, t, least, most) /\ Growing(p, t, h.names, most)
    <2>1. /\ least \subseteq h.names /\ h.names \subseteq most
          /\ \A j \in DOMAIN q : q[j].type = t /\ 1 < j => h.names \subseteq q[j].names
      BY <1>0, <1>1, <1>5 DEF Growing
    <2>2. ASSUME NEW i \in DOMAIN p, p[i].type = t
          PROVE  /\ least \subseteq p[i].names /\ p[i].names \subseteq most /\ h.names \subseteq p[i].names
                 /\ \A j \in DOMAIN p : p[j].type = t /\ i < j => p[i].names \subseteq p[j].names
      <3>1. i \in Nat /\ i + 1 \in DOMAIN q /\ p[i] = q[i + 1] /\ 1 <= i
        <4>1. i \in Nat /\ i + 1 \in DOMAIN q /\ p[i] = q[i + 1]
          BY <1>1
        <4>2. 1 <= i
          BY DEF p
        <4> QED
          BY <4>1, <4>2
      <3>2. /\ least \subseteq q[i + 1].names /\ q[i + 1].names \subseteq most
            /\ \A j \in DOMAIN q : q[j].type = t /\ i + 1 < j => q[i + 1].names \subseteq q[j].names
        BY <1>5, <2>2, <3>1 DEF Growing
      <3>3. h.names \subseteq q[i + 1].names
        <4>1. 1 < i + 1
          BY <3>1
        <4> QED
          BY <2>1, <2>2, <3>1, <4>1
      <3>4. ASSUME NEW j \in DOMAIN p, p[j].type = t, i < j PROVE p[i].names \subseteq p[j].names
        <4>1. j \in Nat /\ j + 1 \in DOMAIN q /\ p[j] = q[j + 1]
          BY <1>1
        <4>2. i + 1 < j + 1
          BY <3>1, <3>4, <4>1
        <4> QED
          BY <3>1, <3>2, <3>4, <4>1, <4>2
      <3> QED
        BY <3>1, <3>2, <3>3, <3>4
    <2> QED
      BY <2>1, <2>2 DEF Growing
  <1>6. SameLast(p, q, t)
    BY <1>4 DEF SameLast
  <1> QED
    BY <1>1, <1>2, <1>3, <1>5, <1>6 DEF p, h

\* A queue behind one element.
LEMMA Behind ==
    ASSUME NEW S, NEW d \in S, NEW q \in Seq(S)
    PROVE  /\ <<d>> \o q \in Seq(S) /\ <<d>> \o q # <<>>
           /\ Head(<<d>> \o q) = d /\ Tail(<<d>> \o q) = q
           /\ \A e \in S : <<d>> \o Append(q, e) = Append(<<d>> \o q, e)
  <1>1. <<d>> \o q \in Seq(S) /\ Len(<<d>> \o q) = 1 + Len(q) /\ Len(q) \in Nat
    OBVIOUS
  <1>2. /\ \A i \in 1 .. (1 + Len(q)) : (<<d>> \o q)[i] = IF i <= 1 THEN d ELSE q[i - 1]
    OBVIOUS
  <1>3. <<d>> \o q # <<>> /\ Head(<<d>> \o q) = d
    BY <1>1, <1>2
  <1>4. Tail(<<d>> \o q) = q
    OBVIOUS
  <1>5. \A e \in S : <<d>> \o Append(q, e) = Append(<<d>> \o q, e)
    OBVIOUS
  <1> QED
    BY <1>1, <1>3, <1>4, <1>5

\* A queue is its head and what follows it.
LEMMA HeadAndTail ==
    ASSUME NEW S, NEW q \in Seq(S), q # <<>>
    PROVE  Head(q) \in S /\ Tail(q) \in Seq(S) /\ <<Head(q)>> \o Tail(q) = q
  <1>1. Head(q) \in S /\ Tail(q) \in Seq(S)
    OBVIOUS
  <1>2. <<Head(q)>> \o Tail(q) = q
    OBVIOUS
  <1> QED
    BY <1>1, <1>2

\* The requests that were not handled yet, after a step of the client or the loop.
LEMMA PendParts ==
    ASSUME ServerInv, NEW s \in Streams
    PROVE  /\ Pend(s) \in Seq(DiscoveryRequests)
           /\ Handling(s) => Pend(s) # <<>> /\ Head(Pend(s)) = current[s] /\ Tail(Pend(s)) = toServer[s]
           /\ ~Handling(s) => Pend(s) = toServer[s]
  <1>1. toServer[s] \in Seq(DiscoveryRequests) /\ (Handling(s) => current[s] \in DiscoveryRequests)
    BY DEF ServerInv, TypeOK, CurrentInv
  <1> QED
    BY <1>1, Behind DEF Pend

\* The client sends a request.
LEMMA PendSent ==
    ASSUME ServerInv, NEW s \in Streams, NEW r \in DiscoveryRequests,
           toServer'[s] = Append(toServer[s], r), pc'[s] = pc[s], current'[s] = current[s]
    PROVE  Pend(s)' = Append(Pend(s), r)
  <1>1. toServer[s] \in Seq(DiscoveryRequests) /\ (Handling(s) => current[s] \in DiscoveryRequests)
    BY DEF ServerInv, TypeOK, CurrentInv
  <1>2. Handling(s)' = Handling(s)
    BY DEF Handling
  <1>3. CASE Handling(s)
    <2>1. <<current[s]>> \o Append(toServer[s], r) = Append(<<current[s]>> \o toServer[s], r)
      BY <1>1, <1>3, Behind
    <2> QED
      BY <1>2, <1>3, <2>1 DEF Pend
  <1>4. CASE ~Handling(s)
    BY <1>2, <1>4 DEF Pend
  <1> QED
    BY <1>3, <1>4

\* The loop takes a request from the wire, and handles it or keeps it in hand.
LEMMA PendTaken ==
    ASSUME ServerInv, NEW s \in Streams, ~Handling(s), toServer[s] # <<>>,
           toServer'[s] = Tail(toServer[s])
    PROVE  /\ Pend(s) # <<>> /\ Head(Pend(s)) = Head(toServer[s])
           /\ ~Handling(s)' => Pend(s)' = Tail(Pend(s))
           /\ Handling(s)' /\ current'[s] = Head(toServer[s]) => Pend(s)' = Pend(s)
  <1>1. toServer[s] \in Seq(DiscoveryRequests)
    BY DEF ServerInv, TypeOK
  <1>2. <<Head(toServer[s])>> \o Tail(toServer[s]) = toServer[s]
    BY <1>1, HeadAndTail
  <1>3. Pend(s) = toServer[s]
    BY DEF Pend
  <1>4. ~Handling(s)' => Pend(s)' = Tail(Pend(s))
    BY <1>3 DEF Pend
  <1>5. Handling(s)' /\ current'[s] = Head(toServer[s]) => Pend(s)' = Pend(s)
    BY <1>2, <1>3 DEF Pend
  <1> QED
    BY <1>3, <1>4, <1>5

----------------------------------------------------------------------------
(* How a client and its stream stay synced                                 *)

\* Watches are dropped, or the loop learns what was received.
LEMMA SyncedFewer ==
    ASSUME NEW st, NEW w, NEW k, NEW l, NEW q, NEW o, NEW open, NEW t, Synced(st, w, k, l, q, o, open, t),
           NEW k2, k2 = k \/ k2 = l.names, NEW open2, open2 \subseteq open
    PROVE  Synced(st, w, k2, l, q, o, open2, t)
  <1>1. k \subseteq k2 /\ k2 \subseteq l.names
    BY DEF Synced, Nested
  <1>2. Nested(st, w, k2, l)
    BY <1>1 DEF Synced, Nested
  <1>3. Settled(st, w, q, o, open2, t)
    BY DEF Synced, Settled
  <1>4. NoNews(k2, open2, t)
    BY <1>1 DEF Synced, NoNews
  <1> QED
    BY <1>2, <1>3, <1>4 DEF Synced

\* The client sends a request of the type.
LEMMA SyncedSends ==
    ASSUME NEW S, NEW st, NEW w, NEW k, NEW l, NEW q \in Seq(S), NEW o, NEW open, NEW t,
           Synced(st, w, k, l, q, o, open, t),
           NEW r, r.type = t, NEW st2, Tells(r, st2), st.names \subseteq st2.names,
           NEW o2, LastSent(o2, t, l), Received(st2, l, o2, t)
    PROVE  Synced(st2, w, k, l, Append(q, r), o2, open, t)
  <1>1. Nested(st2, w, k, l) /\ w.nonce \in {0, l.nonce} /\ NoNews(k, open, t)
    BY DEF Synced, Nested
  <1>2. Growing(Append(q, r), t, w.names, r.names)
    <2>1. Growing(q, t, w.names, st.names) /\ w.names \subseteq r.names /\ st.names \subseteq r.names
      BY DEF Synced, Nested, Tells
    <2> QED
      BY <2>1, AppendSame
  <1>3. ~None(Append(q, r), t) /\ \A i : IsLast(Append(q, r), t, i) => Append(q, r)[i] = r
    BY AppendSame
  <1>4. LastTells(Append(q, r), t, st2)
    BY <1>3 DEF LastTells
  <1>5. Growing(Append(q, r), t, w.names, st2.names)
    BY <1>2 DEF Tells
  <1>6. Settled(st2, w, Append(q, r), o2, open, t)
    BY <1>3 DEF Settled
  <1> QED
    BY <1>1, <1>4, <1>5, <1>6 DEF Synced

\* The client sends a request of another type.
LEMMA SyncedSendsOther ==
    ASSUME NEW S, NEW st, NEW w, NEW k, NEW l, NEW q \in Seq(S), NEW o, NEW open, NEW t,
           Synced(st, w, k, l, q, o, open, t), NEW r, r.type # t
    PROVE  Synced(st, w, k, l, Append(q, r), o, open, t)
  <1>1. Growing(q, t, w.names, st.names)
    BY DEF Synced
  <1>2. /\ None(Append(q, r), t) <=> None(q, t)
        /\ SameLast(Append(q, r), q, t)
        /\ Growing(Append(q, r), t, w.names, st.names)
    BY <1>1, AppendOther
  <1>3. LastTells(Append(q, r), t, st)
    BY <1>2 DEF Synced, LastTells, SameLast, IsLast
  <1>4. Settled(st, w, Append(q, r), o, open, t)
    BY <1>2 DEF Synced, Settled
  <1> QED
    BY <1>2, <1>3, <1>4 DEF Synced

\* The client takes a response of another type.
LEMMA SyncedGetsOther ==
    ASSUME NEW st, NEW w, NEW k, NEW l, NEW q, NEW R, NEW o \in Seq(R), NEW open, NEW t,
           Synced(st, w, k, l, q, o, open, t), o # <<>>, Head(o).type # t
    PROVE  Synced(st, w, k, l, q, Tail(o), open, t)
  <1>1. /\ None(Tail(o), t) <=> None(o, t)
        /\ SameLast(Tail(o), o, t)
    BY TailOther
  <1>2. LastSent(Tail(o), t, l)
    BY <1>1 DEF Synced, LastSent, SameLast, IsLast
  <1>3. Received(st, l, Tail(o), t) /\ Settled(st, w, q, Tail(o), open, t)
    BY <1>1 DEF Synced, Received, Settled
  <1> QED
    BY <1>2, <1>3 DEF Synced

\* What is known of the last response on the wire, when the client takes one.
LEMMA LastSentTail ==
    ASSUME NEW R, NEW o \in Seq(R), o # <<>>, NEW t, Head(o).type = t, NEW l, LastSent(o, t, l)
    PROVE  /\ LastSent(Tail(o), t, l)
           /\ None(Tail(o), t) => Head(o).nonce = l.nonce /\ Head(o).names = l.names
  <1>1. /\ None(Tail(o), t) => 1 \in DOMAIN o /\ IsLast(o, t, 1) /\ o[1] = Head(o)
        /\ SameLast(Tail(o), o, t)
    BY TailSame
  <1> QED
    BY <1>1 DEF LastSent, SameLast, IsLast

\* A request of another type is handled.
LEMMA SyncedTakesOther ==
    ASSUME NEW S, NEW st, NEW w, NEW k, NEW l, NEW q \in Seq(S), NEW o, NEW open, NEW t,
           Synced(st, w, k, l, q, o, open, t), q # <<>>, Head(q).type # t
    PROVE  Synced(st, w, k, l, Tail(q), o, open, t)
  <1>1. /\ None(Tail(q), t) <=> None(q, t)
        /\ SameLast(Tail(q), q, t)
        /\ Growing(Tail(q), t, w.names, st.names)
    BY TailOther DEF Synced
  <1>2. LastTells(Tail(q), t, st)
    BY <1>1 DEF Synced, LastTells, SameLast, IsLast
  <1>3. Settled(st, w, Tail(q), o, open, t)
    BY <1>1 DEF Synced, Settled
  <1> QED
    BY <1>1, <1>2, <1>3 DEF Synced

\* A request is outdated: it answers a response before the one sent last.
LEMMA SyncedStale ==
    ASSUME NEW S, NEW st, NEW w, NEW k, NEW l, NEW q \in Seq(S), NEW o, NEW open, NEW t,
           Synced(st, w, k, l, q, o, open, t), q # <<>>, Head(q).type = t,
           w.nonce # 0, w.nonce # Head(q).nonce
    PROVE  Synced(st, w, k, l, Tail(q), o, open, t)
  <1>1. /\ None(Tail(q), t) => 1 \in DOMAIN q /\ IsLast(q, t, 1) /\ q[1] = Head(q)
        /\ SameLast(Tail(q), q, t)
        /\ Growing(Tail(q), t, w.names, st.names)
    BY TailSame DEF Synced
  <1>2. LastTells(Tail(q), t, st)
    BY <1>1 DEF Synced, LastTells, SameLast, IsLast
  <1>3. Settled(st, w, Tail(q), o, open, t)
    <2>1. ASSUME None(Tail(q), t), None(o, t) PROVE FALSE
      <3>1. Head(q).nonce = st.nonce
        BY <1>1, <2>1 DEF Synced, LastTells, Tells
      <3>2. l.nonce # 0 /\ w.nonce = l.nonce
        BY DEF Synced
      <3>3. st.nonce = l.nonce
        BY <2>1, <3>2 DEF Synced, Received
      <3> QED
        BY <3>1, <3>2, <3>3
    <2> QED
      BY <2>1 DEF Settled
  <1> QED
    BY <1>1, <1>2, <1>3 DEF Synced

\* What is noted of a request that is accepted, and of a response that is sent.
Accepts(w, r) == w.active /\ w.nonce = 0 /\ w.names = r.names
Records(w, w2, l, r) ==
    /\ r.names = w.names
    /\ w2.names = w.names /\ w2.nonce = r.nonce
    /\ l.names = r.names /\ l.nonce = r.nonce

\* A request is accepted, and the cache holds a watch for it or has answered it.
LEMMA SyncedOpens ==
    ASSUME NEW S, NEW st, NEW w, NEW k, NEW l, NEW q \in Seq(S), NEW o, NEW open, NEW t,
           Synced(st, w, k, l, q, o, open, t), q # <<>>, Head(q).type = t,
           NEW w2, Accepts(w2, Head(q)),
           NEW open2, \A x \in open2 : x.request.version = Head(q).version, NoNews(k, open2, t)
    PROVE  Synced(st, w2, k, l, Tail(q), o, open2, t)
  <1>0. Growing(q, t, w.names, st.names)
    BY DEF Synced
  <1>1. /\ None(Tail(q), t) => 1 \in DOMAIN q /\ IsLast(q, t, 1) /\ q[1] = Head(q)
        /\ SameLast(Tail(q), q, t)
        /\ w.names \subseteq Head(q).names /\ Head(q).names \subseteq st.names
        /\ Growing(Tail(q), t, Head(q).names, st.names)
    BY <1>0, TailSame
  <1>2. LastTells(Tail(q), t, st)
    BY <1>1 DEF Synced, LastTells, SameLast, IsLast
  <1>3. Settled(st, w2, Tail(q), o, open2, t)
    <2>1. None(Tail(q), t) => Tells(Head(q), st)
      BY <1>1 DEF Synced, LastTells, SameLast, IsLast
    <2> QED
      BY <2>1 DEF Settled, Tells, Accepts
  <1>4. Nested(st, w2, k, l)
    BY <1>1 DEF Synced, Nested, Accepts
  <1> QED
    BY <1>1, <1>2, <1>3, <1>4 DEF Synced, Accepts

\* A response of the type is sent.
LEMMA SyncedSent ==
    ASSUME NEW st, NEW w, NEW k, NEW l, NEW q, NEW R, NEW o \in Seq(R), NEW open, NEW t,
           Synced(st, w, k, l, q, o, open, t),
           NEW r, r.type = t, NEW l2, NEW w2, Records(w, w2, l2, r)
    PROVE  Synced(st, w2, k, l2, q, Append(o, r), open, t)
  <1>1. ~None(Append(o, r), t) /\ \A i : IsLast(Append(o, r), t, i) => Append(o, r)[i] = r
    BY AppendSame
  <1>2. LastSent(Append(o, r), t, l2) /\ Received(st, l2, Append(o, r), t) /\ Settled(st, w2, q, Append(o, r), open, t)
    BY <1>1 DEF LastSent, Received, Settled, Records
  <1>3. Nested(st, w2, k, l2)
    BY DEF Synced, Nested, Records
  <1>4. w2.nonce \in {0, l2.nonce}
    BY DEF Records
  <1>5. Growing(q, t, w2.names, st.names) /\ LastTells(q, t, st) /\ NoNews(k, open, t)
    BY DEF Synced, Records
  <1> QED
    BY <1>2, <1>3, <1>4, <1>5 DEF Synced

\* A response of another type is sent.
LEMMA SyncedSentOther ==
    ASSUME NEW st, NEW w, NEW k, NEW l, NEW q, NEW R, NEW o \in Seq(R), NEW open, NEW t,
           Synced(st, w, k, l, q, o, open, t), NEW r, r.type # t
    PROVE  Synced(st, w, k, l, q, Append(o, r), open, t)
  <1>1. /\ None(Append(o, r), t) <=> None(o, t)
        /\ SameLast(Append(o, r), o, t)
    BY AppendOther
  <1>2. LastSent(Append(o, r), t, l)
    BY <1>1 DEF Synced, LastSent, SameLast, IsLast
  <1>3. Received(st, l, Append(o, r), t) /\ Settled(st, w, q, Append(o, r), open, t)
    BY <1>1 DEF Synced, Received, Settled
  <1> QED
    BY <1>2, <1>3 DEF Synced

\* A stream that was not used before.
LEMMA SyncedFresh ==
    ASSUME NEW st, NEW w, NEW l, NEW t, ~st.asked, w.nonce = 0, w.names = {}, l.nonce = 0, l.names = {},
           st.rejected \/ Has(st, t, {})
    PROVE  Synced(st, w, {}, l, <<>>, <<>>, {}, t)
  <1>1. DOMAIN <<>> = {}
    OBVIOUS
  <1>2. Growing(<<>>, t, w.names, st.names) /\ LastTells(<<>>, t, st) /\ LastSent(<<>>, t, l)
    BY <1>1 DEF Growing, LastTells, LastSent
  <1> QED
    BY <1>2 DEF Synced, Nested, Received, Settled, NoNews

----------------------------------------------------------------------------
(* What versions stand for                                                 *)

\* A response made from a snapshot carries what its version has.
LEMMA MadeCarries ==
    ASSUME VersionsNameContents, CacheTypeOK, NEW n \in Nodes, NEW t \in Types, Exists(n),
           NEW request, request.node = n, request.type = t, NEW pushed
    PROVE  Carries(createResponse(request, SnapshotResources(n, t), FALSE, pushed), t, request.names)
  <1>1. PICK S \in Snapshots : S = snapshots[n]
    BY DEF CacheTypeOK, Exists
  <1>2. PICK contents : contents = S.resources[t]
    OBVIOUS
  <1>3. \A S2 \in Snapshots : S2.version[t] = S.version[t] => S2.resources[t] = contents
    BY <1>2 DEF VersionsNameContents
  <1>4. PICK r : r = createResponse(request, SnapshotResources(n, t), FALSE, pushed)
    OBVIOUS
  <1>5. /\ r.heartbeat = FALSE /\ r.version = S.version[t]
        /\ r.resources = IF request.names = {} THEN contents
                         ELSE Restrict(contents, DOMAIN contents \cap request.names)
    BY <1>1, <1>2, <1>4 DEF createResponse, SnapshotResources, SnapshotVersion
  <1>6. Faithful(t, r.version, request.names, r.resources)
    BY <1>3, <1>5 DEF Faithful
  <1> QED
    BY <1>4, <1>5, <1>6 DEF Carries

\* A channel that gets an answer, and one that is taken from.
LEMMA GenuineAnswered ==
    ASSUME NEW buffer \in Seq(Responses), NEW t, GenuineIn(buffer, t), NEW request, NEW resources, NEW pushed,
           Carries(createResponse(request, resources, FALSE, pushed), t, request.names)
    PROVE  GenuineIn(Answered(buffer, request, resources, FALSE, pushed), t)
  <1>1. PICK r : r = createResponse(request, resources, FALSE, pushed)
    OBVIOUS
  <1>2. r.request = request
    BY <1>1 DEF createResponse
  <1>3. PICK b : b = Append(buffer, r)
    OBVIOUS
  <1>4. /\ DOMAIN b = DOMAIN buffer \cup {Len(buffer) + 1} /\ b[Len(buffer) + 1] = r
        /\ \A i \in DOMAIN buffer : b[i] = buffer[i]
    BY <1>3, AppendParts
  <1>5. GenuineIn(b, t)
    BY <1>1, <1>2, <1>4 DEF GenuineIn
  <1> QED
    BY <1>1, <1>3, <1>5 DEF Answered

\* A channel that is taken from.
LEMMA GenuineTail ==
    ASSUME NEW buffer \in Seq(Responses), buffer # <<>>, NEW t, GenuineIn(buffer, t)
    PROVE  GenuineIn(Tail(buffer), t) /\ Carries(Head(buffer), t, Head(buffer).request.names)
  <1>1. PICK b : b = Tail(buffer)
    OBVIOUS
  <1>2. /\ 1 \in DOMAIN buffer /\ Head(buffer) = buffer[1]
        /\ \A i \in DOMAIN b : i + 1 \in DOMAIN buffer /\ b[i] = buffer[i + 1]
    BY <1>1, TailParts
  <1>3. GenuineIn(b, t)
    BY <1>2 DEF GenuineIn
  <1> QED
    BY <1>1, <1>2, <1>3 DEF GenuineIn

\* The wire with one more response, and without its head.
LEMMA GenuineWire ==
    ASSUME NEW o \in Seq(DiscoveryResponses), GenuineOn(o)
    PROVE  /\ \A r : Carries(r, r.type, r.names) => GenuineOn(Append(o, r))
           /\ o # <<>> => GenuineOn(Tail(o)) /\ Carries(Head(o), Head(o).type, Head(o).names)
  <1>1. ASSUME NEW r, Carries(r, r.type, r.names) PROVE GenuineOn(Append(o, r))
    <2>1. PICK p : p = Append(o, r)
      OBVIOUS
    <2>2. /\ DOMAIN p = DOMAIN o \cup {Len(o) + 1} /\ p[Len(o) + 1] = r
          /\ \A i \in DOMAIN o : p[i] = o[i]
      BY <2>1, AppendParts
    <2>3. GenuineOn(p)
      BY <1>1, <2>2 DEF GenuineOn
    <2> QED
      BY <2>1, <2>3
  <1>2. ASSUME o # <<>> PROVE GenuineOn(Tail(o)) /\ Carries(Head(o), Head(o).type, Head(o).names)
    <2>1. PICK p : p = Tail(o)
      OBVIOUS
    <2>2. /\ 1 \in DOMAIN o /\ Head(o) = o[1]
          /\ \A i \in DOMAIN p : i + 1 \in DOMAIN o /\ p[i] = o[i + 1]
      BY <1>2, <2>1, TailParts
    <2>3. GenuineOn(p)
      BY <2>2 DEF GenuineOn
    <2> QED
      BY <2>1, <2>2, <2>3 DEF GenuineOn
  <1> QED
    BY <1>1, <1>2

\* Who accepts a response has what its version has of the names.
LEMMA AckHas ==
    ASSUME NEW st \in ClientStates, NEW r \in DiscoveryResponses, NEW t, Carries(r, t, r.names),
           r.names = {} <=> st.names = {}, NEW names \in SUBSET r.names, names \subseteq st.names
    PROVE  Has(OnAck(st, r), t, names)
  <1>1. PICK st2 \in ClientStates : /\ st2 = OnAck(st, r) /\ st2.names = st.names /\ st2.version = r.version
                                    /\ st2.content = Updated(st, r)
    BY OnAckParts
  <1>2. ASSUME NEW S \in Snapshots, S.version[t] = st2.version
        PROVE  /\ \A x \in names \cap DOMAIN S.resources[t] :
                     x \in DOMAIN st2.content /\ st2.content[x] = S.resources[t][x]
               /\ st2.names = {} => st2.content = S.resources[t]
    <2>1. PICK contents : contents = S.resources[t]
      OBVIOUS
    <2>2. /\ ~r.heartbeat
          /\ r.resources = IF r.names = {} THEN contents ELSE Restrict(contents, DOMAIN contents \cap r.names)
      BY <1>1, <1>2, <2>1 DEF Carries, Faithful
    <2>3. CASE st.names = {}
      BY <1>1, <2>1, <2>2, <2>3 DEF Updated
    <2>4. CASE st.names # {}
      <3>1. /\ DOMAIN r.resources = DOMAIN contents \cap r.names
            /\ \A x \in DOMAIN contents \cap r.names : r.resources[x] = contents[x]
        BY <2>2, <2>4 DEF Restrict
      <3>2. \A x \in st.names \cap DOMAIN r.resources :
               x \in DOMAIN Updated(st, r) /\ Updated(st, r)[x] = r.resources[x]
        BY <2>2, <2>4 DEF Updated
      <3> QED
        BY <1>1, <2>1, <2>4, <3>1, <3>2
    <2> QED
      BY <2>3, <2>4
  <1>3. Has(st2, t, names)
    BY <1>2 DEF Has
  <1> QED
    BY <1>1, <1>3

\* What is held is held under other names and by other records.
LEMMA HasSame ==
    ASSUME NEW st, NEW st2, NEW t, NEW names, Has(st, t, names), st2.version = st.version,
           st2.content = st.content, st2.names = {} => st.names = {}
    PROVE  Has(st2, t, names)
  BY DEF Has

----------------------------------------------------------------------------
(* Other streams                                                           *)

\* The step opens watches for the stream s only.
OpensFor(s) == \A x \in watches' : x \in watches \/ x.chan[1] = s

\* What a step of another stream leaves as it was.
LEMMA StreamStays ==
    ASSUME NEW s \in Streams, StreamOK(s), Untouched(s),
           \A x \in watches' : x \in watches \/ x.chan[1] # s,
           Used(s)' => Used(s) /\ client'[StreamNode[s]] = client[StreamNode[s]],
           Exists(StreamNode[s]) => Exists(StreamNode[s])'
    PROVE  StreamOK(s)'
  <1>1. Pend(s)' = Pend(s)
    BY DEF Untouched, Pend, Handling
  <1>2. \A t \in Types : /\ Channel(s, t)' = Channel(s, t) /\ Channel(s, t)[1] = s
                         /\ responses'[Channel(s, t)] = responses[Channel(s, t)]
    BY ChannelTyped DEF Channel, Untouched
  <1>3. ASSUME Used(s)', NEW t \in Types PROVE Sync(s, t)'
    <2>1. OpenOn(Channel(s, t), t)' \in SUBSET OpenOn(Channel(s, t), t)
      BY <1>2 DEF OpenOn
    <2>2. PICK st, w, k, l, q, o, open : /\ st = client[StreamNode[s]][t] /\ w = responders[s][t]
                                         /\ k = known[s][t] /\ l = last[s][t] /\ q = Pend(s)
                                         /\ o = toClient[s] /\ open = OpenOn(Channel(s, t), t)
      OBVIOUS
    <2>3. /\ st = client'[StreamNode[s]][t] /\ w = responders'[s][t] /\ k = known'[s][t]
          /\ l = last'[s][t] /\ q = Pend(s)' /\ o = toClient'[s]
      BY <1>1, <1>3, <2>2 DEF Untouched
    <2>4. Synced(st, w, k, l, q, o, open, t)
      BY <1>3, <2>2 DEF StreamOK, Sync
    <2>5. PICK open2 \in SUBSET open : open2 = OpenOn(Channel(s, t), t)'
      BY <2>1, <2>2
    <2>6. Synced(st, w, k, l, q, o, open2, t)
      BY <2>4, SyncedFewer
    <2> QED
      BY <2>3, <2>5, <2>6 DEF Sync
  <1>4. Genuine(s)'
    BY <1>2 DEF StreamOK, Genuine, Untouched
  <1>5. Blank(s)'
    BY <1>1, <1>2 DEF StreamOK, Blank, Untouched
  <1> QED
    BY <1>3, <1>4, <1>5 DEF StreamOK

\* It is enough to look at the stream and its client.
LEMMA ConvergedHere ==
    ASSUME ConvergedInv, ServiceInv', PlainInv', NEW s \in Streams, Elsewhere(s), OpensFor(s),
           StreamOK(s)', Holding(StreamNode[s])'
    PROVE  ConvergedInv'
  <1>1. UNCHANGED snapshots
    BY DEF Elsewhere, setVars
  <1>2. ASSUME NEW s2 \in Streams, s2 # s PROVE StreamOK(s2)'
    <2>1. Untouched(s2) /\ StreamOK(s2)
      BY <1>2 DEF Elsewhere, ConvergedInv
    <2>2. StreamNode[s2] \in Nodes /\ s2 # NoStream
      BY StreamAssumption
    <2>3. Used(s2)' => Used(s2) /\ client'[StreamNode[s2]] = client[StreamNode[s2]]
      BY <1>2, <2>2 DEF Used, Elsewhere
    <2>4. \A x \in watches' : x \in watches \/ x.chan[1] # s2
      BY <1>2 DEF OpensFor
    <2>5. Exists(StreamNode[s2]) => Exists(StreamNode[s2])'
      BY <1>1 DEF Exists
    <2> QED
      BY <2>1, <2>3, <2>4, <2>5, StreamStays
  <1>3. ASSUME NEW n \in Nodes, n # StreamNode[s] PROVE Holding(n)'
    <2>1. Holding(n) /\ client'[n] = client[n]
      BY <1>3 DEF ConvergedInv, Elsewhere
    <2> QED
      BY <1>1, <2>1 DEF Holding, Exists
  <1> QED
    BY <1>2, <1>3 DEF ConvergedInv

\* Only accepting a request opens a watch.
LEMMA OpensHere ==
    ASSUME ServerInv, NEW s \in Streams,
           \/ ServerActs(s) \/ CloseRequests(s) \/ Connect(s) \/ Disconnect(s) \/ RefuseRequest(s)
    PROVE  OpensFor(s)
  <1>1. ASSUME watches' \subseteq watches PROVE OpensFor(s)
    BY <1>1 DEF OpensFor
  <1>2. ASSUME NEW r \in DiscoveryRequests, OpenWatch(s, r) PROVE OpensFor(s)
    <2>1. PICK x : x = [id |-> watchCount + 1, request |-> CacheRequest(s, r), chan |-> Channel(s, r.type)]
      OBVIOUS
    <2>2. x.chan[1] = s
      BY <2>1 DEF Channel
    <2>3. watches' = watches \/ watches' = watches \cup {x}
      BY <1>2, <2>1, OpenWatchEffect
    <2> QED
      BY <2>2, <2>3 DEF OpensFor
  <1>3. CASE EnterADS(s) \/ Exit(s) \/ CloseMux(s) \/ Closed(s) \/ CloseRequests(s) \/ Connect(s)
             \/ Disconnect(s) \/ RefuseRequest(s)
    BY <1>1, <1>3, OtherStepKeeps DEF Keeps
  <1>4. CASE SendResponse(s) \/ Drain(s)
    BY <1>1, <1>4, SendKeeps DEF Keeps
  <1>5. CASE \E t \in Types : CloseWatch(s, t)
    BY <1>1, <1>5, CancelEffect DEF CloseWatch
  <1>6. CASE SupersedeWatch(s)
    BY <1>2, <1>6 DEF SupersedeWatch, ServerInv, CurrentInv, Handling
  <1>7. CASE RecvRequest(s)
    <2>1. PICK r \in Incoming(s) : Take(s, r) /\ Handle(s, r)
      BY <1>7 DEF RecvRequest
    <2>2. r \in DiscoveryRequests /\ r.type \in Types
      BY <2>1, IncomingTyped, CacheRequestTyped DEF ServerInv
    <2>3. CancelResponder(s, r.type) => watches' \subseteq watches
      BY <2>2, CancelEffect
    <2>4. UNCHANGED cacheVars => watches' \subseteq watches
      BY DEF cacheVars, watchVars
    <2> QED
      BY <1>1, <1>2, <2>1, <2>2, <2>3, <2>4 DEF Handle
  <1> QED
    BY <1>3, <1>4, <1>5, <1>6, <1>7 DEF ServerActs

----------------------------------------------------------------------------
(* No heartbeats, no ordered ADS                                           *)

\* The loop takes the next request from the wire.
LEMMA TakenIsHead ==
    ASSUME ServerInv, PlainInv, NEW s \in Streams, RecvRequest(s) \/ RefuseRequest(s)
    PROVE  \E r \in DiscoveryRequests :
              /\ toServer[s] # <<>> /\ r = Head(toServer[s])
              /\ toServer' = [toServer EXCEPT ![s] = Tail(@)] /\ UNCHANGED resent
              /\ RecvRequest(s) => Handle(s, r)
  <1>1. PICK r \in Incoming(s) : Take(s, r) /\ (RecvRequest(s) => Handle(s, r))
    BY DEF RecvRequest, RefuseRequest
  <1>2. r \in DiscoveryRequests
    BY <1>1, IncomingTyped DEF ServerInv
  <1>3. resent[s] = NoRequest
    BY DEF PlainInv
  <1> QED
    BY <1>1, <1>2, <1>3, RequestAssumption DEF Take

\* There are none after any step.
LEMMA PlainStep ==
    ASSUME ~Ordered, ServerInv, PlainInv, [Next]_vars
    PROVE  PlainInv'
  <1>0. /\ pc \in [Streams -> {"idle", "process", "ads", "drain", "create", "closing", "closed"}]
    BY DEF ServerInv, TypeOK
  <1>1. CASE CacheActs
    <2>1. UNCHANGED <<pc, resent>>
      BY <1>1 DEF CacheActs, serverVars, loopVars
    <2>2. heartbeat = "off" /\ holder # "beat"
      BY DEF PlainInv
    <2>3. heartbeat' = "off" /\ holder' # "beat"
      <3>1. ASSUME NEW n, AbortSetSnapshot(n) \/ ClearSnapshot(n) \/ \E sn \in Snapshots : SetSnapshot(n, sn)
            PROVE  heartbeat' = "off" /\ holder' # "beat"
        BY <2>2, <3>1 DEF AbortSetSnapshot, ClearSnapshot, SetSnapshot, Continue, beatVars, lockVars
      <3>2. ASSUME NEW w, RespondWatch(w) \/ RespondDeltaWatch(w)
            PROVE  heartbeat' = "off" /\ holder' # "beat"
        BY <2>2, <3>2 DEF RespondWatch, RespondDeltaWatch, Continue, beatVars
      <3>3. /\ ~HeartbeatTick /\ ~CancelHeartbeats /\ ~StopHeartbeats
            /\ \A w : ~SendHeartbeat(w) /\ ~LoseHeartbeat(w)
        BY <2>2 DEF HeartbeatTick, CancelHeartbeats, StopHeartbeats, SendHeartbeat, LoseHeartbeat
      <3> QED
        BY <1>1, <3>1, <3>2, <3>3 DEF CacheActs, CacheStep
    <2> QED
      BY <2>1, <2>3 DEF PlainInv
  <1>2. ASSUME UNCHANGED <<heartbeat, holder>>, NEW s \in Streams,
               pc'[s] \notin {"ads", "drain"}, resent'[s] = NoRequest,
               \A s2 \in Streams : s2 # s => pc'[s2] = pc[s2] /\ resent'[s2] = resent[s2]
        PROVE  PlainInv'
    BY <1>2 DEF PlainInv
  <1>3. ASSUME UNCHANGED <<heartbeat, holder, pc, resent>> PROVE PlainInv'
    BY <1>3 DEF PlainInv
  <1>4. UNCHANGED cacheVars => UNCHANGED <<heartbeat, holder>>
    BY DEF cacheVars, beatVars, lockVars
  <1>5. CASE \/ \E n \in Nodes : \/ \E t \in Types : Ask(n, t) \/ AskMore(n, t) \/ Follow(n, t)
                                 \/ Ack(n) \/ Nack(n)
             \/ UNCHANGED vars
    <2>1. CASE UNCHANGED vars
      BY <1>3, <1>4, <2>1 DEF vars, loopVars
    <2>2. ASSUME NEW n, NEW t, Ask(n, t) \/ AskMore(n, t) \/ Follow(n, t) \/ Ack(n) \/ Nack(n)
          PROVE  UNCHANGED <<cacheVars, loopVars>>
      BY <2>2 DEF Ask, AskMore, Follow, Ack, Nack
    <2> QED
      BY <1>3, <1>4, <1>5, <2>1, <2>2 DEF loopVars
  <1>6. ASSUME NEW s \in Streams, \/ EnterADS(s) \/ Exit(s) \/ CloseMux(s) \/ Closed(s) \/ CloseRequests(s)
                                  \/ Connect(s) \/ Disconnect(s)
        PROVE  PlainInv'
    <2>1. UNCHANGED cacheVars /\ UNCHANGED resent /\ ~EnterADS(s)
      BY <1>6 DEF EnterADS, Exit, CloseMux, Closed, CloseRequests, Connect, Disconnect, loopVars
    <2>2. UNCHANGED pc \/ \E p \in {"closing", "closed", "process"} : pc' = [pc EXCEPT ![s] = p]
      BY <1>6, <2>1 DEF Exit, CloseMux, Closed, CloseRequests, Connect, Disconnect, loopVars
    <2>3. resent'[s] = NoRequest
      BY <2>1 DEF PlainInv
    <2>4. CASE UNCHANGED pc
      BY <1>3, <1>4, <2>1, <2>4
    <2>5. CASE \E p \in {"closing", "closed", "process"} : pc' = [pc EXCEPT ![s] = p]
      BY <1>0, <1>2, <1>4, <2>1, <2>3, <2>5
    <2> QED
      BY <2>2, <2>4, <2>5
  <1>7. ASSUME NEW s \in Streams, NEW t \in Types, CloseWatch(s, t) PROVE PlainInv'
    BY <1>3, <1>4, <1>7 DEF CloseWatch, CancelResponder, CancelWatch, loopVars, lockVars, beatVars
  <1>8. ASSUME NEW s \in Streams, SendResponse(s) \/ Drain(s) PROVE PlainInv'
    <2>1. pc[s] # "drain"
      BY DEF PlainInv
    <2> QED
      BY <1>3, <1>8, <2>1 DEF SendResponse, Drain, loopVars, lockVars, beatVars
  <1>9. ASSUME NEW s \in Streams, SupersedeWatch(s) PROVE PlainInv'
    <2>1. pc' = [pc EXCEPT ![s] = "process"] /\ UNCHANGED resent
      BY <1>9 DEF SupersedeWatch, Loop
    <2>2. UNCHANGED <<heartbeat, holder>>
      BY <1>9 DEF SupersedeWatch, OpenWatch, CreateWatch, lockVars, beatVars
    <2>3. resent'[s] = NoRequest
      BY <2>1 DEF PlainInv
    <2> QED
      BY <1>0, <1>2, <2>1, <2>2, <2>3
  <1>10. ASSUME NEW s \in Streams, RefuseRequest(s) PROVE PlainInv'
    <2>1. UNCHANGED <<cacheVars, resent>> /\ pc' = [pc EXCEPT ![s] = "closing"]
      BY <1>10, TakenIsHead DEF RefuseRequest
    <2>2. resent'[s] = NoRequest
      BY <2>1 DEF PlainInv
    <2> QED
      BY <1>0, <1>2, <1>4, <2>1, <2>2
  <1>11. ASSUME NEW s \in Streams, RecvRequest(s) PROVE PlainInv'
    <2>1. PICK r \in DiscoveryRequests : UNCHANGED resent /\ Handle(s, r)
      BY <1>11, TakenIsHead
    <2>2. UNCHANGED <<heartbeat, holder>>
      <3>1. OpenWatch(s, r) => UNCHANGED <<heartbeat, holder>>
        BY DEF OpenWatch, CreateWatch, lockVars, beatVars
      <3>2. CancelResponder(s, r.type) => UNCHANGED <<heartbeat, holder>>
        BY <1>4 DEF CancelResponder, CancelWatch, lockVars, beatVars
      <3> QED
        BY <1>4, <2>1, <3>1, <3>2 DEF Handle
    <2>3. UNCHANGED pc \/ pc' = [pc EXCEPT ![s] = "create"]
      BY <2>1 DEF Handle
    <2>4. resent'[s] = NoRequest
      BY <2>1 DEF PlainInv
    <2>5. CASE UNCHANGED pc
      BY <1>3, <2>1, <2>2, <2>5
    <2>6. CASE pc' = [pc EXCEPT ![s] = "create"]
      BY <1>0, <1>2, <2>1, <2>2, <2>4, <2>6
    <2> QED
      BY <2>3, <2>5, <2>6
  <1> QED
    BY <1>1, <1>5, <1>6, <1>7, <1>8, <1>9, <1>10, <1>11 DEF Next, ServerActs

----------------------------------------------------------------------------
(* The steps that keep clients and streams synced                          *)

\* The cache keeps the snapshots of nodes, and answers watches of nodes that have one.
LEMMA CacheFills ==
    ASSUME ~Clearing, PlainInv, CacheActs
    PROVE  /\ \A n \in Nodes : Exists(n) => Exists(n)'
           /\ \/ UNCHANGED responses
              \/ /\ UNCHANGED snapshots
                 /\ \E w \in todo : Fills(w, SnapshotResources(w.request.node, w.request.type), FALSE, TRUE)
  <1>1. \/ UNCHANGED responses
        \/ /\ UNCHANGED snapshots
           /\ \E w \in todo : Fills(w, SnapshotResources(w.request.node, w.request.type), FALSE, TRUE)
    <2>1. \A w \in todo : ~SendHeartbeat(w)
      BY DEF SendHeartbeat, PlainInv
    <2> QED
      BY <2>1, CacheActsFill
  <1>2. UNCHANGED snapshots \/ \E n \in Nodes, S \in Snapshots : snapshots' = [snapshots EXCEPT ![n] = S]
    <2>1. \A n : ~ClearSnapshot(n)
      BY DEF ClearSnapshot
    <2> QED
      BY <2>1 DEF CacheActs, CacheStep, SetSnapshot, RespondWatch, RespondDeltaWatch, AbortSetSnapshot, HeartbeatTick,
         SendHeartbeat, LoseHeartbeat, CancelHeartbeats, StopHeartbeats, setVars
  <1>3. ASSUME NEW n \in Nodes, Exists(n) PROVE Exists(n)'
    <2>1. CASE UNCHANGED snapshots
      BY <1>3, <2>1 DEF Exists
    <2>2. ASSUME NEW m \in Nodes, NEW S \in Snapshots, snapshots' = [snapshots EXCEPT ![m] = S]
          PROVE  Exists(n)'
      <3>1. DOMAIN snapshots' = DOMAIN snapshots
        BY <2>2
      <3>2. snapshots'[n] = snapshots[n] \/ snapshots'[n] = S
        BY <2>2
      <3> QED
        BY <1>3, <3>2, SnapshotAssumption DEF Exists
    <2> QED
      BY <1>2, <2>1, <2>2
  <1> QED
    BY <1>1, <1>3

\* Snapshots are set, and watches are answered.
LEMMA ConvergedCache ==
    ASSUME VersionsNameContents, ~Ordered, ~Clearing, ConvergedInv, ServiceInv', PlainInv', CacheActs
    PROVE  ConvergedInv'
  <1>0. /\ TypeOK /\ CacheTypeOK /\ LockDiscipline /\ ServerInv /\ PlainInv /\ WatchInv
        /\ responses \in [Channels -> Seq(Responses)]
    BY DEF ConvergedInv, ServiceInv, ServerInv, TypeOK, CacheTypeOK
  <1>1. UNCHANGED <<toServer, toClient, pc, current, last, known, responders, conn, client>>
    BY DEF CacheActs, serverVars, loopVars, watcherVars, sentVars, linkVars, clientVars
  <1>2. watches' \subseteq watches
    BY <1>0, CacheActsKeeps DEF Keeps
  <1>3. \A n \in Nodes : Exists(n) => Exists(n)'
    BY <1>0, CacheFills
  <1>4. ASSUME NEW s \in Streams PROVE StreamOK(s)'
    <2>1. StreamOK(s) /\ StreamNode[s] \in Nodes
      BY StreamAssumption DEF ConvergedInv
    <2>2. Pend(s)' = Pend(s) /\ (Used(s)' <=> Used(s))
      BY <1>1 DEF Pend, Handling, Used
    <2>3. ASSUME Used(s)', NEW t \in Types PROVE Sync(s, t)'
      <3>1. OpenOn(Channel(s, t), t)' \in SUBSET OpenOn(Channel(s, t), t)
        BY <1>2 DEF OpenOn, Channel
      <3>2. PICK st, w, k, l, q, o, open : /\ st = client[StreamNode[s]][t] /\ w = responders[s][t]
                                           /\ k = known[s][t] /\ l = last[s][t] /\ q = Pend(s)
                                           /\ o = toClient[s] /\ open = OpenOn(Channel(s, t), t)
        OBVIOUS
      <3>3. Synced(st, w, k, l, q, o, open, t)
        BY <2>1, <2>2, <2>3, <3>2 DEF StreamOK, Sync
      <3>4. PICK open2 \in SUBSET open : open2 = OpenOn(Channel(s, t), t)'
        BY <3>1, <3>2
      <3>5. Synced(st, w, k, l, q, o, open2, t)
        BY <3>3, SyncedFewer
      <3> QED
        BY <1>1, <2>2, <3>2, <3>4, <3>5 DEF Sync
    <2>4. ASSUME NEW w \in todo, UNCHANGED snapshots, NEW t \in Types,
                 Fills(w, SnapshotResources(w.request.node, w.request.type), FALSE, TRUE)
          PROVE  \/ responses'[Channel(s, t)] = responses[Channel(s, t)]
                 \/ Exists(StreamNode[s]) /\ GenuineIn(responses'[Channel(s, t)], t)
      <3>1. w \in watches /\ Exists(w.request.node)
        BY <1>0 DEF CacheTypeOK, LockDiscipline
      <3>2. PICK s2 \in Streams : Owned(w, s2)
        BY <1>0, <3>1 DEF WatchInv
      <3>3. PICK request, c : request = w.request /\ c = w.chan
        OBVIOUS
      <3>4. request \in Requests /\ request.type \in Types /\ request.node \in Nodes /\ c \in Channels
        BY <1>0, <3>1, <3>3 DEF CacheTypeOK, Watches, Requests
      <3>5. c = Channel(s2, request.type) /\ request.node = StreamNode[s2] /\ Exists(request.node)
        BY <3>1, <3>2, <3>3 DEF Owned
      <3>6. responses' = [responses EXCEPT ![c] =
               Answered(@, request, SnapshotResources(request.node, request.type), FALSE, TRUE)]
        BY <2>4, <3>3 DEF Fills
      <3>7. CASE Channel(s, t) # c
        BY <3>6, <3>7
      <3>8. CASE Channel(s, t) = c
        <4>1. s2 = s /\ request.type = t
          BY <3>5, <3>8, ChannelOfStream
        <4>2. PICK buffer \in Seq(Responses) : buffer = responses[c]
          BY <1>0, <3>4
        <4>3. GenuineIn(buffer, t)
          BY <2>1, <3>8, <4>2 DEF StreamOK, Genuine
        <4>4. Carries(createResponse(request, SnapshotResources(request.node, t), FALSE, TRUE), t, request.names)
          BY <1>0, <3>4, <3>5, <4>1, MadeCarries
        <4>5. responses'[c] = Answered(buffer, request, SnapshotResources(request.node, t), FALSE, TRUE)
          BY <1>0, <3>4, <3>6, <4>1, <4>2
        <4>6. GenuineIn(Answered(buffer, request, SnapshotResources(request.node, t), FALSE, TRUE), t)
          BY <4>3, <4>4, GenuineAnswered
        <4> QED
          BY <3>5, <3>8, <4>1, <4>5, <4>6
      <3> QED
        BY <3>7, <3>8
    <2>5. ASSUME NEW t \in Types
          PROVE  \/ responses'[Channel(s, t)] = responses[Channel(s, t)]
                 \/ Exists(StreamNode[s]) /\ GenuineIn(responses'[Channel(s, t)], t)
      <3>1. CASE UNCHANGED responses
        BY <3>1
      <3> QED
        BY <1>0, <2>4, <3>1, CacheFills
    <2>6. Genuine(s)'
      BY <1>1, <2>1, <2>5 DEF StreamOK, Genuine, Channel
    <2>7. Blank(s)'
      <3>1. ASSUME ~Exists(StreamNode[s])' PROVE ~Exists(StreamNode[s])
        BY <1>3, <2>1, <3>1
      <3> QED
        BY <1>1, <2>1, <2>2, <2>5, <3>1 DEF StreamOK, Blank, Channel
    <2> QED
      BY <2>3, <2>6, <2>7 DEF StreamOK
  <1>5. ASSUME NEW n \in Nodes PROVE Holding(n)'
    <2>1. Holding(n) /\ client'[n] = client[n] /\ (Exists(n) => Exists(n)')
      BY <1>1, <1>3 DEF ConvergedInv
    <2> QED
      BY <2>1 DEF Holding
  <1> QED
    BY <1>4, <1>5 DEF ConvergedInv

\* A stream opens, and its client may have received something on another one.
LEMMA ConvergedConnect ==
    ASSUME ConvergedInv, ServiceInv', PlainInv', NEW s \in Streams, Connect(s)
    PROVE  ConvergedInv'
  <1>0. /\ ServiceInv /\ ServerInv /\ TypeOK /\ OpenedOK(s) /\ pc[s] = "idle" /\ StreamNode[s] \in Nodes
        /\ WatchInv /\ ResponderInv /\ StreamOK(s) /\ Holding(StreamNode[s])
    BY StreamAssumption DEF ConvergedInv, ServiceInv, ServerInv, StreamInv, Connect
  <1>1. Elsewhere(s) /\ OpensFor(s)
    BY <1>0, ServerElsewhere, OpensHere
  <1>2. /\ pc'[s] = "process"
        /\ client' = [client EXCEPT ![StreamNode[s]] = [t \in Types |-> [@[t] EXCEPT !.asked = FALSE]]]
        /\ UNCHANGED <<watches, responses, snapshots, toServer, toClient, responders, known, last>>
    BY <1>0 DEF Connect, TypeOK, cacheVars, watchVars, setVars, watcherVars, sentVars, linkVars
  <1>3. /\ toServer[s] = <<>> /\ toClient[s] = <<>>
        /\ \A t \in Types : /\ responders[s][t] = NoWatch
                            /\ known[s][t] = {}
                            /\ last[s][t] = [nonce |-> 0, names |-> {}]
    BY <1>0 DEF OpenedOK
  <1>4. ASSUME NEW t \in Types
        PROVE  LET st  == client[StreamNode[s]][t]
                   st2 == client'[StreamNode[s]][t]
               IN  /\ st2.asked = FALSE /\ st2.names = st.names /\ st2.version = st.version
                   /\ st2.received = st.received /\ st2.content = st.content /\ st2.rejected = st.rejected
    <2>1. PICK st \in ClientStates : st = client[StreamNode[s]][t]
      BY <1>0, ClientTyped
    <2>2. client'[StreamNode[s]][t] = [st EXCEPT !.asked = FALSE]
      BY <1>0, <1>2, <2>1 DEF TypeOK
    <2> QED
      BY <2>1, <2>2 DEF ClientStates
  <1>5. ASSUME NEW t \in Types, NEW names, Has(client[StreamNode[s]][t], t, names)
        PROVE  Has(client'[StreamNode[s]][t], t, names)
    <2>1. PICK st, st2 : st = client[StreamNode[s]][t] /\ st2 = client'[StreamNode[s]][t]
      OBVIOUS
    <2>2. st2.names = st.names /\ st2.version = st.version /\ st2.content = st.content /\ Has(st, t, names)
      BY <1>4, <1>5, <2>1
    <2> QED
      BY <2>1, <2>2, HasSame
  <1>6. Holding(StreamNode[s])'
    BY <1>0, <1>2, <1>4, <1>5 DEF Holding, Exists
  <1>7. Pend(s)' = <<>>
    BY <1>2, <1>3 DEF Pend, Handling
  <1>8. ASSUME NEW t \in Types PROVE Sync(s, t)'
    <2>1. OpenOn(Channel(s, t), t)' = {}
      <3>1. ASSUME NEW w \in watches, w.chan = Channel(s, t), w.request.type = t PROVE FALSE
        <4>1. PICK s2 \in Streams : Owned(w, s2)
          BY <1>0 DEF WatchInv
        <4>2. Channel(s2, w.request.type) = Channel(s, t)
          BY <3>1, <4>1 DEF Owned
        <4>3. s2 = s
          BY <4>2, ChannelOfStream
        <4> QED
          BY <4>3, <1>0, <3>1, <4>1, <4>2 DEF Owned, ResponderInv
      <3> QED
        BY <1>2, <3>1 DEF OpenOn, Channel
    <2>2. PICK st, w, k, l : /\ st = client'[StreamNode[s]][t] /\ w = responders'[s][t]
                             /\ k = known'[s][t] /\ l = last'[s][t]
      OBVIOUS
    <2>3. ~st.asked /\ w.nonce = 0 /\ w.names = {} /\ l.nonce = 0 /\ l.names = {} /\ k = {}
      <3>1. ~st.asked
        BY <1>4, <2>2
      <3>2. w.nonce = 0 /\ w.names = {} /\ k = {}
        BY <1>2, <1>3, <2>2 DEF NoWatch
      <3>3. l.nonce = 0 /\ l.names = {}
        BY <1>2, <1>3, <2>2
      <3> QED
        BY <3>1, <3>2, <3>3
    <2>4. st.rejected \/ Has(st, t, {})
      BY <1>6, <2>2 DEF Holding
    <2>5. Synced(st, w, {}, l, <<>>, <<>>, {}, t)
      BY <2>3, <2>4, SyncedFresh
    <2> QED
      BY <1>2, <1>3, <1>7, <2>1, <2>2, <2>3, <2>5 DEF Sync
  <1>9. Genuine(s)'
    BY <1>0, <1>2 DEF StreamOK, Genuine, Channel
  <1>10. Blank(s)'
    BY <1>0, <1>2, <1>7 DEF StreamOK, Blank, Channel, Exists
  <1> QED
    BY <1>0, <1>1, <1>6, <1>8, <1>9, <1>10, ConvergedHere DEF StreamOK

\* A stream ends, and shuts down.
LEMMA ConvergedEnding ==
    ASSUME ConvergedInv, ServiceInv', PlainInv', NEW s \in Streams,
           \/ Disconnect(s) \/ RefuseRequest(s) \/ CloseRequests(s) \/ Exit(s)
           \/ (\E t \in Types : CloseWatch(s, t)) \/ CloseMux(s) \/ Closed(s)
    PROVE  ConvergedInv'
  <1>0. /\ ServiceInv /\ ServerInv /\ TypeOK /\ OpenedOK(s) /\ StreamNode[s] \in Nodes /\ s # NoStream
        /\ StreamOK(s) /\ Holding(StreamNode[s])
    BY StreamAssumption DEF ConvergedInv, ServiceInv, ServerInv, StreamInv
  <1>1. Elsewhere(s) /\ OpensFor(s)
    BY <1>0, ServerElsewhere, OpensHere DEF ServerActs
  <1>2. UNCHANGED client
    BY DEF Disconnect, RefuseRequest, CloseRequests, Exit, CloseWatch, CloseMux, Closed, clientVars
  <1>3. ~Used(s)'
    <2>1. CASE Disconnect(s) \/ RefuseRequest(s)
      BY <1>0, <2>1 DEF Disconnect, RefuseRequest, Used, TypeOK
    <2>2. CASE CloseRequests(s) \/ Exit(s) \/ (\E t \in Types : CloseWatch(s, t)) \/ CloseMux(s) \/ Closed(s)
      <3>1. UNCHANGED conn /\ (~live[s] \/ pc[s] = "closing")
        BY <2>2 DEF CloseRequests, Exit, CloseWatch, CloseMux, Closed, clientVars
      <3> QED
        BY <1>0, <3>1 DEF OpenedOK, Used
    <2> QED
      BY <2>1, <2>2
  <1>4. UNCHANGED <<snapshots, responses>>
    <2>1. UNCHANGED cacheVars \/ \E t \in Types : CancelResponder(s, t)
      BY DEF Disconnect, RefuseRequest, CloseRequests, Exit, CloseWatch, CloseMux, Closed
    <2>2. UNCHANGED responses
      BY <1>0, <2>1, CancelEffect DEF cacheVars, watchVars
    <2> QED
      BY <1>1, <2>2 DEF Elsewhere, setVars
  <1>5. toClient'[s] = toClient[s] \/ toClient'[s] = <<>>
    <2>1. UNCHANGED toClient \/ toClient' = [toClient EXCEPT ![s] = <<>>]
      BY DEF Disconnect, RefuseRequest, CloseRequests, Exit, CloseWatch, CloseMux, Closed, linkVars
    <2> QED
      BY <1>0, <2>1 DEF TypeOK
  <1>6. Genuine(s)'
    <2>1. GenuineOn(<<>>)
      <3>1. DOMAIN <<>> = {}
        OBVIOUS
      <3> QED
        BY <3>1 DEF GenuineOn
    <2> QED
      BY <1>0, <1>4, <1>5, <2>1 DEF StreamOK, Genuine, Channel
  <1>7. Blank(s)'
    BY <1>0, <1>3, <1>4, <1>5 DEF StreamOK, Blank, Channel, Exists
  <1>8. Holding(StreamNode[s])'
    BY <1>0, <1>2, <1>4 DEF Holding, Exists
  <1> QED
    BY <1>0, <1>1, <1>3, <1>6, <1>7, <1>8, ConvergedHere DEF StreamOK

\* The client takes a response of the type.
Takes(o, o2, t) == o # <<>> /\ Head(o).type = t /\ o2 = Tail(o)

\* The client sends a request, and may have taken a response: what it knows of the
\* type then is what the stream counts on.
LEMMA ConvergedSends ==
    ASSUME ConvergedInv, ServiceInv', PlainInv', NEW n \in Nodes, NEW t \in Types,
           Ask(n, t) \/ AskMore(n, t) \/ Ack(n) \/ Nack(n),
           NEW st \in ClientStates, Sends(n, t, st), client[n][t].names \subseteq st.names,
           NEW o, toClient'[conn[n]] = o, o = toClient[conn[n]] \/ Takes(toClient[conn[n]], o, t),
           Received(st, last[conn[n]][t], o, t),
           st.rejected \/ (st.received = st.version /\ Has(st, t, {})),
           ~Exists(n) => st.version = NoVersion /\ st.received = NoVersion
    PROVE  ConvergedInv'
  <1>0. /\ ServiceInv /\ ServerInv /\ TypeOK /\ conn[n] # NoStream /\ Elsewhere(conn[n])
        /\ UNCHANGED <<cacheVars, loopVars, watcherVars, sentVars, conn>>
    BY ClientElsewhere DEF ConvergedInv, ServiceInv, ServerInv
  <1>1. PICK s \in Streams : s = conn[n] /\ StreamNode[s] = n /\ Used(s)
    BY <1>0, NodeOfStream
  <1>2. StreamOK(s) /\ Holding(n)
    BY DEF ConvergedInv
  <1>3. /\ UNCHANGED <<watches, responses, snapshots, pc, current, responders, known, last>>
        /\ OpensFor(s)
    BY <1>0 DEF cacheVars, watchVars, setVars, loopVars, watcherVars, sentVars, OpensFor
  <1>4. PICK r \in DiscoveryRequests : /\ r = RequestOf(t, st) /\ r.type = t /\ Tells(r, st)
                                       /\ r.version = st.version
    BY RequestTyped DEF Tells
  <1>5. /\ client'[n][t] = st
        /\ \A u \in Types : u # t => client'[n][u] = client[n][u]
        /\ toServer'[s] = Append(toServer[s], r)
    BY <1>0, <1>1, <1>4 DEF Sends, TypeOK
  <1>6. PICK q \in Seq(DiscoveryRequests) : q = Pend(s) /\ Pend(s)' = Append(q, r)
    BY <1>0, <1>3, <1>5, PendParts, PendSent
  <1>7. PICK o1 \in Seq(DiscoveryResponses) : o1 = toClient[s] /\ (o = o1 \/ Takes(o1, o, t))
    BY <1>0, <1>1 DEF TypeOK
  <1>8. ASSUME NEW u \in Types PROVE Sync(s, u)'
    <2>1. PICK old, w, k, l, open : /\ old = client[n][u] /\ w = responders[s][u]
                                    /\ k = known[s][u] /\ l = last[s][u] /\ open = OpenOn(Channel(s, u), u)
      OBVIOUS
    <2>2. Synced(old, w, k, l, q, o1, open, u)
      BY <1>1, <1>2, <1>6, <1>7, <2>1 DEF StreamOK, Sync
    <2>3. /\ w = responders'[s][u] /\ k = known'[s][u] /\ l = last'[s][u] /\ open = OpenOn(Channel(s, u), u)'
          /\ toClient'[s] = o
      BY <1>1, <1>3, <2>1 DEF OpenOn, Channel
    <2>4. CASE u = t
      <3>1. LastSent(o, t, l)
        BY <1>7, <2>2, <2>4, LastSentTail DEF Synced, Takes
      <3>2. Received(st, l, o, t) /\ old.names \subseteq st.names
        BY <1>1, <2>1, <2>4
      <3>3. Synced(old, w, k, l, q, o1, open, t)
        BY <2>2, <2>4
      <3>4. Synced(st, w, k, l, Append(q, r), o, open, t)
        BY <1>4, <3>1, <3>2, <3>3, SyncedSends
      <3> QED
        BY <1>1, <1>5, <1>6, <2>3, <2>4, <3>4 DEF Sync
    <2>5. CASE u # t
      <3>1. Synced(old, w, k, l, Append(q, r), o1, open, u)
        BY <1>4, <2>2, <2>5, SyncedSendsOther
      <3>2. Synced(old, w, k, l, Append(q, r), o, open, u)
        BY <1>7, <2>5, <3>1, SyncedGetsOther DEF Takes
      <3> QED
        BY <1>1, <1>5, <1>6, <2>1, <2>3, <2>5, <3>2 DEF Sync
    <2> QED
      BY <2>4, <2>5
  <1>9. Genuine(s)'
    <2>1. GenuineOn(o)
      BY <1>2, <1>7, GenuineWire DEF StreamOK, Genuine, Takes
    <2> QED
      BY <1>1, <1>2, <1>3, <2>1 DEF StreamOK, Genuine, Channel
  <1>10. Blank(s)'
    <2>1. ASSUME ~Exists(n)
          PROVE  /\ o = <<>>
                 /\ \A u \in Types : responses[Channel(s, u)] = <<>>
                 /\ \A i \in DOMAIN Append(q, r) : Append(q, r)[i].version = NoVersion
      <3>1. /\ o1 = <<>> /\ \A u \in Types : responses[Channel(s, u)] = <<>>
            /\ \A i \in DOMAIN q : q[i].version = NoVersion
        BY <1>1, <1>2, <1>6, <1>7, <2>1 DEF StreamOK, Blank
      <3>2. r.version = NoVersion
        BY <1>4, <2>1
      <3>3. PICK p : p = Append(q, r)
        OBVIOUS
      <3>4. DOMAIN p = DOMAIN q \cup {Len(q) + 1} /\ p[Len(q) + 1] = r /\ \A i \in DOMAIN q : p[i] = q[i]
        BY <3>3, AppendParts
      <3> QED
        BY <1>7, <3>1, <3>2, <3>3, <3>4 DEF Takes
    <2> QED
      BY <1>1, <1>3, <1>6, <2>1 DEF Blank, Channel, Exists
  <1>11. Holding(n)'
    <2>1. ASSUME NEW u \in Types
          PROVE  LET new == client'[n][u]
                 IN  /\ new.rejected \/ (new.received = new.version /\ Has(new, u, {}))
                     /\ ~Exists(n) => new.version = NoVersion /\ new.received = NoVersion
      BY <1>2, <1>5 DEF Holding
    <2> QED
      BY <1>3, <2>1 DEF Holding, Exists
  <1> QED
    BY <1>0, <1>1, <1>3, <1>8, <1>9, <1>10, <1>11, ConvergedHere DEF StreamOK

\* A client asks for a type, or for more names.
LEMMA ConvergedAsks ==
    ASSUME ConvergedInv, ServiceInv', PlainInv', NEW n \in Nodes, NEW t \in Types,
           Ask(n, t) \/ AskMore(n, t)
    PROVE  ConvergedInv'
  <1>0. /\ ServiceInv /\ TypeOK /\ conn[n] # NoStream
    BY ClientElsewhere DEF ConvergedInv, ServiceInv, ServerInv
  <1>1. PICK s \in Streams : s = conn[n] /\ StreamNode[s] = n /\ Used(s)
    BY <1>0, NodeOfStream
  <1>2. PICK st \in ClientStates : st = client[n][t]
    BY <1>0, ClientTyped
  <1>3. PICK l, o : l = last[s][t] /\ o = toClient[s]
    OBVIOUS
  <1>4. /\ Received(st, l, o, t)
        /\ st.rejected \/ (st.received = st.version /\ Has(st, t, {}))
        /\ ~Exists(n) => st.version = NoVersion /\ st.received = NoVersion
    BY <1>1, <1>2, <1>3 DEF ConvergedInv, StreamOK, Sync, Synced, Holding
  <1>5. ASSUME NEW st2 \in ClientStates, Sends(n, t, st2), toClient' = toClient, st.names \subseteq st2.names,
               st2.names = {} => st.names = {}, st2.nonce = st.nonce, st2.content = st.content,
               st2.rejected = st.rejected, st2.received = st.received, st2.version \in {st.version, st.received}
        PROVE  ConvergedInv'
    <2>1. ASSUME ~st.rejected PROVE st2.version = st.version /\ st2.received = st2.version
      BY <1>4, <1>5, <2>1
    <2>2. ASSUME NEW names, ~st.rejected, Has(st, t, names) PROVE Has(st2, t, names)
      <3>1. st2.version = st.version
        BY <2>1, <2>2
      <3> QED
        BY <1>5, <2>2, <3>1, HasSame
    <2>3. st2.rejected \/ (st2.received = st2.version /\ Has(st2, t, {}))
      BY <1>4, <1>5, <2>1, <2>2
    <2>4. Received(st2, l, o, t)
      BY <1>4, <1>5, <2>2 DEF Received
    <2>5. ~Exists(n) => st2.version = NoVersion /\ st2.received = NoVersion
      BY <1>4, <1>5
    <2>6. /\ toClient'[conn[n]] = o /\ o = toClient[conn[n]] /\ Received(st2, last[conn[n]][t], o, t)
          /\ client[n][t].names \subseteq st2.names /\ Sends(n, t, st2)
      BY <1>1, <1>2, <1>3, <1>5, <2>4
    <2> QED
      BY <2>3, <2>5, <2>6, ConvergedSends
  <1>6. CASE Ask(n, t)
    <2>1. Sends(n, t, OnAsk(st)) /\ toClient' = toClient
      BY <1>0, <1>2, <1>6, AskSends
    <2>2. PICK st2 \in ClientStates :
             /\ st2 = OnAsk(st) /\ st2.names = st.names /\ st2.version = st.received
             /\ st2.received = st.received /\ st2.nonce = st.nonce
             /\ st2.content = st.content /\ st2.rejected = st.rejected
      BY OnAskParts
    <2> QED
      BY <1>5, <2>1, <2>2
  <1>7. CASE AskMore(n, t)
    <2>1. toClient' = toClient /\ st.names # {}
      BY <1>0, <1>2, <1>7, AskMoreSends
    <2>2. PICK more \in SUBSET Names : st.names \subseteq more /\ Sends(n, t, OnAskMore(st, more))
      BY <1>0, <1>2, <1>7, AskMoreSends
    <2>3. PICK st2 \in ClientStates :
             /\ st2 = OnAskMore(st, more) /\ st2.names = more /\ st2.version = st.version
             /\ st2.received = st.received /\ st2.nonce = st.nonce
             /\ st2.content = st.content /\ st2.rejected = st.rejected
      BY OnAskMoreParts
    <2> QED
      BY <1>5, <2>1, <2>2, <2>3
  <1> QED
    BY <1>6, <1>7

\* A client accepts a response, and holds what its version has of the names; or
\* rejects it.
LEMMA ConvergedTakes ==
    ASSUME ConvergedInv, ServiceInv', PlainInv', NEW n \in Nodes, Ack(n) \/ Nack(n)
    PROVE  ConvergedInv'
  <1>0. /\ ServiceInv /\ TypeOK /\ conn[n] # NoStream /\ toClient[conn[n]] # <<>>
    BY DEF ConvergedInv, ServiceInv, ServerInv, Ack, Nack
  <1>1. PICK s \in Streams : s = conn[n] /\ StreamNode[s] = n /\ Used(s)
    BY <1>0, NodeOfStream
  <1>2. PICK r \in DiscoveryResponses, t \in Types :
              /\ r = Head(toClient[s]) /\ t = r.type
              /\ r.names = {} <=> client[n][t].names = {}
    BY <1>0, <1>1, HeadService
  <1>3. PICK st \in ClientStates : st = client[n][t]
    BY <1>0, ClientTyped
  <1>4. PICK l : l = last[s][t]
    OBVIOUS
  <1>5. PICK o \in Seq(DiscoveryResponses) : o = toClient[s] /\ o # <<>> /\ r = Head(o) /\ Head(o).type = t
    BY <1>0, <1>1, <1>2 DEF TypeOK
  <1>6. PICK o2 : o2 = Tail(o) /\ Takes(o, o2, t)
    BY <1>5 DEF Takes
  <1>7. LastSent(o, t, l) /\ l.names \subseteq st.names
    BY <1>1, <1>3, <1>4, <1>5 DEF ConvergedInv, StreamOK, Sync, Synced, Nested
  <1>8. None(o2, t) => r.nonce = l.nonce /\ r.names = l.names
    BY <1>5, <1>6, <1>7, LastSentTail
  <1>9. Exists(n)
    BY <1>0, <1>1 DEF ConvergedInv, StreamOK, Blank
  <1>10. Carries(r, t, r.names)
    <2>1. GenuineOn(o)
      BY <1>5 DEF ConvergedInv, StreamOK, Genuine
    <2> QED
      BY <1>2, <1>5, <2>1, GenuineWire
  <1>11. ASSUME NEW st2 \in ClientStates, Sends(n, t, st2), toClient' = [toClient EXCEPT ![s] = Tail(@)],
                st2.names = st.names, st2.nonce = r.nonce,
                \/ st2.rejected
                \/ /\ st2.received = st2.version
                   /\ \A names \in SUBSET r.names : names \subseteq st.names => Has(st2, t, names)
         PROVE  ConvergedInv'
    <2>1. Received(st2, l, o2, t)
      BY <1>7, <1>8, <1>11 DEF Received
    <2>2. st2.rejected \/ (st2.received = st2.version /\ Has(st2, t, {}))
      BY <1>11
    <2>3. toClient'[conn[n]] = o2
      BY <1>0, <1>1, <1>5, <1>6, <1>11 DEF TypeOK
    <2>4. /\ Takes(toClient[conn[n]], o2, t) /\ Received(st2, last[conn[n]][t], o2, t)
          /\ client[n][t].names \subseteq st2.names
      BY <1>1, <1>3, <1>4, <1>5, <1>6, <1>11, <2>1
    <2> QED
      BY <1>9, <1>11, <2>2, <2>3, <2>4, ConvergedSends
  <1>12. CASE Ack(n)
    <2>1. Sends(n, t, OnAck(st, r)) /\ toClient' = [toClient EXCEPT ![s] = Tail(@)]
      BY <1>0, <1>1, <1>2, <1>3, <1>12, AckSends
    <2>2. PICK st2 \in ClientStates :
             /\ st2 = OnAck(st, r) /\ st2.names = st.names /\ st2.version = r.version
             /\ st2.received = r.version /\ st2.nonce = r.nonce
      BY OnAckParts
    <2>3. ASSUME NEW names \in SUBSET r.names, names \subseteq st.names PROVE Has(st2, t, names)
      <3>1. r.names = {} <=> st.names = {}
        BY <1>2, <1>3
      <3> QED
        BY <1>10, <2>2, <2>3, <3>1, AckHas
    <2> QED
      BY <1>11, <2>1, <2>2, <2>3
  <1>13. CASE Nack(n)
    <2>1. Sends(n, t, OnNack(st, r)) /\ toClient' = [toClient EXCEPT ![s] = Tail(@)]
      BY <1>0, <1>1, <1>2, <1>3, <1>13, NackSends
    <2>2. PICK st2 \in ClientStates :
             /\ st2 = OnNack(st, r) /\ st2.names = st.names /\ st2.nonce = r.nonce /\ st2.rejected
      BY OnNackParts
    <2> QED
      BY <1>11, <2>1, <2>2
  <1> QED
    BY <1>12, <1>13

\* A watch that stays open is for the version the client has, which has nothing new.
LEMMA StaysOpenNoNews ==
    ASSUME VersionsNameContents, CacheTypeOK, NEW request \in Requests, NEW k, StaysOpen(request, k),
           Exists(request.node) \/ request.version = NoVersion,
           NEW open, \A x \in open : x.request = request
    PROVE  NoNews(k, open, request.type)
  <1>1. PICK n \in Nodes, t \in Types, names \in SUBSET Names, version \in VersionInfos :
           n = request.node /\ t = request.type /\ names = request.names /\ version = request.version
    BY DEF Requests
  <1>2. ASSUME NEW S \in Snapshots, S.version[t] = version
        PROVE  (names \ k) \cap DOMAIN S.resources[t] = {}
    <2>1. CASE Exists(n)
      <3>1. PICK S2 \in Snapshots : S2 = snapshots[n]
        BY <2>1 DEF CacheTypeOK, Exists
      <3>2. S2.version[t] = version /\ (names \ k) \cap DOMAIN S2.resources[t] = {}
        BY <1>1, <2>1, <3>1 DEF StaysOpen, NewName, SnapshotVersion, SnapshotResources
      <3>3. S.resources[t] = S2.resources[t]
        BY <1>2, <3>2 DEF VersionsNameContents
      <3> QED
        BY <3>2, <3>3
    <2>2. CASE ~Exists(n)
      <3>1. S.resources[t] = EmptyMap
        BY <1>1, <1>2, <2>2 DEF VersionsNameContents
      <3> QED
        BY <3>1 DEF EmptyMap
    <2> QED
      BY <2>1, <2>2
  <1> QED
    BY <1>1, <1>2 DEF NoNews

\* The watch that a stream opens, if its request is not answered at once.
LEMMA OpenedHere ==
    ASSUME VersionsNameContents, ~Ordered, ServerInv, NEW s \in Streams, NEW r \in DiscoveryRequests,
           MayOpen(s, r), OpenWatch(s, r), NEW k \in SUBSET Names, k = known'[s][r.type],
           Exists(StreamNode[s]) \/ r.version = NoVersion,
           NEW t, t = r.type, NEW open, open = OpenOn(Channel(s, t), t)'
    PROVE  (\A x \in open : x.request.version = r.version) /\ NoNews(k, open, t)
  <1>1. PICK request \in Requests : /\ request = CacheRequest(s, r) /\ request.node = StreamNode[s]
                                    /\ request.type = t /\ request.version = r.version
    BY CacheRequestTyped DEF CacheRequest
  <1>2. OpenOn(Channel(s, t), t) = {}
    BY NothingAwaited
  <1>3. PICK new : new = [id |-> watchCount + 1, request |-> request, chan |-> Channel(s, t)]
    OBVIOUS
  <1>4. watches' = watches \/ (watches' = watches \cup {new} /\ StaysOpen(request, k))
    BY <1>1, <1>3 DEF OpenWatch, CreateWatch, CacheRequest
  <1>5. new.request = request
    BY <1>3
  <1>6. open = {} \/ (StaysOpen(request, k) /\ \A x \in open : x = new)
    BY <1>2, <1>4 DEF OpenOn, Channel
  <1>7. CacheTypeOK
    BY DEF ServerInv, TypeOK
  <1>8. \A x \in open : x.request = request
    BY <1>5, <1>6
  <1>9. NoNews(k, open, t)
    <2>1. CASE open = {}
      BY <2>1 DEF NoNews
    <2>2. CASE StaysOpen(request, k)
      BY <1>1, <1>7, <1>8, <2>2, StaysOpenNoNews
    <2> QED
      BY <1>6, <2>1, <2>2
  <1> QED
    BY <1>1, <1>8, <1>9

\* What a stream that opens a watch has in its channels.
LEMMA OpenedChannel ==
    ASSUME VersionsNameContents, ~Ordered, ServerInv, NEW s \in Streams, NEW r \in DiscoveryRequests,
           OpenWatch(s, r), NEW t, t = r.type
    PROVE  /\ GenuineIn(responses'[Channel(s, t)], t)
           /\ ~Exists(StreamNode[s]) => responses'[Channel(s, t)] = <<>>
           /\ \A u \in Types : u # t => responses'[Channel(s, u)] = responses[Channel(s, u)]
           /\ \A u \in Types : u # t => OpenOn(Channel(s, u), u)' = OpenOn(Channel(s, u), u)
  <1>0. CacheTypeOK /\ responses \in [Channels -> Seq(Responses)] /\ StreamNode[s] \in Nodes
    BY StreamAssumption DEF ServerInv, TypeOK, CacheTypeOK
  <1>1. PICK request \in Requests : /\ request = CacheRequest(s, r) /\ request.node = StreamNode[s]
                                    /\ request.type = t /\ t \in Types
    BY CacheRequestTyped DEF CacheRequest
  <1>2. PICK c \in Channels : c = Channel(s, t)
    BY <1>1, ChannelTyped
  <1>3. PICK new : new = [id |-> watchCount + 1, request |-> request, chan |-> c]
    OBVIOUS
  <1>4. /\ watches' = watches \/ watches' = watches \cup {new}
        /\ \/ responses' = [responses EXCEPT ![c] = <<>>]
           \/ /\ Exists(StreamNode[s])
              /\ responses' = [responses EXCEPT ![c] =
                    Answered(<<>>, request, SnapshotResources(request.node, t), FALSE, FALSE)]
    BY <1>1, <1>2, <1>3 DEF OpenWatch, CreateWatch, CacheRequest, StaysOpen
  <1>5. GenuineIn(<<>>, t)
    <2>1. DOMAIN <<>> = {}
      OBVIOUS
    <2> QED
      BY <2>1 DEF GenuineIn
  <1>6. GenuineIn(responses'[c], t) /\ (~Exists(StreamNode[s]) => responses'[c] = <<>>)
    <2>1. CASE responses' = [responses EXCEPT ![c] = <<>>]
      BY <1>0, <1>5, <2>1
    <2>2. ASSUME Exists(StreamNode[s]),
                 responses' = [responses EXCEPT ![c] =
                    Answered(<<>>, request, SnapshotResources(request.node, t), FALSE, FALSE)]
          PROVE  GenuineIn(responses'[c], t)
      <3>1. Carries(createResponse(request, SnapshotResources(request.node, t), FALSE, FALSE), t, request.names)
        BY <1>0, <1>1, <2>2, MadeCarries
      <3>2. <<>> \in Seq(Responses)
        OBVIOUS
      <3>3. GenuineIn(Answered(<<>>, request, SnapshotResources(request.node, t), FALSE, FALSE), t)
        BY <1>5, <3>1, <3>2, GenuineAnswered
      <3> QED
        BY <1>0, <2>2, <3>3
    <2> QED
      BY <1>4, <2>1, <2>2
  <1>7. ASSUME NEW u \in Types, u # t PROVE Channel(s, u) # c
    BY <1>2, <1>7, ChannelOfStream
  <1>8. ASSUME NEW u \in Types, u # t PROVE responses'[Channel(s, u)] = responses[Channel(s, u)]
    <2>1. PICK d \in Channels : d = Channel(s, u) /\ d # c
      BY <1>7, <1>8, ChannelTyped
    <2>2. \E b : responses' = [responses EXCEPT ![c] = b]
      BY <1>4
    <2>3. responses'[d] = responses[d]
      BY <1>0, <2>1, <2>2
    <2> QED
      BY <2>1, <2>3
  <1>9. ASSUME NEW u \in Types, u # t PROVE OpenOn(Channel(s, u), u)' = OpenOn(Channel(s, u), u)
    <2>1. new.chan = c
      BY <1>3
    <2> QED
      BY <1>4, <1>7, <1>9, <2>1 DEF OpenOn, Channel
  <1> QED
    BY <1>2, <1>6, <1>8, <1>9

\* A request is taken up and opens a watch.
LEMMA ConvergedOpens ==
    ASSUME VersionsNameContents, ~Ordered, ConvergedInv, ServiceInv', PlainInv',
           NEW s \in Streams, RecvRequest(s) \/ SupersedeWatch(s),
           NEW r \in DiscoveryRequests, MayOpen(s, r), OpenWatch(s, r),
           Pend(s) # <<>>, Head(Pend(s)) = r, Pend(s)' = Tail(Pend(s)),
           \A u \in Types : known'[s][u] \in {known[s][u], last[s][u].names}
    PROVE  ConvergedInv'
  <1>0. /\ ServiceInv /\ ServerInv /\ TypeOK /\ StreamNode[s] \in Nodes
        /\ StreamOK(s) /\ Holding(StreamNode[s])
    BY StreamAssumption DEF ConvergedInv, ServiceInv, ServerInv
  <1>1. Elsewhere(s) /\ OpensFor(s)
    BY <1>0, ServerElsewhere, OpensHere DEF ServerActs
  <1>2. UNCHANGED <<toClient, last, client, conn, snapshots>>
    BY <1>1 DEF RecvRequest, SupersedeWatch, sentVars, clientVars, linkVars, Elsewhere, setVars
  <1>3. PICK t \in Types : t = r.type
    BY CacheRequestTyped
  <1>4. /\ Accepts(responders'[s][t], r)
        /\ \A u \in Types : u # t => responders'[s][u] = responders[s][u]
    <2>1. PICK w : w = [active |-> TRUE, cancel |-> OpenedWatch, nonce |-> 0, names |-> r.names]
      OBVIOUS
    <2>2. responders'[s][t] = w /\ \A u \in Types : u # t => responders'[s][u] = responders[s][u]
      <3>1. /\ responders'[s][r.type] = w
            /\ \A s2 \in Streams, t2 \in Types : s2 # s \/ t2 # r.type => responders'[s2][t2] = responders[s2][t2]
        BY <1>0, <2>1, OpenWatchEffect
      <3> QED
        BY <1>3, <3>1
    <2>3. Accepts(w, r)
      BY <2>1 DEF Accepts
    <2> QED
      BY <2>2, <2>3
  <1>5. /\ GenuineIn(responses'[Channel(s, t)], t)
        /\ ~Exists(StreamNode[s]) => responses'[Channel(s, t)] = <<>>
        /\ \A u \in Types : u # t => responses'[Channel(s, u)] = responses[Channel(s, u)]
        /\ \A u \in Types : u # t => OpenOn(Channel(s, u), u)' = OpenOn(Channel(s, u), u)
    BY <1>0, <1>3, OpenedChannel
  <1>6. PICK q \in Seq(DiscoveryRequests) : q = Pend(s) /\ q # <<>> /\ Head(q) = r /\ Pend(s)' = Tail(q)
    BY <1>0, PendParts
  <1>7. Used(s)' <=> Used(s)
    BY <1>2 DEF Used
  <1>8. ASSUME Used(s), NEW u \in Types PROVE Sync(s, u)'
    <2>1. PICK st, w, k, l, o, open : /\ st = client[StreamNode[s]][u] /\ w = responders[s][u]
                                      /\ k = known[s][u] /\ l = last[s][u] /\ o = toClient[s]
                                      /\ open = OpenOn(Channel(s, u), u)
      OBVIOUS
    <2>2. PICK k2 : k2 = known'[s][u] /\ (k2 = k \/ k2 = l.names)
      BY <2>1
    <2>3. Synced(st, w, k, l, q, o, open, u)
      BY <1>0, <1>6, <1>8, <2>1 DEF StreamOK, Sync
    <2>4. Synced(st, w, k2, l, q, o, open, u)
      BY <2>2, <2>3, SyncedFewer
    <2>5. CASE u # t
      <3>1. Synced(st, w, k2, l, Tail(q), o, open, u)
        BY <1>3, <1>6, <2>4, <2>5, SyncedTakesOther
      <3>2. w = responders'[s][u] /\ open = OpenOn(Channel(s, u), u)'
        BY <1>4, <1>5, <2>1, <2>5
      <3> QED
        BY <1>2, <1>6, <2>1, <2>2, <3>1, <3>2 DEF Sync
    <2>6. CASE u = t
      <3>1. Exists(StreamNode[s]) \/ r.version = NoVersion
        <4>1. 1 \in DOMAIN q /\ q[1] = r
          BY <1>6, TailParts
        <4> QED
          BY <1>0, <1>6, <1>8, <4>1 DEF StreamOK, Blank
      <3>2. PICK open2 : open2 = OpenOn(Channel(s, t), t)'
        OBVIOUS
      <3>3. k2 \in SUBSET Names /\ k2 = known'[s][r.type]
        BY <1>3, <2>2, <2>6 DEF ServiceInv, ServerInv, TypeOK
      <3>4. (\A x \in open2 : x.request.version = r.version) /\ NoNews(k2, open2, t)
        BY <1>0, <1>3, <3>1, <3>2, <3>3, OpenedHere
      <3>5. PICK w2 : w2 = responders'[s][t] /\ Accepts(w2, Head(q))
        BY <1>4, <1>6
      <3>6. Synced(st, w, k2, l, q, o, open, t)
        BY <2>4, <2>6
      <3>7. Head(q).type = t /\ \A x \in open2 : x.request.version = Head(q).version
        BY <1>3, <1>6, <3>4
      <3>8. Synced(st, w2, k2, l, Tail(q), o, open2, t)
        BY <1>6, <3>4, <3>5, <3>6, <3>7, SyncedOpens
      <3> QED
        BY <1>2, <1>6, <2>1, <2>2, <2>6, <3>2, <3>5, <3>8 DEF Sync
    <2> QED
      BY <2>5, <2>6
  <1>9. Genuine(s)'
    <2>1. \A u \in Types : GenuineIn(responses'[Channel(s, u)], u)
      BY <1>0, <1>5 DEF StreamOK, Genuine
    <2> QED
      BY <1>0, <1>2, <2>1 DEF StreamOK, Genuine, Channel
  <1>10. Blank(s)'
    <2>1. ASSUME ~Exists(StreamNode[s])
          PROVE  /\ toClient[s] = <<>>
                 /\ \A u \in Types : responses'[Channel(s, u)] = <<>>
                 /\ Used(s) => \A i \in DOMAIN Tail(q) : Tail(q)[i].version = NoVersion
      <3>1. /\ toClient[s] = <<>> /\ \A u \in Types : responses[Channel(s, u)] = <<>>
            /\ Used(s) => \A i \in DOMAIN q : q[i].version = NoVersion
        BY <1>0, <1>6, <2>1 DEF StreamOK, Blank
      <3>2. \A i \in DOMAIN Tail(q) : i + 1 \in DOMAIN q /\ Tail(q)[i] = q[i + 1]
        BY <1>6, TailParts
      <3> QED
        BY <1>5, <2>1, <3>1, <3>2
    <2> QED
      BY <1>2, <1>6, <1>7, <2>1 DEF Blank, Channel, Exists
  <1>11. Holding(StreamNode[s])'
    BY <1>0, <1>2 DEF Holding, Exists
  <1> QED
    BY <1>0, <1>1, <1>7, <1>8, <1>9, <1>10, <1>11, ConvergedHere DEF StreamOK

\* The watch of a request that superseded another is opened.
LEMMA ConvergedSupersedes ==
    ASSUME VersionsNameContents, ~Ordered, ConvergedInv, ServiceInv', PlainInv',
           NEW s \in Streams, SupersedeWatch(s)
    PROVE  ConvergedInv'
  <1>0. ServerInv /\ TypeOK
    BY DEF ConvergedInv, ServiceInv, ServerInv
  <1>1. /\ OpenWatch(s, current[s]) /\ UNCHANGED <<toServer, known>> /\ pc[s] = "create"
        /\ pc' = [pc EXCEPT ![s] = Loop]
    BY DEF SupersedeWatch, linkVars
  <1>2. PICK r \in DiscoveryRequests : r = current[s]
    BY <1>0, <1>1 DEF ServerInv, CurrentInv, Handling
  <1>3. Handling(s) /\ ~Handling(s)'
    BY <1>0, <1>1 DEF Handling, Loop, TypeOK
  <1>4. Pend(s) # <<>> /\ Head(Pend(s)) = r /\ Pend(s)' = Tail(Pend(s))
    <2>1. Pend(s)' = toServer[s]
      BY <1>1, <1>3 DEF Pend
    <2> QED
      BY <1>0, <1>2, <1>3, <2>1, PendParts
  <1>5. MayOpen(s, r)
    BY <1>1, <1>2 DEF MayOpen
  <1> QED
    BY <1>1, <1>2, <1>4, <1>5, ConvergedOpens

\* A request is taken up: it is outdated, opens a watch, or supersedes another.
LEMMA ConvergedReceives ==
    ASSUME VersionsNameContents, ~Ordered, ConvergedInv, ServiceInv', PlainInv',
           NEW s \in Streams, RecvRequest(s)
    PROVE  ConvergedInv'
  <1>0. /\ ServiceInv /\ ServerInv /\ TypeOK /\ PlainInv /\ StreamNode[s] \in Nodes
        /\ StreamOK(s) /\ Holding(StreamNode[s])
    BY StreamAssumption DEF ConvergedInv, ServiceInv, ServerInv
  <1>1. Elsewhere(s) /\ OpensFor(s)
    BY <1>0, ServerElsewhere, OpensHere DEF ServerActs
  <1>2. UNCHANGED <<toClient, last, client, conn, snapshots>> /\ pc[s] = Loop
    BY <1>1 DEF RecvRequest, sentVars, clientVars, Elsewhere, setVars
  <1>3. PICK r \in DiscoveryRequests : /\ toServer[s] # <<>> /\ r = Head(toServer[s])
                                       /\ toServer'[s] = Tail(toServer[s])
                                       /\ Handle(s, r)
    BY <1>0, TakenIsHead DEF TypeOK
  <1>4. ~Handling(s) /\ r.type \in Types
    BY <1>2, CacheRequestTyped DEF Handling, Loop
  <1>5. /\ Pend(s) # <<>> /\ Head(Pend(s)) = r
        /\ ~Handling(s)' => Pend(s)' = Tail(Pend(s))
        /\ Handling(s)' /\ current'[s] = r => Pend(s)' = Pend(s)
    BY <1>0, <1>3, <1>4, PendTaken
  <1>6. PICK q \in Seq(DiscoveryRequests) : q = Pend(s) /\ q # <<>> /\ Head(q) = r
    BY <1>0, <1>5, PendParts
  <1>7. \A u \in Types : known'[s][u] \in {known[s][u], last[s][u].names}
    <2>1. known' = known \/ known' = [known EXCEPT ![s][r.type] = last[s][r.type].names]
      BY <1>3 DEF Handle, Learn
    <2> QED
      BY <1>0, <1>4, <2>1 DEF TypeOK
  <1>8. ASSUME UNCHANGED <<responses, responders>>, watches' \subseteq watches, NEW p, Pend(s)' = p,
               \/ p = q
               \/ p = Tail(q) /\ Stale(s, r)
        PROVE  ConvergedInv'
    <2>1. ASSUME Used(s), NEW u \in Types PROVE Sync(s, u)'
      <3>1. PICK st, w, k, l, o, open : /\ st = client[StreamNode[s]][u] /\ w = responders[s][u]
                                        /\ k = known[s][u] /\ l = last[s][u] /\ o = toClient[s]
                                        /\ open = OpenOn(Channel(s, u), u)
        OBVIOUS
      <3>2. PICK k2 : k2 = known'[s][u] /\ (k2 = k \/ k2 = l.names)
        BY <1>7, <3>1
      <3>3. PICK open2 \in SUBSET open : open2 = OpenOn(Channel(s, u), u)'
        BY <1>8, <3>1 DEF OpenOn, Channel
      <3>4. Synced(st, w, k, l, q, o, open, u)
        BY <1>0, <1>6, <2>1, <3>1 DEF StreamOK, Sync
      <3>5. Synced(st, w, k2, l, q, o, open2, u)
        BY <3>2, <3>3, <3>4, SyncedFewer
      <3>6. Synced(st, w, k2, l, p, o, open2, u)
        <4>1. CASE p = q
          BY <3>5, <4>1
        <4>2. CASE p = Tail(q) /\ Stale(s, r) /\ u # r.type
          BY <1>6, <3>5, <4>2, SyncedTakesOther
        <4>3. CASE p = Tail(q) /\ Stale(s, r) /\ u = r.type
          <5>1. w.nonce # 0 /\ w.nonce # Head(q).nonce /\ Head(q).type = u
            BY <1>6, <3>1, <4>3 DEF Stale
          <5>2. Synced(st, w, k2, l, Tail(q), o, open2, u)
            BY <1>6, <3>5, <5>1, SyncedStale
          <5> QED
            BY <4>3, <5>2
        <4> QED
          BY <1>8, <4>1, <4>2, <4>3
      <3> QED
        BY <1>2, <1>8, <3>1, <3>2, <3>3, <3>6 DEF Sync
    <2>2. Genuine(s)'
      BY <1>0, <1>2, <1>8 DEF StreamOK, Genuine, Channel
    <2>3. Blank(s)'
      <3>1. ASSUME \A i \in DOMAIN q : q[i].version = NoVersion
            PROVE  \A i \in DOMAIN p : p[i].version = NoVersion
        <4>1. \A i \in DOMAIN Tail(q) : i + 1 \in DOMAIN q /\ Tail(q)[i] = q[i + 1]
          BY <1>6, TailParts
        <4> QED
          BY <1>8, <3>1, <4>1
      <3> QED
        BY <1>0, <1>2, <1>6, <1>8, <3>1 DEF StreamOK, Blank, Channel, Exists, Used
    <2>4. Holding(StreamNode[s])'
      BY <1>0, <1>2 DEF Holding, Exists
    <2>5. Used(s)' <=> Used(s)
      BY <1>2 DEF Used
    <2> QED
      BY <1>0, <1>1, <2>1, <2>2, <2>3, <2>4, <2>5, ConvergedHere DEF StreamOK
  <1>9. CASE Stale(s, r) /\ pc' = pc /\ UNCHANGED <<cacheVars, current, responders>>
    <2>1. UNCHANGED <<responses, responders>> /\ watches' \subseteq watches
      BY <1>9 DEF cacheVars, watchVars
    <2>2. Pend(s)' = Tail(q)
      BY <1>4, <1>5, <1>6, <1>9 DEF Handling
    <2> QED
      BY <1>8, <1>9, <2>1, <2>2
  <1>10. CASE ~responders[s][r.type].active /\ OpenWatch(s, r) /\ pc' = pc
    <2>1. MayOpen(s, r)
      BY <1>2, <1>10 DEF MayOpen
    <2>2. Pend(s)' = Tail(Pend(s))
      BY <1>4, <1>5, <1>10 DEF Handling
    <2> QED
      BY <1>5, <1>7, <1>10, <2>1, <2>2, ConvergedOpens
  <1>11. CASE /\ CancelResponder(s, r.type)
              /\ pc' = [pc EXCEPT ![s] = IF Ordered THEN "drain" ELSE "create"]
              /\ current' = [current EXCEPT ![s] = r] /\ UNCHANGED responders
    <2>1. UNCHANGED <<responses, responders>> /\ watches' \subseteq watches
      BY <1>0, <1>4, <1>11, CancelEffect
    <2>2. Handling(s)' /\ current'[s] = r
      BY <1>0, <1>11 DEF Handling, TypeOK
    <2>3. Pend(s)' = q
      BY <1>5, <1>6, <2>2
    <2> QED
      BY <1>8, <2>1, <2>3
  <1> QED
    BY <1>3, <1>9, <1>10, <1>11 DEF Handle

\* A response goes from the channel to the wire.
LEMMA ConvergedResponds ==
    ASSUME ~Ordered, ConvergedInv, ServiceInv', PlainInv', NEW s \in Streams, SendResponse(s)
    PROVE  ConvergedInv'
  <1>0. /\ ServiceInv /\ ServerInv /\ TypeOK /\ PlaceOK(s) /\ OpenedOK(s) /\ BufferInv
        /\ StreamOK(s) /\ Holding(StreamNode[s])
        /\ responses \in [Channels -> Seq(Responses)] /\ toClient[s] \in Seq(DiscoveryResponses)
    BY StreamAssumption DEF ConvergedInv, ServiceInv, ServerInv, StreamInv, TypeOK, CacheTypeOK
  <1>1. Elsewhere(s) /\ OpensFor(s)
    BY <1>0, ServerElsewhere, OpensHere DEF ServerActs
  <1>2. UNCHANGED <<watches, known, toServer, pc, current, client, conn, snapshots, live>> /\ pc[s] = Loop
    BY <1>1 DEF SendResponse, loopVars, streamVars, clientVars, Elsewhere, setVars
  <1>3. PICK t \in Types, c \in Channels : c = Channel(s, t) /\ responses[c] # <<>> /\ Send(s, c)
    BY ChannelTyped DEF SendResponse
  <1>4. PICK buffer \in Seq(Responses) : buffer = responses[c] /\ buffer # <<>>
    BY <1>0, <1>3
  <1>5. PICK r \in Responses : r = Head(buffer) /\ 1 \in DOMAIN buffer /\ r = buffer[1]
    BY <1>4, TailParts
  <1>6. r.request.type = t
    <2>1. PICK u : u = r.request.type
      OBVIOUS
    <2>2. Channel(s, t) = Channel(s, u)
      BY <1>0, <1>3, <1>4, <1>5, <2>1 DEF PlaceOK, Channel
    <2> QED
      BY <2>1, <2>2, ChannelOfStream
  <1>7. r.request.names = responders[s][t].names
    <2>1. 1 \in BufferedOn(Channel(s, t), t) /\ responses[Channel(s, t)][1] = r
      BY <1>3, <1>4, <1>5, <1>6 DEF BufferedOn
    <2>2. pc[s] \notin {"closing", "closed"}
      BY <1>2 DEF Loop
    <2> QED
      BY <1>0, <2>1, <2>2 DEF BufferInv
  <1>8. GenuineIn(Tail(buffer), t) /\ Carries(r, t, r.request.names)
    <2>1. GenuineIn(buffer, t)
      BY <1>0, <1>3, <1>4 DEF StreamOK, Genuine
    <2> QED
      BY <1>4, <1>5, <2>1, GenuineTail
  <1>9. PICK d : d = [type |-> t, version |-> r.version, resources |-> r.resources,
                      heartbeat |-> r.heartbeat, nonce |-> nonce[s] + 1, at |-> r.at,
                      pushed |-> r.pushed, names |-> r.request.names]
    OBVIOUS
  <1>10. d.type = t /\ d.names = r.request.names /\ d.nonce = nonce[s] + 1 /\ Carries(d, d.type, d.names)
    BY <1>8, <1>9 DEF Carries
  <1>11. PICK l2 : l2 = [nonce |-> nonce[s] + 1, names |-> r.request.names]
    OBVIOUS
  <1>12. /\ responses' = [responses EXCEPT ![c] = Tail(@)]
         /\ last' = [last EXCEPT ![s][t] = l2]
         /\ responders' = [responders EXCEPT ![s][t].nonce = nonce[s] + 1]
         /\ toClient' = [toClient EXCEPT ![s] = IF ~live[s] THEN @ ELSE Append(@, d)]
    BY <1>3, <1>4, <1>5, <1>6, <1>9, <1>11 DEF Send
  <1>13. /\ last'[s][t] = l2 /\ \A u \in Types : u # t => last'[s][u] = last[s][u]
         /\ toClient'[s] = IF ~live[s] THEN toClient[s] ELSE Append(toClient[s], d)
    BY <1>0, <1>12 DEF TypeOK
  <1>14. PICK w, w2 : /\ w = responders[s][t] /\ w2 = responders'[s][t]
                      /\ w2.names = w.names /\ w2.nonce = nonce[s] + 1
                      /\ \A u \in Types : u # t => responders'[s][u] = responders[s][u]
    <2>1. responders[s][t] \in Responders
      BY <1>0 DEF TypeOK, Responders
    <2>2. responders'[s][t] = [responders[s][t] EXCEPT !.nonce = nonce[s] + 1]
      BY <1>0, <1>12 DEF TypeOK
    <2>3. \A u \in Types : u # t => responders'[s][u] = responders[s][u]
      BY <1>0, <1>12 DEF TypeOK
    <2> QED
      BY <2>1, <2>2, <2>3 DEF Responders
  <1>15. Records(w, w2, l2, d)
    BY <1>7, <1>10, <1>11, <1>14 DEF Records
  <1>16. Pend(s)' = Pend(s) /\ (Used(s)' <=> Used(s))
    BY <1>2 DEF Pend, Handling, Used
  <1>17. ASSUME Used(s), NEW u \in Types PROVE Sync(s, u)'
    <2>1. PICK st, w1, k, l, q, o, open :
             /\ st = client[StreamNode[s]][u] /\ w1 = responders[s][u]
             /\ k = known[s][u] /\ l = last[s][u] /\ q = Pend(s) /\ o = toClient[s]
             /\ open = OpenOn(Channel(s, u), u)
      OBVIOUS
    <2>0. o \in Seq(DiscoveryResponses)
      BY <1>0, <2>1
    <2>2. Synced(st, w1, k, l, q, o, open, u)
      BY <1>0, <1>17, <2>1 DEF StreamOK, Sync
    <2>3. /\ st = client'[StreamNode[s]][u] /\ k = known'[s][u] /\ q = Pend(s)'
          /\ open = OpenOn(Channel(s, u), u)' /\ toClient'[s] = Append(o, d)
      BY <1>0, <1>2, <1>13, <1>16, <1>17, <2>1 DEF OpenOn, Channel, OpenedOK
    <2>4. CASE u = t
      <3>1. Synced(st, w, k, l, q, o, open, t)
        BY <1>14, <2>1, <2>2, <2>4
      <3>2. Synced(st, w2, k, l2, q, Append(o, d), open, t)
        BY <1>10, <1>15, <2>0, <3>1, SyncedSent
      <3> QED
        BY <1>13, <1>14, <2>3, <2>4, <3>2 DEF Sync
    <2>5. CASE u # t
      <3>1. Synced(st, w1, k, l, q, Append(o, d), open, u)
        BY <1>10, <2>0, <2>2, <2>5, SyncedSentOther
      <3> QED
        BY <1>13, <1>14, <2>1, <2>3, <2>5, <3>1 DEF Sync
    <2> QED
      BY <2>4, <2>5
  <1>18. Genuine(s)'
    <2>1. GenuineOn(toClient'[s])
      <3>1. GenuineOn(toClient[s])
        BY <1>0 DEF StreamOK, Genuine
      <3>2. GenuineOn(Append(toClient[s], d))
        BY <1>0, <1>10, <3>1, GenuineWire
      <3> QED
        BY <1>13, <3>1, <3>2
    <2>2. ASSUME NEW u \in Types PROVE GenuineIn(responses'[Channel(s, u)], u)
      <3>1. CASE u = t
        BY <1>0, <1>3, <1>4, <1>8, <1>12, <3>1
      <3>2. CASE u # t
        <4>1. PICK e \in Channels : e = Channel(s, u) /\ e # c
          BY <1>3, <3>2, ChannelTyped, ChannelOfStream
        <4>2. responses'[e] = responses[e]
          BY <1>0, <1>12, <4>1
        <4> QED
          BY <1>0, <4>1, <4>2 DEF StreamOK, Genuine
      <3> QED
        BY <3>1, <3>2
    <2> QED
      BY <2>1, <2>2 DEF Genuine, Channel
  <1>19. Blank(s)'
    <2>1. Exists(StreamNode[s])
      BY <1>0, <1>3 DEF StreamOK, Blank
    <2> QED
      BY <1>2, <2>1 DEF Blank, Exists
  <1>20. Holding(StreamNode[s])'
    BY <1>0, <1>2 DEF Holding, Exists
  <1> QED
    BY <1>0, <1>1, <1>16, <1>17, <1>18, <1>19, <1>20, StreamAssumption, ConvergedHere DEF StreamOK

\* Every step keeps clients and streams synced.
LEMMA ConvergedStep ==
    ASSUME VersionsNameContents, ~Ordered, ~Following, ~Clearing, ConvergedInv, [Next]_vars
    PROVE  ConvergedInv'
  <1>0. ServiceInv /\ ServerInv /\ PlainInv
    BY DEF ConvergedInv, ServiceInv
  <1>1. ServiceInv' /\ PlainInv'
    BY <1>0, ServiceInvStep, PlainStep
  <1>2. ASSUME NEW n \in Nodes, NEW t \in Types PROVE ~Follow(n, t)
    BY DEF Follow, Followed
  <1>3. ASSUME NEW s \in Streams PROVE ~EnterADS(s) /\ ~Drain(s)
    BY <1>0 DEF EnterADS, Drain, PlainInv
  <1>4. CASE CacheActs
    BY <1>1, <1>4, ConvergedCache
  <1>5. CASE \E n \in Nodes : (\E t \in Types : Ask(n, t) \/ AskMore(n, t)) \/ Ack(n) \/ Nack(n)
    BY <1>1, <1>5, ConvergedAsks, ConvergedTakes
  <1>6. CASE \E s \in Streams : Connect(s)
    BY <1>1, <1>6, ConvergedConnect
  <1>7. CASE \E s \in Streams : \/ Disconnect(s) \/ RefuseRequest(s) \/ CloseRequests(s) \/ Exit(s)
                                \/ (\E t \in Types : CloseWatch(s, t)) \/ CloseMux(s) \/ Closed(s)
    BY <1>1, <1>7, ConvergedEnding
  <1>8. CASE \E s \in Streams : RecvRequest(s) \/ SupersedeWatch(s) \/ SendResponse(s)
    BY <1>1, <1>8, ConvergedReceives, ConvergedSupersedes, ConvergedResponds
  <1>9. CASE UNCHANGED vars
    <2>1. UNCHANGED <<snapshots, watches, responses, pc, current, toServer, toClient, responders, known, last,
                      conn, client>>
      BY <1>9 DEF vars, cacheVars, watchVars, setVars, loopVars, watcherVars, sentVars, linkVars, clientVars
    <2>2. ASSUME NEW s \in Streams PROVE StreamOK(s)'
      <3>1. StreamOK(s) /\ Pend(s)' = Pend(s) /\ (Used(s)' <=> Used(s))
        BY <2>1 DEF ConvergedInv, Pend, Handling, Used
      <3>2. \A t \in Types : Sync(s, t) => Sync(s, t)'
        BY <2>1, <3>1 DEF Sync, OpenOn, Channel
      <3>3. Genuine(s)' /\ Blank(s)'
        BY <2>1, <3>1 DEF StreamOK, Genuine, Blank, Channel, Exists
      <3> QED
        BY <3>1, <3>2, <3>3 DEF StreamOK
    <2>3. ASSUME NEW n \in Nodes PROVE Holding(n)'
      BY <2>1 DEF ConvergedInv, Holding, Exists
    <2> QED
      BY <1>1, <2>2, <2>3 DEF ConvergedInv
  <1> QED
    BY <1>2, <1>3, <1>4, <1>5, <1>6, <1>7, <1>8, <1>9 DEF Next, ServerActs

\* Nothing is under way at the start.
LEMMA InitConverged ==
    ASSUME VersionsNameContents, ~Heartbeating, Init
    PROVE  ConvergedInv
  <1>1. ServiceInv
    BY InitServiceInv
  <1>2. PlainInv
    BY DEF Init, CacheInit, PlainInv
  <1>3. ASSUME NEW s \in Streams PROVE StreamOK(s)
    <2>1. ~Used(s)
      BY <1>3, StreamAssumption DEF Init, Used
    <2>2. toClient[s] = <<>> /\ \A t \in Types : responses[Channel(s, t)] = <<>>
      BY ChannelTyped DEF Init, CacheInit
    <2>3. DOMAIN <<>> = {}
      OBVIOUS
    <2>4. Genuine(s) /\ Blank(s)
      BY <2>1, <2>2, <2>3 DEF Genuine, GenuineIn, GenuineOn, Blank
    <2> QED
      BY <2>1, <2>4 DEF StreamOK
  <1>4. ASSUME NEW n \in Nodes PROVE Holding(n)
    <2>1. ASSUME NEW t \in Types
          PROVE  /\ client[n][t].version = NoVersion /\ client[n][t].received = NoVersion
                 /\ client[n][t].content = EmptyMap
      BY DEF Init
    <2>2. ASSUME NEW t \in Types PROVE Has(client[n][t], t, {})
      BY <2>1 DEF Has, VersionsNameContents
    <2> QED
      BY <2>1, <2>2 DEF Holding
  <1> QED
    BY <1>1, <1>2, <1>3, <1>4 DEF ConvergedInv

\* A stream at rest waits for a version other than the snapshot's, which is the one
\* its client has accepted last.
LEMMA AtRest ==
    ASSUME ConvergedInv, SilentInv, NoMissedUpdate, NEW n \in Nodes, conn[n] # NoStream,
           Quiet(conn[n]), Exists(n), n \notin interrupted, ~Ads, NEW t \in Types, client[n][t].asked
    PROVE  Converged(n, t) \/ client[n][t].rejected
  <1>0. ServiceInv /\ ServerInv /\ TypeOK
    BY DEF ConvergedInv, ServiceInv, ServerInv
  <1>1. PICK s \in Streams : s = conn[n] /\ StreamNode[s] = n /\ Used(s)
    BY <1>0, NodeOfStream
  <1>2. /\ pc[s] = Loop /\ toServer[s] = <<>> /\ toClient[s] = <<>> /\ holder = "none"
        /\ responses[Channel(s, t)] = <<>>
    BY <1>1 DEF Quiet
  <1>3. ~Handling(s) /\ pc[s] \notin {"closing", "closed"} /\ Pend(s) = <<>>
    BY <1>2 DEF Handling, Loop, Pend
  <1>4. PICK st, w, k, l, open : /\ st = client[n][t] /\ w = responders[s][t] /\ k = known[s][t]
                                 /\ l = last[s][t] /\ open = OpenOn(Channel(s, t), t)
    OBVIOUS
  <1>5. Synced(st, w, k, l, <<>>, <<>>, open, t)
    BY <1>1, <1>2, <1>3, <1>4 DEF ConvergedInv, StreamOK, Sync
  <1>6. None(<<>>, t)
    <2>1. DOMAIN <<>> = {}
      OBVIOUS
    <2> QED
      BY <2>1 DEF None
  <1>7. /\ w.active /\ w.nonce = 0 /\ w.names = st.names
        /\ \A x \in open : x.request.version = st.version
        /\ st.rejected \/ Has(st, t, l.names)
        /\ k \subseteq l.names /\ NoNews(k, open, t)
    BY <1>4, <1>5, <1>6 DEF Synced, Settled, Received, Nested
  <1>8. Pending(s, t)
    <2>1. Awaiting(s, t)
      BY <1>3, <1>4, <1>7 DEF Awaiting
    <2> QED
      BY <2>1 DEF SilentInv, MayBeHeld
  <1>9. PICK x \in open : TRUE
    <2>1. DOMAIN <<>> = {}
      OBVIOUS
    <2> QED
      BY <1>2, <1>4, <1>8, <2>1 DEF Pending, BufferedOn
  <1>10. x \in watches /\ x.chan = Channel(s, t) /\ x.request.type = t
    BY <1>4, <1>9 DEF OpenOn
  <1>11. x.request.node = n /\ x.request.names = st.names
    <2>1. PICK s2 \in Streams : Owned(x, s2)
      BY <1>0, <1>10 DEF ServerInv, WatchInv
    <2>2. Channel(s2, t) = Channel(s, t)
      BY <1>10, <2>1 DEF Owned
    <2>3. s2 = s
      BY <2>2, ChannelOfStream
    <2> QED
      BY <1>1, <1>4, <1>7, <1>10, <2>1, <2>3 DEF Owned
  <1>12. st.version = SnapshotVersion(n, t)
    BY <1>2, <1>7, <1>9, <1>10, <1>11 DEF NoMissedUpdate
  <1>13. PICK S \in Snapshots : S = snapshots[n] /\ S.version[t] = st.version
    BY <1>0, <1>12 DEF TypeOK, CacheTypeOK, Exists, SnapshotVersion
  <1>14. PICK contents : contents = S.resources[t] /\ contents = SnapshotResources(n, t)
    BY <1>13 DEF SnapshotResources
  <1>15. (st.names \ k) \cap DOMAIN contents = {}
    BY <1>7, <1>9, <1>11, <1>13, <1>14 DEF NoNews
  <1>16. ASSUME ~st.rejected PROVE Converged(n, t)
    <2>1. /\ \A y \in l.names \cap DOMAIN contents : y \in DOMAIN st.content /\ st.content[y] = contents[y]
          /\ st.names = {} => st.content = contents
      <3>1. PICK names, R : names = l.names /\ R = S.resources
        OBVIOUS
      <3>2. Has(st, t, names)
        BY <1>7, <1>16, <3>1
      <3>3. /\ \A y \in names \cap DOMAIN R[t] : y \in DOMAIN st.content /\ st.content[y] = R[t][y]
            /\ st.names = {} => st.content = R[t]
        BY <1>13, <3>1, <3>2 DEF Has
      <3>4. R[t] = contents
        BY <1>14, <3>1
      <3> QED
        BY <3>1, <3>3, <3>4
    <2>2. \A y \in st.names \cap DOMAIN contents : y \in DOMAIN st.content /\ st.content[y] = contents[y]
      BY <1>7, <1>15, <2>1
    <2> QED
      BY <1>4, <1>12, <1>14, <2>1, <2>2 DEF Converged
  <1> QED
    BY <1>4, <1>16

\* A stream at rest has brought its client up to date: version and contents of every
\* type asked for are those of the snapshot, unless SetSnapshot reported an error or
\* the client rejected the last response.  The theorem is about streams without
\* ordered ADS on a cache without heartbeats that is never cleared, about clients
\* that ask for more and more names, and about snapshots whose versions stand for
\* contents (process, CreateWatch, respond, SetSnapshot, send, Ack).
THEOREM QuietStreamsHaveConverged ==
    ASSUME VersionsNameContents, ~Ordered, ~Following, ~Heartbeating, ~Clearing
    PROVE  Spec => []QuietMeansConverged
  <1> DEFINE Inv == ConvergedInv /\ SilentInv
  <1>1. Init => Inv
    <2> SUFFICES ASSUME Init PROVE Inv
      OBVIOUS
    <2>1. SilentInv
      BY DEF Init, SilentInv, Awaiting, NoWatch
    <2> QED
      BY <2>1, InitConverged
  <1>2. Inv /\ [Next]_vars => Inv'
    <2> SUFFICES ASSUME Inv, [Next]_vars PROVE Inv'
      OBVIOUS
    <2>1. ServerInv /\ heartbeat = "off"
      BY DEF ConvergedInv, ServiceInv, PlainInv
    <2>2. SilentInv'
      BY <2>1, SilentStep
    <2> QED
      BY <2>2, ConvergedStep
  <1>3. Inv /\ NoMissedUpdate => QuietMeansConverged
    BY AtRest DEF QuietMeansConverged
  <1> HIDE DEF Inv
  <1> QED
    BY <1>1, <1>2, <1>3, ServedCacheIsSound, PTL DEF Spec

=============================================================================
