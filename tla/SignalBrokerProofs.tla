-------------------------- MODULE SignalBrokerProofs --------------------------
(* Proofs about SignalBroker, for any number of nodes, topics, streams and   *)
(* signals, and channels of any capacity.                                    *)
EXTENDS SignalBroker, SequenceTheorems, TLAPS

-----------------------------------------------------------------------------
(* The inductive invariant.  A list holds the open streams of its node and  *)
(* topic, each once; ...                                                     *)
Listed ==
    \A n \in Node, t \in Topic :
        /\ IsInjective(subs[n][t])
        /\ \A i \in DOMAIN subs[n][t] :
              LET k == subs[n][t][i] IN
              stream[k] = "open" /\ node[k] = n /\ topic[k] = t

\* ... an open stream is on its list; ...
OpenListed ==
    \A k \in Stream : stream[k] = "open" =>
        \E i \in DOMAIN subs[node[k]][topic[k]] : subs[node[k]][topic[k]][i] = k

\* ... so is what a publisher copied of it; ...
Copied ==
    \A s \in Signal, n \in Node : task[s][n] \in {"sending", "panicked"} =>
        /\ IsInjective(todo[s][n])
        /\ \A i \in DOMAIN todo[s][n] : node[todo[s][n][i]] = n

\* ... a signal is on other nodes only after it was sent by its own, and its
\* request is answered then; ...
RelayedOnce ==
    \A s \in Signal :
        /\ task[s][origin[s]] # "none"
        /\ \A n \in Node : n # origin[s] /\ task[s][n] # "none"
                              => task[s][origin[s]] = "done"
        /\ s \in returned => task[s][origin[s]] = "done"

\* ... a stream that has a signal is no longer among those it is sent to; ...
SentOnce ==
    \A k \in Stream, i \in Nat : i \in DOMAIN Received(k) =>
        LET s == Received(k)[i] IN
        /\ task[s][node[k]] \notin {"none", "ready"}
        /\ \A j \in DOMAIN todo[s][node[k]] : todo[s][node[k]][j] # k

\* ... and a request that was answered before another one started stays so.
BeforeAnswered ==
    \A s \in Signal : before[s] \subseteq returned /\ s \notin before[s]

IInv == /\ TypeOK /\ Listed /\ OpenListed /\ Copied /\ RelayedOnce /\ SentOnce
        /\ BeforeAnswered /\ AtMostOnce /\ LocalOrder

-----------------------------------------------------------------------------
(* Sequences.                                                               *)

LEMMA InitIInv == Init => IInv
<1> SUFFICES ASSUME Init PROVE IInv
  OBVIOUS
<1>1. TypeOK
  BY EmptySeq DEF Init, TypeOK, Task
<1>2. \A k \in Stream : Received(k) = <<>>
  BY EmptySeq, ConcatEmptySeq DEF Init, Received
<1>3. Listed /\ OpenListed /\ Copied /\ RelayedOnce /\ BeforeAnswered
  BY DEF Init, Listed, OpenListed, Copied, RelayedOnce, BeforeAnswered, IsInjective
<1>4. SentOnce /\ LocalOrder
  BY <1>2 DEF SentOnce, LocalOrder
<1>5. AtMostOnce
  BY <1>2, BrokerAssumption DEF Init, AtMostOnce, IsInjective
<1> QED
  BY <1>1, <1>3, <1>4, <1>5 DEF IInv

LEMMA RemovedOnce ==
    ASSUME NEW S, NEW s \in Seq(S), IsInjective(s), NEW i \in DOMAIN s
    PROVE  /\ RemoveAt(s, i) \in Seq(S) /\ IsInjective(RemoveAt(s, i))
           /\ \A j \in DOMAIN RemoveAt(s, i) :
                 RemoveAt(s, i)[j] # s[i] /\ \E l \in DOMAIN s : RemoveAt(s, i)[j] = s[l]
           /\ \A l \in DOMAIN s : l # i =>
                 \E j \in DOMAIN RemoveAt(s, i) : RemoveAt(s, i)[j] = s[l]
<1> DEFINE a == SubSeq(s, 1, i - 1)
           b == SubSeq(s, i + 1, Len(s))
           r == a \o b
<1>1. Len(s) \in Nat /\ i \in 1 .. Len(s) /\ DOMAIN s = 1 .. Len(s)
      /\ \A l \in 1 .. Len(s) : s[l] \in S
  BY LenProperties, ElementOfSeq
<1>2. a \in Seq(S) /\ Len(a) = i - 1 /\ \A j \in 1 .. i - 1 : a[j] = s[j]
  <2>1. i - 1 \in Int /\ \A l \in 1 .. i - 1 : s[l] \in S
    BY <1>1
  <2> QED
    BY <1>1, <2>1, SubSeqProperties
<1>3. b \in Seq(S) /\ Len(b) = Len(s) - i /\ \A j \in 1 .. Len(s) - i : b[j] = s[i + j]
  <2>1. i + 1 \in Int /\ Len(s) \in Int /\ \A l \in i + 1 .. Len(s) : s[l] \in S
    BY <1>1
  <2> QED
    BY <1>1, <2>1, SubSeqProperties
<1> HIDE DEF a, b
<1>4. r \in Seq(S) /\ Len(r) = Len(s) - 1
      /\ \A j \in 1 .. Len(s) - 1 : r[j] = IF j <= i - 1 THEN a[j] ELSE b[j - (i - 1)]
  <2>1. /\ a \o b \in Seq(S) /\ Len(a \o b) = Len(a) + Len(b)
        /\ \A j \in 1 .. Len(a) + Len(b) :
              (a \o b)[j] = IF j <= Len(a) THEN a[j] ELSE b[j - Len(a)]
    BY <1>2, <1>3, ConcatProperties
  <2>2. Len(a) + Len(b) = Len(s) - 1
    BY <1>1, <1>2, <1>3
  <2> HIDE DEF r
  <2> QED
    BY <1>2, <2>1, <2>2 DEF r
<1>5. RemoveAt(s, i) = r
  BY DEF RemoveAt, a, b
<1> HIDE DEF r
<1>6. DOMAIN r = 1 .. Len(s) - 1
  BY <1>4, LenProperties
<1>7. \A j \in 1 .. Len(s) - 1 : r[j] = IF j < i THEN s[j] ELSE s[j + 1]
  <2> TAKE j \in 1 .. Len(s) - 1
  <2>1. CASE j < i
    BY <1>1, <1>2, <1>4, <2>1, SMTT(30)
  <2>2. CASE ~(j < i)
    <3>1. j - (i - 1) \in 1 .. Len(s) - i /\ i + (j - (i - 1)) = j + 1 /\ ~(j <= i - 1)
      BY <1>1, <2>2
    <3>2. r[j] = b[j - (i - 1)]
      BY <1>4, <3>1
    <3>3. b[j - (i - 1)] = s[i + (j - (i - 1))]
      BY <1>3, <3>1
    <3> QED
      BY <2>2, <3>1, <3>2, <3>3
  <2> QED
    BY <2>1, <2>2
<1>8. IsInjective(r)
  <2> SUFFICES ASSUME NEW x \in 1 .. Len(s) - 1, NEW y \in 1 .. Len(s) - 1, r[x] = r[y]
               PROVE  x = y
    BY <1>6 DEF IsInjective
  <2>1. \A l, m \in 1 .. Len(s) : s[l] = s[m] => l = m
    BY <1>1 DEF IsInjective
  <2> QED
    BY <1>1, <1>7, <2>1
<1>9. \A j \in DOMAIN r : r[j] # s[i] /\ \E l \in DOMAIN s : r[j] = s[l]
  <2>1. \A l, m \in 1 .. Len(s) : s[l] = s[m] => l = m
    BY <1>1 DEF IsInjective
  <2> QED
    BY <1>1, <1>6, <1>7, <2>1
<1>10. ASSUME NEW l \in DOMAIN s, l # i
       PROVE  \E j \in DOMAIN r : r[j] = s[l]
  <2>1. CASE l < i
    BY <1>1, <1>6, <1>7, <2>1
  <2>2. CASE l > i
    <3>1. l - 1 \in 1 .. Len(s) - 1 /\ (l - 1) + 1 = l /\ ~(l - 1 < i)
      BY <1>1, <2>2
    <3> QED
      BY <1>6, <1>7, <3>1
  <2> QED
    BY <1>1, <1>10, <2>1, <2>2
<1> QED
  BY <1>4, <1>5, <1>8, <1>9, <1>10

\* What is appended is new.
LEMMA AppendedOnce ==
    ASSUME NEW S, NEW s \in Seq(S), NEW e \in S
    PROVE  /\ Append(s, e) \in Seq(S) /\ Len(Append(s, e)) = Len(s) + 1
           /\ DOMAIN Append(s, e) = 1 .. Len(s) + 1 /\ DOMAIN s = 1 .. Len(s)
           /\ Len(s) \in Nat
           /\ \A i \in 1 .. Len(s) : Append(s, e)[i] = s[i]
           /\ Append(s, e)[Len(s) + 1] = e
           /\ IsInjective(s) /\ (\A i \in DOMAIN s : s[i] # e) => IsInjective(Append(s, e))
<1>1. /\ Append(s, e) \in Seq(S) /\ Len(Append(s, e)) = Len(s) + 1
      /\ \A i \in 1 .. Len(s) : Append(s, e)[i] = s[i]
      /\ Append(s, e)[Len(s) + 1] = e
  BY AppendProperties
<1>2. /\ DOMAIN Append(s, e) = 1 .. Len(s) + 1 /\ DOMAIN s = 1 .. Len(s)
      /\ Len(s) \in Nat
  BY <1>1, LenProperties
<1> DEFINE r == Append(s, e)
<1> HIDE DEF r
<1>3. ASSUME \A x, y \in DOMAIN s : s[x] = s[y] => x = y, \A i \in DOMAIN s : s[i] # e,
             NEW x \in DOMAIN r, NEW y \in DOMAIN r, r[x] = r[y]
      PROVE  x = y
  <2>1. /\ DOMAIN r = 1 .. Len(s) + 1 /\ r[Len(s) + 1] = e
        /\ \A i \in 1 .. Len(s) : r[i] = s[i]
    BY <1>1, <1>2 DEF r
  <2> QED
    BY <1>2, <1>3, <2>1
<1>4. IsInjective(s) /\ (\A i \in DOMAIN s : s[i] # e) => IsInjective(r)
  BY <1>3 DEF IsInjective
<1> QED
  BY <1>1, <1>2, <1>4 DEF r

\* The tail of a sequence without repetitions lacks its head.
LEMMA TailOnce ==
    ASSUME NEW S, NEW s \in Seq(S), s # <<>>, IsInjective(s)
    PROVE  /\ Head(s) \in S /\ Tail(s) \in Seq(S) /\ IsInjective(Tail(s))
           /\ \A j \in DOMAIN Tail(s) :
                 Tail(s)[j] # Head(s) /\ \E l \in DOMAIN s : Tail(s)[j] = s[l]
           /\ \E l \in DOMAIN s : Head(s) = s[l]
<1>1. Head(s) \in S /\ Tail(s) \in Seq(S) /\ Len(Tail(s)) = Len(s) - 1
  BY HeadTailProperties
<1>2. Len(s) \in Nat \ {0} /\ DOMAIN s = 1 .. Len(s)
      /\ DOMAIN Tail(s) = 1 .. Len(s) - 1
  BY <1>1, LenProperties, EmptySeq
<1>3. Head(s) = s[1] /\ \A j \in 1 .. Len(s) - 1 : Tail(s)[j] = s[j + 1]
  BY <1>1, <1>2
<1>4. \A l, m \in 1 .. Len(s) : s[l] = s[m] => l = m
  BY <1>2 DEF IsInjective
<1>5. IsInjective(Tail(s))
  BY <1>2, <1>3, <1>4 DEF IsInjective
<1> QED
  BY <1>1, <1>2, <1>3, <1>4, <1>5

LEMMA AppendedLast ==
    ASSUME NEW S, NEW w \in Seq(S), NEW b \in Seq(S), NEW e \in S
    PROVE  w \o Append(b, e) = Append(w \o b, e)
<1>1. w \o b \in Seq(S) /\ <<e>> \in Seq(S)
  BY ConcatProperties
<1>2. Append(b, e) = b \o <<e>> /\ Append(w \o b, e) = (w \o b) \o <<e>>
  BY <1>1, AppendIsConcat
<1>3. (w \o b) \o <<e>> = w \o (b \o <<e>>)
  BY <1>1, ConcatAssociative
<1> QED
  BY <1>2, <1>3

\* What is written is no longer in the channel.
LEMMA MovedSame ==
    ASSUME NEW S, NEW w \in Seq(S), NEW b \in Seq(S), b # <<>>
    PROVE  Append(w, Head(b)) \o Tail(b) = w \o b
<1>1. Head(b) \in S /\ Tail(b) \in Seq(S) /\ Len(Tail(b)) = Len(b) - 1
  BY HeadTailProperties
<1>2. Len(w) \in Nat /\ Len(b) \in Nat \ {0}
  BY LenProperties, EmptySeq
<1>3. Head(b) = b[1] /\ \A j \in 1 .. Len(b) - 1 : Tail(b)[j] = b[j + 1]
  BY <1>1, <1>2
<1> DEFINE a == Append(w, Head(b))
           x == a \o Tail(b)
           y == w \o b
<1>4. /\ a \in Seq(S) /\ Len(a) = Len(w) + 1 /\ a[Len(w) + 1] = Head(b)
      /\ \A i \in 1 .. Len(w) : a[i] = w[i]
  BY <1>1, AppendProperties
<1> HIDE DEF a
<1>5. /\ x \in Seq(S) /\ Len(x) = Len(a) + Len(Tail(b))
      /\ \A i \in 1 .. Len(a) + Len(Tail(b)) :
            x[i] = IF i <= Len(a) THEN a[i] ELSE Tail(b)[i - Len(a)]
  BY <1>1, <1>4, ConcatProperties
<1>6. /\ y \in Seq(S) /\ Len(y) = Len(w) + Len(b)
      /\ \A i \in 1 .. Len(w) + Len(b) :
            y[i] = IF i <= Len(w) THEN w[i] ELSE b[i - Len(w)]
  BY ConcatProperties
<1> HIDE DEF x, y
<1>7. Len(x) = Len(y)
  BY <1>1, <1>2, <1>4, <1>5, <1>6
<1>8. ASSUME NEW i \in 1 .. Len(x)
      PROVE  x[i] = y[i]
  <2>1. i \in 1 .. Len(w) + Len(b) /\ i \in 1 .. Len(a) + Len(Tail(b))
    BY <1>5, <1>6, <1>7
  <2>2. CASE i <= Len(w)
    BY <1>2, <1>4, <1>5, <1>6, <2>1, <2>2
  <2>3. CASE i = Len(w) + 1
    <3>1. i - Len(w) = 1 /\ ~(i <= Len(w)) /\ i <= Len(a)
      BY <1>2, <1>4, <2>3
    <3> QED
      BY <1>3, <1>4, <1>5, <1>6, <2>1, <2>3, <3>1
  <2>4. CASE i > Len(w) + 1
    <3>1. /\ i - Len(a) \in 1 .. Len(b) - 1 /\ (i - Len(a)) + 1 = i - Len(w)
          /\ ~(i <= Len(w)) /\ ~(i <= Len(a))
      BY <1>2, <1>4, <2>1, <2>4
    <3>2. x[i] = Tail(b)[i - Len(a)] /\ y[i] = b[i - Len(w)]
      BY <1>5, <1>6, <2>1, <3>1
    <3> QED
      BY <1>3, <3>1, <3>2
  <2> QED
    BY <1>2, <2>1, <2>2, <2>3, <2>4
<1>9. x = y
  BY <1>5, <1>6, <1>7, <1>8, SeqEqual
<1> QED
  BY <1>9 DEF x, y, a

LEMMA ReceivedTyped ==
    ASSUME TypeOK
    PROVE  \A k \in Stream : Received(k) \in Seq(Signal)
BY ConcatProperties DEF TypeOK, Received

-----------------------------------------------------------------------------
(* The streams.                                                             *)

\* What the publishers know does not depend on the lists and the streams.
Sent == Copied /\ RelayedOnce /\ SentOnce /\ BeforeAnswered /\ AtMostOnce /\ LocalOrder
Lists == Listed /\ OpenListed

LEMMA SentApart ==
    ASSUME Sent,
           UNCHANGED <<request, buffer, written, task, todo, returned, before>>
    PROVE  Sent'
<1>1. \A k \in Stream : Received(k)' = Received(k)
  BY DEF Received
<1>2. Copied' /\ RelayedOnce' /\ BeforeAnswered'
  BY DEF Sent, Copied, RelayedOnce, BeforeAnswered, request
<1>3. SentOnce'
  BY <1>1 DEF Sent, SentOnce, request
<1>4. AtMostOnce' /\ LocalOrder'
  BY <1>1 DEF Sent, AtMostOnce, LocalOrder, request
<1> QED
  BY <1>2, <1>3, <1>4 DEF Sent

LEMMA ListsApart ==
    ASSUME Lists, UNCHANGED <<request, stream, subs>>
    PROVE  Lists'
BY DEF Lists, Listed, OpenListed, request

LEMMA SubscribeKeeps ==
    ASSUME TypeOK, Lists, NEW k \in Stream, Subscribe(k)
    PROVE  TypeOK' /\ Lists'
<1> DEFINE n == node[k]
           t == topic[k]
           old == subs[n][t]
           new == Append(old, k)
<1>1. /\ n \in Node /\ t \in Topic /\ old \in Seq(Stream)
      /\ subs \in [Node -> [Topic -> Seq(Stream)]]
      /\ stream \in [Stream -> {"new", "open", "leaving", "closed"}]
  BY DEF TypeOK
<1>2. /\ stream[k] = "new" /\ stream' = [stream EXCEPT ![k] = "open"]
      /\ subs' = [subs EXCEPT ![n][t] = new]
      /\ UNCHANGED <<request, buffer, written, task, todo, returned, before>>
  BY DEF Subscribe
<1>3. IsInjective(old) /\ \A i \in DOMAIN old :
         stream[old[i]] = "open" /\ node[old[i]] = n /\ topic[old[i]] = t
  BY <1>1 DEF Lists, Listed
<1>4. /\ new \in Seq(Stream) /\ DOMAIN new = 1 .. Len(old) + 1
      /\ DOMAIN old = 1 .. Len(old) /\ Len(old) \in Nat
      /\ \A i \in 1 .. Len(old) : new[i] = old[i]
      /\ new[Len(old) + 1] = k /\ IsInjective(new)
  <2>1. \A i \in DOMAIN old : old[i] # k
    BY <1>2, <1>3
  <2> QED
    BY <1>1, <1>3, <2>1, AppendedOnce
<1> HIDE DEF new
<1>5. /\ subs' \in [Node -> [Topic -> Seq(Stream)]] /\ subs'[n][t] = new
      /\ \A m \in Node, u \in Topic : m # n \/ u # t => subs'[m][u] = subs[m][u]
  BY <1>1, <1>2, <1>4
<1>6. /\ stream' \in [Stream -> {"new", "open", "leaving", "closed"}] /\ stream'[k] = "open"
      /\ \A q \in Stream : q # k => stream'[q] = stream[q]
  BY <1>1, <1>2
<1>7. TypeOK'
  BY <1>2, <1>5, <1>6 DEF TypeOK, request
<1>8. Listed'
  <2> SUFFICES ASSUME NEW m \in Node, NEW u \in Topic
               PROVE  /\ IsInjective(subs'[m][u])
                      /\ \A i \in DOMAIN subs'[m][u] :
                            /\ stream'[subs'[m][u][i]] = "open"
                            /\ node[subs'[m][u][i]] = m /\ topic[subs'[m][u][i]] = u
    BY <1>2 DEF Listed, request
  <2>1. CASE m = n /\ u = t
    <3>1. \A i \in DOMAIN new : stream'[new[i]] = "open" /\ node[new[i]] = n /\ topic[new[i]] = t
      <4> TAKE i \in DOMAIN new
      <4>1. CASE i = Len(old) + 1
        BY <1>4, <1>6, <4>1
      <4>2. CASE i # Len(old) + 1
        <5>1. i \in DOMAIN old /\ new[i] = old[i]
          BY <1>4, <4>2
        <5>2. old[i] \in Stream /\ old[i] # k
          BY <1>1, <1>2, <1>3, <1>4, <5>1, ElementOfSeq
        <5> QED
          BY <1>3, <1>6, <5>1, <5>2
      <4> QED
        BY <4>1, <4>2
    <3> QED
      BY <1>4, <1>5, <2>1, <3>1
  <2>2. CASE m # n \/ u # t
    <3>1. subs'[m][u] = subs[m][u] /\ subs[m][u] \in Seq(Stream)
      BY <1>1, <1>5, <2>2
    <3>2. ASSUME NEW i \in DOMAIN subs[m][u]
          PROVE  stream'[subs[m][u][i]] = "open"
      <4>1. subs[m][u][i] \in Stream /\ stream[subs[m][u][i]] = "open"
        BY <3>1, ElementOfSeq, LenProperties DEF Lists, Listed
      <4> QED
        BY <1>2, <1>6, <4>1
    <3> QED
      BY <3>1, <3>2 DEF Lists, Listed
  <2> QED
    BY <2>1, <2>2
<1>9. OpenListed'
  <2> SUFFICES ASSUME NEW q \in Stream, stream'[q] = "open"
               PROVE  \E i \in DOMAIN subs'[node[q]][topic[q]] : subs'[node[q]][topic[q]][i] = q
    BY <1>2 DEF OpenListed, request
  <2>1. CASE q = k
    <3>1. Len(old) + 1 \in DOMAIN new /\ new[Len(old) + 1] = k
      BY <1>4
    <3> QED
      BY <1>5, <2>1, <3>1
  <2>2. CASE q # k
    <3>1. /\ node[q] \in Node /\ topic[q] \in Topic
          /\ \E i \in DOMAIN subs[node[q]][topic[q]] : subs[node[q]][topic[q]][i] = q
      BY <1>6, <2>2 DEF TypeOK, Lists, OpenListed
    <3>2. CASE node[q] = n /\ topic[q] = t
      <4>1. PICK i \in DOMAIN old : old[i] = q
        BY <3>1, <3>2
      <4>2. i \in DOMAIN new /\ new[i] = q
        BY <1>4, <4>1
      <4> QED
        BY <1>5, <3>2, <4>2
    <3>3. CASE node[q] # n \/ topic[q] # t
      BY <1>5, <3>1, <3>3
    <3> QED
      BY <3>2, <3>3
  <2> QED
    BY <2>1, <2>2
<1> QED
  BY <1>7, <1>8, <1>9 DEF Lists

LEMMA UnsubscribeKeeps ==
    ASSUME TypeOK, Lists, NEW k \in Stream, Unsubscribe(k)
    PROVE  TypeOK' /\ Lists'
<1> DEFINE n == node[k]
           t == topic[k]
           old == subs[n][t]
<1>1. /\ n \in Node /\ t \in Topic /\ old \in Seq(Stream)
      /\ subs \in [Node -> [Topic -> Seq(Stream)]]
      /\ stream \in [Stream -> {"new", "open", "leaving", "closed"}]
  BY DEF TypeOK
<1>2. PICK l \in DOMAIN old : old[l] = k /\ subs' = [subs EXCEPT ![n][t] = RemoveAt(old, l)]
  BY DEF Unsubscribe
<1>3. /\ stream' = [stream EXCEPT ![k] = "leaving"]
      /\ UNCHANGED <<request, buffer, written, task, todo, returned, before>>
  BY DEF Unsubscribe
<1>4. IsInjective(old) /\ \A i \in DOMAIN old :
         stream[old[i]] = "open" /\ node[old[i]] = n /\ topic[old[i]] = t
  BY <1>1 DEF Lists, Listed
<1> DEFINE new == RemoveAt(old, l)
<1>5. /\ new \in Seq(Stream) /\ IsInjective(new)
      /\ \A j \in DOMAIN new : new[j] # k /\ \E i \in DOMAIN old : new[j] = old[i]
      /\ \A i \in DOMAIN old : i # l => \E j \in DOMAIN new : new[j] = old[i]
  BY <1>1, <1>2, <1>4, RemovedOnce
<1>6. subs' = [subs EXCEPT ![n][t] = new]
  BY <1>2
<1> HIDE DEF new
<1>7. /\ subs' \in [Node -> [Topic -> Seq(Stream)]] /\ subs'[n][t] = new
      /\ \A m \in Node, u \in Topic : m # n \/ u # t => subs'[m][u] = subs[m][u]
  BY <1>1, <1>5, <1>6
<1>8. /\ stream' \in [Stream -> {"new", "open", "leaving", "closed"}] /\ stream'[k] = "leaving"
      /\ \A q \in Stream : q # k => stream'[q] = stream[q]
  BY <1>1, <1>3
<1>9. TypeOK'
  BY <1>3, <1>7, <1>8 DEF TypeOK, request
<1>10. Listed'
  <2> SUFFICES ASSUME NEW m \in Node, NEW u \in Topic
               PROVE  /\ IsInjective(subs'[m][u])
                      /\ \A i \in DOMAIN subs'[m][u] :
                            /\ stream'[subs'[m][u][i]] = "open"
                            /\ node[subs'[m][u][i]] = m /\ topic[subs'[m][u][i]] = u
    BY <1>3 DEF Listed, request
  <2>1. CASE m = n /\ u = t
    <3>1. ASSUME NEW j \in DOMAIN new
          PROVE  stream'[new[j]] = "open" /\ node[new[j]] = n /\ topic[new[j]] = t
      <4>1. new[j] \in Stream
        BY <1>5, ElementOfSeq, LenProperties
      <4> QED
        BY <1>4, <1>5, <1>8, <4>1
    <3> QED
      BY <1>5, <1>7, <2>1, <3>1
  <2>2. CASE m # n \/ u # t
    <3>1. subs'[m][u] = subs[m][u] /\ subs[m][u] \in Seq(Stream)
      BY <1>1, <1>7, <2>2
    <3>2. ASSUME NEW i \in DOMAIN subs[m][u]
          PROVE  stream'[subs[m][u][i]] = "open"
      <4>1. /\ subs[m][u][i] \in Stream /\ stream[subs[m][u][i]] = "open"
            /\ node[subs[m][u][i]] = m /\ topic[subs[m][u][i]] = u
        BY <3>1, ElementOfSeq, LenProperties DEF Lists, Listed
      <4> QED
        BY <1>8, <2>2, <4>1
    <3> QED
      BY <3>1, <3>2 DEF Lists, Listed
  <2> QED
    BY <2>1, <2>2
<1>11. OpenListed'
  <2> SUFFICES ASSUME NEW q \in Stream, stream'[q] = "open"
               PROVE  \E i \in DOMAIN subs'[node[q]][topic[q]] : subs'[node[q]][topic[q]][i] = q
    BY <1>3 DEF OpenListed, request
  <2>1. q # k /\ stream[q] = "open"
    BY <1>8
  <2>2. /\ node[q] \in Node /\ topic[q] \in Topic
        /\ \E i \in DOMAIN subs[node[q]][topic[q]] : subs[node[q]][topic[q]][i] = q
    BY <2>1 DEF TypeOK, Lists, OpenListed
  <2>3. CASE node[q] = n /\ topic[q] = t
    BY <1>2, <1>5, <1>7, <2>1, <2>2, <2>3
  <2>4. CASE node[q] # n \/ topic[q] # t
    BY <1>7, <2>2, <2>4
  <2> QED
    BY <2>3, <2>4
<1> QED
  BY <1>9, <1>10, <1>11 DEF Lists

LEMMA CloseChannelKeeps ==
    ASSUME TypeOK, Lists, NEW k \in Stream, CloseChannel(k)
    PROVE  TypeOK' /\ Lists'
<1>1. /\ stream[k] = "leaving" /\ stream' = [stream EXCEPT ![k] = "closed"]
      /\ UNCHANGED <<request, subs, buffer, written, task, todo, returned, before>>
      /\ stream \in [Stream -> {"new", "open", "leaving", "closed"}]
  BY DEF CloseChannel, TypeOK
<1>2. /\ stream' \in [Stream -> {"new", "open", "leaving", "closed"}]
      /\ \A q : (stream'[q] = "open") = (stream[q] = "open")
  BY <1>1
<1>3. TypeOK'
  BY <1>1, <1>2 DEF TypeOK, request
<1>4. Lists'
  BY <1>1, <1>2 DEF Lists, Listed, OpenListed, request
<1> QED
  BY <1>3, <1>4

\* A frame that is written moves from the channel to the client.
LEMMA WriteKeeps ==
    ASSUME TypeOK, Sent, NEW k \in Stream, Write(k)
    PROVE  TypeOK' /\ Sent'
<1>1. /\ buffer[k] # <<>> /\ buffer[k] \in Seq(Signal) /\ written[k] \in Seq(Signal)
      /\ buffer' = [buffer EXCEPT ![k] = Tail(buffer[k])]
      /\ written' = [written EXCEPT ![k] = Append(written[k], Head(buffer[k]))]
      /\ UNCHANGED <<request, stream, subs, task, todo, returned, before>>
      /\ buffer \in [Stream -> Seq(Signal)] /\ written \in [Stream -> Seq(Signal)]
  BY DEF Write, TypeOK
<1>2. /\ Head(buffer[k]) \in Signal /\ Tail(buffer[k]) \in Seq(Signal)
      /\ Len(Tail(buffer[k])) = Len(buffer[k]) - 1
      /\ Append(written[k], Head(buffer[k])) \in Seq(Signal)
  BY <1>1, HeadTailProperties, AppendProperties
<1>3. TypeOK'
  BY <1>1, <1>2 DEF TypeOK, request
<1>4. Append(written[k], Head(buffer[k])) \o Tail(buffer[k]) = written[k] \o buffer[k]
  BY <1>1, <1>2, MovedSame
<1>5. \A q \in Stream : Received(q)' = Received(q)
  BY <1>1, <1>4 DEF Received
<1>6. Copied' /\ RelayedOnce' /\ BeforeAnswered'
  BY <1>1 DEF Sent, Copied, RelayedOnce, BeforeAnswered, request
<1>7. SentOnce'
  BY <1>1, <1>5 DEF Sent, SentOnce, request
<1>8. LocalOrder'
  BY <1>1, <1>5 DEF Sent, LocalOrder, request
<1>9. AtMostOnce'
  <2>1. \A q \in Stream : Len(buffer'[q]) <= Buffer
    <3> TAKE q \in Stream
    <3>1. Len(buffer[q]) \in Nat /\ Len(buffer[q]) <= Buffer
      BY <1>1, LenProperties DEF Sent, AtMostOnce
    <3> QED
      BY <1>1, <1>2, <3>1, BrokerAssumption
  <2> QED
    BY <1>5, <2>1 DEF Sent, AtMostOnce
<1> QED
  BY <1>3, <1>6, <1>7, <1>8, <1>9 DEF Sent

-----------------------------------------------------------------------------
(* The publishers.                                                          *)

LEMMA OneTask ==
    ASSUME NEW S, NEW f \in [Signal -> [Node -> S]], NEW s \in Signal, NEW n \in Node,
           NEW v \in S, NEW g, g = [f EXCEPT ![s][n] = v]
    PROVE  /\ g \in [Signal -> [Node -> S]] /\ g[s][n] = v
           /\ \A q \in Signal, m \in Node : q # s \/ m # n => g[q][m] = f[q][m]
<1> DEFINE row == [f[s] EXCEPT ![n] = v]
<1>1. /\ row \in [Node -> S] /\ row[n] = v
      /\ \A m \in Node : m # n => row[m] = f[s][m]
  OBVIOUS
<1>2. g = [f EXCEPT ![s] = row]
  OBVIOUS
<1> HIDE DEF row
<1>3. /\ g \in [Signal -> [Node -> S]] /\ g[s] = row
      /\ \A q \in Signal : q # s => g[q] = f[q]
  BY <1>1, <1>2
<1> QED
  BY <1>1, <1>3

\* One goroutine goes on: what is on other nodes was relayed before or not at all.
LEMMA TaskMoves ==
    ASSUME TypeOK, RelayedOnce, NEW s \in Signal, NEW n \in Node,
           NEW v \in Task \ {"none", "ready"}, task[s][n] \in {"ready", "sending"},
           SetTask(s, n, v), UNCHANGED <<request, returned>>
    PROVE  /\ task' \in [Signal -> [Node -> Task]] /\ task'[s][n] = v
           /\ \A q \in Signal, m \in Node : q # s \/ m # n => task'[q][m] = task[q][m]
           /\ RelayedOnce'
<1>1. /\ task \in [Signal -> [Node -> Task]] /\ origin \in [Signal -> Node]
      /\ task' = [task EXCEPT ![s][n] = v] /\ UNCHANGED <<origin, returned>>
  BY DEF TypeOK, SetTask, request
<1>2. /\ task' \in [Signal -> [Node -> Task]] /\ task'[s][n] = v
      /\ \A q \in Signal, m \in Node : q # s \/ m # n => task'[q][m] = task[q][m]
  BY <1>1, OneTask
<1>3. RelayedOnce'
  <2> SUFFICES ASSUME NEW q \in Signal
               PROVE  /\ task'[q][origin[q]] # "none"
                      /\ \A m \in Node : m # origin[q] /\ task'[q][m] # "none"
                                            => task'[q][origin[q]] = "done"
                      /\ q \in returned => task'[q][origin[q]] = "done"
    BY <1>1 DEF RelayedOnce
  <2>1. /\ origin[q] \in Node /\ task[q][origin[q]] # "none"
        /\ \A m \in Node : m # origin[q] /\ task[q][m] # "none"
                              => task[q][origin[q]] = "done"
        /\ q \in returned => task[q][origin[q]] = "done"
    BY <1>1 DEF RelayedOnce
  <2>2. CASE q # s
    BY <1>2, <2>1, <2>2
  <2>3. CASE q = s /\ n = origin[s]
    BY <1>2, <2>1, <2>3
  <2>4. CASE q = s /\ n # origin[s]
    BY <1>2, <2>1, <2>4
  <2> QED
    BY <2>2, <2>3, <2>4
<1> QED
  BY <1>2, <1>3

LEMMA SnapshotKeeps ==
    ASSUME TypeOK, Lists, Sent, NEW s \in Signal, NEW n \in Node, Snapshot(s, n)
    PROVE  TypeOK' /\ Sent'
<1> DEFINE list == subs[n][about[s]]
<1>1. /\ task[s][n] = "ready" /\ SetTask(s, n, "sending")
      /\ todo' = [todo EXCEPT ![s][n] = list]
      /\ before' = IF n = origin[s] THEN [before EXCEPT ![s] = returned] ELSE before
      /\ UNCHANGED <<request, stream, subs, buffer, written, returned>>
  BY DEF Snapshot
<1>2. /\ list \in Seq(Stream) /\ todo \in [Signal -> [Node -> Seq(Stream)]]
      /\ before \in [Signal -> SUBSET Signal] /\ returned \subseteq Signal
      /\ about[s] \in Topic
  BY DEF TypeOK
<1>3. IsInjective(list) /\ \A i \in DOMAIN list : node[list[i]] = n
  BY <1>2 DEF Lists, Listed
<1> HIDE DEF list
<1>4. /\ task' \in [Signal -> [Node -> Task]] /\ task'[s][n] = "sending"
      /\ \A q \in Signal, m \in Node : q # s \/ m # n => task'[q][m] = task[q][m]
      /\ RelayedOnce'
  BY <1>1, TaskMoves DEF Sent, Task
<1>5. /\ todo' \in [Signal -> [Node -> Seq(Stream)]] /\ todo'[s][n] = list
      /\ \A q \in Signal, m \in Node : q # s \/ m # n => todo'[q][m] = todo[q][m]
  BY <1>1, <1>2, OneTask
<1>6. /\ before' \in [Signal -> SUBSET Signal]
      /\ \A q \in Signal : before'[q] = IF q = s /\ n = origin[s] THEN returned ELSE before[q]
  BY <1>1, <1>2
<1>7. TypeOK'
  BY <1>1, <1>4, <1>5, <1>6 DEF TypeOK, request
<1>8. Copied'
  <2> SUFFICES ASSUME NEW q \in Signal, NEW m \in Node, task'[q][m] \in {"sending", "panicked"}
               PROVE  /\ IsInjective(todo'[q][m])
                      /\ \A i \in DOMAIN todo'[q][m] : node[todo'[q][m][i]] = m
    BY <1>1 DEF Copied, request
  <2>1. CASE q = s /\ m = n
    BY <1>3, <1>5, <2>1
  <2>2. CASE q # s \/ m # n
    <3>1. todo'[q][m] = todo[q][m] /\ task'[q][m] = task[q][m]
      BY <1>4, <1>5, <2>2
    <3> QED
      BY <3>1 DEF Sent, Copied
  <2> QED
    BY <2>1, <2>2
<1>9. \A k \in Stream : Received(k)' = Received(k) /\ Received(k) \in Seq(Signal)
  BY <1>1, ReceivedTyped DEF Received
<1>10. ASSUME NEW k \in Stream, NEW i \in DOMAIN Received(k)
       PROVE  Received(k)[i] \in Signal /\ (Received(k)[i] = s => node[k] # n)
  BY <1>1, <1>9, ElementOfSeq, LenProperties DEF Sent, SentOnce
<1>11. SentOnce'
  <2> SUFFICES ASSUME NEW k \in Stream, NEW i \in Nat, i \in DOMAIN Received(k)
               PROVE  /\ task'[Received(k)[i]][node[k]] \notin {"none", "ready"}
                      /\ \A j \in DOMAIN todo'[Received(k)[i]][node[k]] :
                            todo'[Received(k)[i]][node[k]][j] # k
    BY <1>1, <1>9 DEF SentOnce, request
  <2>1. Received(k)[i] \in Signal /\ (Received(k)[i] = s => node[k] # n) /\ node[k] \in Node
    BY <1>10 DEF TypeOK
  <2>2. /\ task[Received(k)[i]][node[k]] \notin {"none", "ready"}
        /\ \A j \in DOMAIN todo[Received(k)[i]][node[k]] :
              todo[Received(k)[i]][node[k]][j] # k
    BY DEF Sent, SentOnce
  <2> QED
    BY <1>4, <1>5, <2>1, <2>2
<1>12. BeforeAnswered'
  <2>1. n = origin[s] => s \notin returned
    BY <1>1 DEF Sent, RelayedOnce
  <2> QED
    BY <1>1, <1>6, <2>1 DEF Sent, BeforeAnswered
<1>13. AtMostOnce'
  BY <1>1, <1>9 DEF Sent, AtMostOnce
<1>14. LocalOrder'
  <2> SUFFICES ASSUME NEW k \in Stream, NEW i \in 1 .. Len(Received(k)), NEW j \in 1 .. Len(Received(k)),
                      Received(k)[i] \in before'[Received(k)[j]],
                      origin[Received(k)[i]] = node[k], origin[Received(k)[j]] = node[k]
               PROVE  i < j
    BY <1>1, <1>9 DEF LocalOrder, request
  <2>1. j \in DOMAIN Received(k)
    BY <1>9, LenProperties
  <2>2. Received(k)[j] \in Signal /\ (Received(k)[j] = s => node[k] # n)
    BY <1>10, <2>1
  <2>3. before'[Received(k)[j]] = before[Received(k)[j]]
    BY <1>6, <2>2
  <2> QED
    BY <2>3 DEF Sent, LocalOrder
<1> QED
  BY <1>4, <1>7, <1>8, <1>11, <1>12, <1>13, <1>14 DEF Sent

\* A goroutine ends, or panics in a send on a closed channel.
LEMMA TaskEndsKeeps ==
    ASSUME TypeOK, Sent, NEW s \in Signal, NEW n \in Node, NEW v \in {"panicked", "relay", "done"},
           task[s][n] = "sending", SetTask(s, n, v),
           UNCHANGED <<request, stream, subs, buffer, written, todo, returned, before>>
    PROVE  TypeOK' /\ Sent'
<1>1. /\ task' \in [Signal -> [Node -> Task]] /\ task'[s][n] = v
      /\ \A q \in Signal, m \in Node : q # s \/ m # n => task'[q][m] = task[q][m]
      /\ RelayedOnce'
  BY TaskMoves DEF Sent, Task
<1>2. TypeOK'
  BY <1>1 DEF TypeOK, request
<1>3. \A k \in Stream : Received(k)' = Received(k) /\ Received(k) \in Seq(Signal)
  BY ReceivedTyped DEF Received
<1>4. Copied' /\ BeforeAnswered'
  BY <1>1 DEF Sent, Copied, BeforeAnswered, request
<1>5. SentOnce'
  <2> SUFFICES ASSUME NEW k \in Stream, NEW i \in Nat, i \in DOMAIN Received(k)
               PROVE  /\ task'[Received(k)[i]][node[k]] \notin {"none", "ready"}
                      /\ \A j \in DOMAIN todo[Received(k)[i]][node[k]] :
                            todo[Received(k)[i]][node[k]][j] # k
    BY <1>3 DEF SentOnce, request
  <2>1. Received(k)[i] \in Signal /\ node[k] \in Node
    BY <1>3, ElementOfSeq, LenProperties DEF TypeOK
  <2> QED
    BY <1>1, <2>1 DEF Sent, SentOnce
<1>6. AtMostOnce' /\ LocalOrder'
  BY <1>3 DEF Sent, AtMostOnce, LocalOrder, request
<1> QED
  BY <1>1, <1>2, <1>4, <1>5, <1>6 DEF Sent

\* A send that is done, to a channel that took the signal or was full.
LEMMA SendGoesOn ==
    ASSUME TypeOK, Sent, NEW s \in Signal, NEW n \in Node, NEW k \in Stream,
           task[s][n] = "sending", todo[s][n] # <<>>, k = Head(todo[s][n]),
           todo' = [todo EXCEPT ![s][n] = Tail(todo[s][n])],
           \/ UNCHANGED buffer
           \/ Len(buffer[k]) < Buffer /\ buffer' = [buffer EXCEPT ![k] = Append(buffer[k], s)],
           UNCHANGED <<request, stream, subs, written, task, returned, before>>
    PROVE  TypeOK' /\ Sent'
<1> DEFINE list == todo[s][n]
           rest == Tail(list)
<1>1. list \in Seq(Stream) /\ todo \in [Signal -> [Node -> Seq(Stream)]]
      /\ IsInjective(list) /\ \A i \in DOMAIN list : node[list[i]] = n
  BY SMTT(30) DEF TypeOK, Sent, Copied
<1>2. /\ rest \in Seq(Stream) /\ IsInjective(rest)
      /\ \A j \in DOMAIN rest : rest[j] # k /\ \E l \in DOMAIN list : rest[j] = list[l]
      /\ \E l \in DOMAIN list : k = list[l]
  BY <1>1, TailOnce
<1>3. todo' = [todo EXCEPT ![s][n] = rest]
  OBVIOUS
<1> HIDE DEF rest
<1>4. /\ todo' \in [Signal -> [Node -> Seq(Stream)]] /\ todo'[s][n] = rest
      /\ \A q \in Signal, m \in Node : q # s \/ m # n => todo'[q][m] = todo[q][m]
  BY <1>1, <1>2, <1>3, OneTask
<1>5. /\ buffer' \in [Stream -> Seq(Signal)]
      /\ \A q \in Stream : q # k => buffer'[q] = buffer[q]
      /\ \/ buffer'[k] = buffer[k]
         \/ Len(buffer[k]) < Buffer /\ buffer'[k] = Append(buffer[k], s)
  <2>1. buffer \in [Stream -> Seq(Signal)] /\ Append(buffer[k], s) \in Seq(Signal)
    BY AppendProperties DEF TypeOK
  <2> QED
    BY <2>1
<1>6. TypeOK'
  BY <1>4, <1>5 DEF TypeOK, request
<1>7. node[k] = n
  BY <1>1, <1>2
<1>8. /\ \A q \in Stream : Received(q) \in Seq(Signal)
      /\ \A q \in Stream : q # k => Received(q)' = Received(q)
      /\ Received(k)' = Received(k) \/ Received(k)' = Append(Received(k), s)
  <2>1. written[k] \in Seq(Signal) /\ buffer[k] \in Seq(Signal)
    BY DEF TypeOK
  <2>2. written[k] \o Append(buffer[k], s) = Append(written[k] \o buffer[k], s)
    <3>1. \A w, b \in Seq(Signal), e \in Signal : w \o Append(b, e) = Append(w \o b, e)
      BY AppendedLast
    <3> QED
      BY <2>1, <3>1, Zenon
  <2> QED
    BY <1>5, <2>2, ReceivedTyped DEF Received
<1>9. \A i \in DOMAIN Received(k) : Received(k)[i] # s
  <2> SUFFICES ASSUME NEW i \in DOMAIN Received(k), Received(k)[i] = s
               PROVE  FALSE
    OBVIOUS
  <2>1. i \in Nat
    BY <1>8, LenProperties
  <2>2. \A j \in DOMAIN list : list[j] # k
    BY <1>7, <2>1 DEF Sent, SentOnce
  <2> QED
    BY <1>2, <2>2
<1>10. /\ Append(Received(k), s) \in Seq(Signal)
       /\ Len(Append(Received(k), s)) = Len(Received(k)) + 1
       /\ DOMAIN Append(Received(k), s) = 1 .. Len(Received(k)) + 1
       /\ DOMAIN Received(k) = 1 .. Len(Received(k)) /\ Len(Received(k)) \in Nat
       /\ \A i \in 1 .. Len(Received(k)) : Append(Received(k), s)[i] = Received(k)[i]
       /\ Append(Received(k), s)[Len(Received(k)) + 1] = s
       /\ IsInjective(Append(Received(k), s))
  BY <1>8, <1>9, AppendedOnce DEF Sent, AtMostOnce
<1>11. Copied'
  <2> SUFFICES ASSUME NEW q \in Signal, NEW m \in Node, task[q][m] \in {"sending", "panicked"}
               PROVE  /\ IsInjective(todo'[q][m])
                      /\ \A i \in DOMAIN todo'[q][m] : node[todo'[q][m][i]] = m
    BY DEF Copied, request
  <2>1. CASE q = s /\ m = n
    <3>1. \A j \in DOMAIN rest : node[rest[j]] = n
      BY <1>1, <1>2
    <3> QED
      BY <1>2, <1>4, <2>1, <3>1
  <2>2. CASE q # s \/ m # n
    <3>1. todo'[q][m] = todo[q][m]
      BY <1>4, <2>2
    <3>2. /\ IsInjective(todo[q][m])
          /\ \A i \in DOMAIN todo[q][m] : node[todo[q][m][i]] = m
      BY DEF Sent, Copied
    <3> QED
      BY <3>1, <3>2
  <2> QED
    BY <2>1, <2>2
<1>12. RelayedOnce' /\ BeforeAnswered'
  BY DEF Sent, RelayedOnce, BeforeAnswered, request
<1>13. ASSUME NEW q \in Stream, NEW i \in Nat, i \in DOMAIN Received(q)
       PROVE  \A j \in DOMAIN todo'[Received(q)[i]][node[q]] :
                 todo'[Received(q)[i]][node[q]][j] # q
  <2>1. /\ Received(q)[i] \in Signal /\ node[q] \in Node
        /\ \A j \in DOMAIN todo[Received(q)[i]][node[q]] :
              todo[Received(q)[i]][node[q]][j] # q
    BY <1>8, <1>13, ElementOfSeq, LenProperties, SMTT(30) DEF TypeOK, Sent, SentOnce
  <2>2. CASE Received(q)[i] = s /\ node[q] = n
    BY <1>2, <1>4, <2>1, <2>2
  <2>3. CASE Received(q)[i] # s \/ node[q] # n
    BY <1>4, <2>1, <2>3
  <2> QED
    BY <2>2, <2>3
<1>14. SentOnce'
  <2> SUFFICES ASSUME NEW q \in Stream, NEW i \in Nat, i \in DOMAIN Received(q)'
               PROVE  /\ task[Received(q)'[i]][node[q]] \notin {"none", "ready"}
                      /\ \A j \in DOMAIN todo'[Received(q)'[i]][node[q]] :
                            todo'[Received(q)'[i]][node[q]][j] # q
    <3>1. UNCHANGED <<task, node>>
      BY DEF request
    <3> QED
      BY <3>1 DEF SentOnce
  <2>1. CASE i \in DOMAIN Received(q) /\ Received(q)'[i] = Received(q)[i]
    BY <1>13, <2>1 DEF Sent, SentOnce
  <2>2. CASE q = k /\ Received(q)'[i] = s
    BY <1>2, <1>4, <1>7, <2>2
  <2>3. \/ i \in DOMAIN Received(q) /\ Received(q)'[i] = Received(q)[i]
        \/ q = k /\ Received(q)'[i] = s
    BY <1>8, <1>10
  <2> QED
    BY <2>1, <2>2, <2>3
<1>15. AtMostOnce'
  <2> SUFFICES ASSUME NEW q \in Stream
               PROVE  Len(buffer'[q]) <= Buffer /\ IsInjective(Received(q)')
    BY DEF AtMostOnce
  <2>1. Len(buffer[q]) <= Buffer /\ IsInjective(Received(q))
        /\ buffer[q] \in Seq(Signal) /\ Len(buffer[q]) \in Nat
    BY LenProperties DEF Sent, AtMostOnce, TypeOK
  <2>2. Len(Append(buffer[q], s)) = Len(buffer[q]) + 1
    BY <2>1, AppendProperties
  <2>3. Len(buffer'[q]) <= Buffer
    <3>1. CASE buffer'[q] = buffer[q]
      BY <2>1, <3>1
    <3>2. CASE q = k /\ Len(buffer[q]) < Buffer /\ buffer'[q] = Append(buffer[q], s)
      <4>1. Len(buffer'[q]) = Len(buffer[q]) + 1
        BY <2>2, <3>2
      <4> HIDE DEF list
      <4> QED
        BY <2>1, <3>2, <4>1, BrokerAssumption
    <3> QED
      BY <1>5, <3>1, <3>2
  <2>4. IsInjective(Received(q)')
    BY <1>8, <1>10, <2>1
  <2> QED
    BY <2>3, <2>4
<1>16. LocalOrder'
  <2>1. UNCHANGED <<before, origin, node>>
    BY DEF request
  <2> SUFFICES ASSUME NEW q \in Stream, NEW i \in 1 .. Len(Received(q)'),
                      NEW j \in 1 .. Len(Received(q)'),
                      Received(q)'[i] \in before[Received(q)'[j]],
                      origin[Received(q)'[i]] = node[q], origin[Received(q)'[j]] = node[q]
               PROVE  i < j
    BY <2>1 DEF LocalOrder
  <2>2. CASE Received(q)' = Received(q)
    BY <2>2 DEF Sent, LocalOrder
  <2>3. CASE q = k /\ Received(k)' = Append(Received(k), s)
    <3>1. i \in 1 .. Len(Received(k)) + 1 /\ j \in 1 .. Len(Received(k)) + 1
      BY <1>10, <2>3
    <3>2. CASE i = Len(Received(k)) + 1
      <4>1. Received(q)'[i] = s /\ Received(q)'[j] \in Signal
        BY <1>10, <2>3, <3>1, <3>2, ElementOfSeq
      <4>2. s \in returned /\ origin[s] = n
        BY <1>7, <2>3, <4>1 DEF Sent, BeforeAnswered
      <4> QED
        BY <4>2 DEF Sent, RelayedOnce
    <3>3. CASE i # Len(Received(k)) + 1 /\ j = Len(Received(k)) + 1
      BY <1>10, <3>1, <3>3
    <3>4. CASE i # Len(Received(k)) + 1 /\ j # Len(Received(k)) + 1
      <4>1. /\ i \in 1 .. Len(Received(k)) /\ j \in 1 .. Len(Received(k))
            /\ Received(q)'[i] = Received(k)[i] /\ Received(q)'[j] = Received(k)[j]
        BY <1>10, <2>3, <3>1, <3>4
      <4> QED
        BY <2>3, <4>1, SMTT(30) DEF Sent, LocalOrder
    <3> QED
      BY <3>2, <3>3, <3>4
  <2> QED
    BY <1>8, <2>2, <2>3
<1> QED
  BY <1>6, <1>11, <1>12, <1>14, <1>15, <1>16 DEF Sent

LEMMA SendKeeps ==
    ASSUME TypeOK, Sent, NEW s \in Signal, NEW n \in Node, Send(s, n)
    PROVE  TypeOK' /\ Sent'
<1> DEFINE k == Head(todo[s][n])
<1>1. /\ task[s][n] = "sending" /\ todo[s][n] # <<>>
      /\ UNCHANGED <<request, stream, subs, written, returned, before>>
  BY DEF Send
<1>2. k \in Stream
  BY <1>1, HeadTailProperties DEF TypeOK
<1>3. CASE SetTask(s, n, "panicked") /\ UNCHANGED <<buffer, todo>>
  BY <1>1, <1>3, TaskEndsKeeps
<1>4. CASE /\ Len(buffer[k]) < Buffer
           /\ buffer' = [buffer EXCEPT ![k] = Append(buffer[k], s)]
           /\ todo' = [todo EXCEPT ![s][n] = Tail(todo[s][n])]
           /\ UNCHANGED task
  BY <1>1, <1>2, <1>4, SendGoesOn
<1>5. CASE todo' = [todo EXCEPT ![s][n] = Tail(todo[s][n])] /\ UNCHANGED <<buffer, task>>
  BY <1>1, <1>2, <1>5, SendGoesOn
<1> QED
  BY <1>3, <1>4, <1>5 DEF Send

LEMMA RelayKeeps ==
    ASSUME TypeOK, Sent, NEW s \in Signal, Relay(s)
    PROVE  TypeOK' /\ Sent'
<1> DEFINE o == origin[s]
<1>1. /\ task[s][o] = "relay" /\ returned' = returned \cup {s} /\ o \in Node
      /\ task \in [Signal -> [Node -> Task]]
      /\ UNCHANGED <<request, stream, subs, buffer, written, todo, before>>
  BY DEF Relay, TypeOK
<1>2. PICK reached \in SUBSET (Node \ {o}) :
         task' = [task EXCEPT ![s] = [n \in Node |->
                    CASE n = o -> "done"
                      [] n \in reached -> "ready"
                      [] OTHER -> task[s][n]]]
  BY DEF Relay
<1>3. /\ task' \in [Signal -> [Node -> Task]] /\ task'[s][o] = "done"
      /\ \A n \in Node : n # o => task'[s][n] \in {"ready", task[s][n]}
      /\ \A q \in Signal : q # s => task'[q] = task[q]
  <2> DEFINE row == [n \in Node |-> CASE n = o -> "done"
                                      [] n \in reached -> "ready"
                                      [] OTHER -> task[s][n]]
  <2>1. /\ row \in [Node -> Task] /\ row[o] = "done"
        /\ \A n \in Node : n # o => row[n] \in {"ready", task[s][n]}
    BY <1>1 DEF Task
  <2>2. task' = [task EXCEPT ![s] = row]
    BY <1>2
  <2> HIDE DEF row
  <2> QED
    BY <1>1, <2>1, <2>2
<1>4. TypeOK'
  BY <1>1, <1>3 DEF TypeOK, request
<1>5. \A n \in Node : n # o => task[s][n] = "none"
  BY <1>1 DEF Sent, RelayedOnce
<1>6. \A k \in Stream : Received(k)' = Received(k) /\ Received(k) \in Seq(Signal)
  BY <1>1, ReceivedTyped DEF Received
<1>7. Copied'
  <2>1. \A q \in Signal, n \in Node : task'[q][n] \in {"sending", "panicked"} => task'[q][n] = task[q][n]
    BY <1>1, <1>3
  <2> QED
    BY <1>1, <2>1 DEF Sent, Copied, request
<1>8. RelayedOnce' /\ BeforeAnswered'
  BY <1>1, <1>3 DEF Sent, RelayedOnce, BeforeAnswered, request, TypeOK
<1>9. SentOnce'
  <2> SUFFICES ASSUME NEW k \in Stream, NEW i \in Nat, i \in DOMAIN Received(k)
               PROVE  /\ task'[Received(k)[i]][node[k]] \notin {"none", "ready"}
                      /\ \A j \in DOMAIN todo[Received(k)[i]][node[k]] :
                            todo[Received(k)[i]][node[k]][j] # k
    <3>1. UNCHANGED <<todo, node>>
      BY <1>1 DEF request
    <3> QED
      BY <1>6, <3>1 DEF SentOnce
  <2>1. /\ Received(k)[i] \in Signal /\ node[k] \in Node
        /\ task[Received(k)[i]][node[k]] \notin {"none", "ready"}
        /\ \A j \in DOMAIN todo[Received(k)[i]][node[k]] :
              todo[Received(k)[i]][node[k]][j] # k
    BY <1>6, ElementOfSeq, LenProperties DEF TypeOK, Sent, SentOnce
  <2> QED
    BY <1>3, <1>5, <2>1
<1>10. AtMostOnce' /\ LocalOrder'
  BY <1>1, <1>6 DEF Sent, AtMostOnce, LocalOrder, request
<1> QED
  BY <1>4, <1>7, <1>8, <1>9, <1>10 DEF Sent

-----------------------------------------------------------------------------
(* Every step.                                                              *)

LEMMA StepIInv == IInv /\ [Next]_vars => IInv'
<1> SUFFICES ASSUME TypeOK, Lists, Sent, [Next]_vars
             PROVE  TypeOK' /\ Lists' /\ Sent'
  BY DEF IInv, Lists, Sent
<1>1. ASSUME NEW k \in Stream, Subscribe(k) \/ Unsubscribe(k) \/ CloseChannel(k)
      PROVE  TypeOK' /\ Lists' /\ Sent'
  <2>1. TypeOK' /\ Lists'
    BY <1>1, SubscribeKeeps, UnsubscribeKeeps, CloseChannelKeeps
  <2>2. UNCHANGED <<request, buffer, written, task, todo, returned, before>>
    BY <1>1 DEF Subscribe, Unsubscribe, CloseChannel
  <2> QED
    BY <2>1, <2>2, SentApart
<1>2. ASSUME NEW k \in Stream, Write(k)
      PROVE  TypeOK' /\ Lists' /\ Sent'
  <2>1. UNCHANGED <<request, stream, subs>>
    BY <1>2 DEF Write
  <2> QED
    BY <1>2, <2>1, WriteKeeps, ListsApart
<1>3. ASSUME NEW s \in Signal, NEW n \in Node, Publish(s, n)
      PROVE  TypeOK' /\ Lists' /\ Sent'
  <2>1. Lists'
    <3>1. UNCHANGED <<request, stream, subs>>
      BY <1>3 DEF Publish, Snapshot, Send, Finish
    <3> QED
      BY <3>1, ListsApart
  <2>2. CASE Snapshot(s, n)
    BY <2>1, <2>2, SnapshotKeeps
  <2>3. CASE Send(s, n)
    BY <2>1, <2>3, SendKeeps
  <2>4. CASE Finish(s, n)
    <3>1. /\ task[s][n] = "sending"
          /\ SetTask(s, n, IF n = origin[s] THEN "relay" ELSE "done")
          /\ UNCHANGED <<request, stream, subs, buffer, written, todo, returned, before>>
      BY <2>4 DEF Finish
    <3>2. TypeOK' /\ Sent'
      BY <3>1, TaskEndsKeeps
    <3> QED
      BY <2>1, <3>2
  <2> QED
    BY <1>3, <2>2, <2>3, <2>4 DEF Publish
<1>4. ASSUME NEW s \in Signal, Relay(s)
      PROVE  TypeOK' /\ Lists' /\ Sent'
  <2>1. UNCHANGED <<request, stream, subs>>
    BY <1>4 DEF Relay
  <2> QED
    BY <1>4, <2>1, RelayKeeps, ListsApart
<1>5. CASE UNCHANGED vars
  <2>1. Sent' /\ Lists'
    BY <1>5, SentApart, ListsApart DEF vars, request
  <2>2. TypeOK'
    BY <1>5 DEF vars, TypeOK
  <2> QED
    BY <2>1, <2>2
<1> QED
  BY <1>1, <1>2, <1>3, <1>4, <1>5 DEF Next

LEMMA Invariance == Spec => []IInv
BY InitIInv, StepIInv, PTL DEF Spec

\* The states of streams, requests, lists and channels (signal_broker.go and
\* signal_handlers.go).
THEOREM BrokerTypeCorrect == Spec => []TypeOK
<1>1. IInv => TypeOK
  BY DEF IInv
<1> QED
  BY <1>1, Invariance, PTL

\* No stream gets a signal twice, nor its channel more than it can hold, although
\* a signal is published on every node (publish, signal_broker.go 38-51).
THEOREM DeliveredOnce == Spec => []AtMostOnce
<1>1. IInv => AtMostOnce
  BY DEF IInv
<1> QED
  BY <1>1, Invariance, PTL

\* Requests that follow each other on a node are delivered in that order there
\* (mesh.js 74 relies on it).
THEOREM OrderKept == Spec => []LocalOrder
<1>1. IInv => LocalOrder
  BY DEF IInv
<1> QED
  BY <1>1, Invariance, PTL

\* Exactly the open channels are on the lists, so that a publish request can only
\* meet a closed one in a copy it made before (unsubscribe, signal_broker.go 24-35).
THEOREM ListsAreOpen == Spec => []ClosedIsUnlisted
<1>1. ASSUME TypeOK, Listed, OpenListed
      PROVE  ClosedIsUnlisted
  <2> SUFFICES ASSUME NEW k \in Stream
               PROVE  (\E i \in DOMAIN subs[node[k]][topic[k]] : subs[node[k]][topic[k]][i] = k)
                         <=> stream[k] = "open"
    BY DEF ClosedIsUnlisted, ToSet
  <2>1. node[k] \in Node /\ topic[k] \in Topic
    BY <1>1 DEF TypeOK
  <2> QED
    BY <1>1, <2>1 DEF Listed, OpenListed
<1>2. IInv => ClosedIsUnlisted
  BY <1>1 DEF IInv
<1> QED
  BY <1>2, Invariance, PTL
===============================================================================
