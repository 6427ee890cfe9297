--------------------------- MODULE LogFollowProofs ---------------------------
(* Proofs about LogFollow: for any clients, any bounds of the history, the
   channel and the sockets, and any output, what a terminal prints is gapless or
   says what is missing, and it is told the end of its run behind all of it. *)
EXTENDS LogFollow, SequenceTheorems, WellFoundedInduction, TLAPS

(* Induction, by the least number outside of a set. *)

LEMMA NatInduct ==
  ASSUME NEW X, 0 \in X, \A n \in Nat : n \in X => n + 1 \in X
  PROVE  Nat \subseteq X
<1>. DEFINE T == {n \in Nat : n \notin X}
<1>. SUFFICES ASSUME T # {} PROVE FALSE
  OBVIOUS
<1>1. PICK m \in T : \A k \in T : ~ (<<k, m>> \in OpToRel(<, Nat))
  <2>1. T \subseteq Nat
    OBVIOUS
  <2>. HIDE DEF T
  <2>. QED
    BY <2>1, NatLessThanWellFounded, WFMin, Zenon
<1>2. m # 0 /\ m - 1 \in Nat /\ (m - 1) + 1 = m
  OBVIOUS
<1>3. m - 1 \in T
  BY <1>2
<1>4. <<m - 1, m>> \in OpToRel(<, Nat)
  BY <1>2 DEF OpToRel
<1>. QED
  BY <1>1, <1>3, <1>4

-----------------------------------------------------------------------------
(* What a sequence of messages accounts for. *)

\* The sums over the first messages, as Accounted has them.
Sums(g, messages, k) ==
  g = [i \in 0..k |-> IF i = 0 THEN 0 ELSE g[i - 1] + Count(messages[i])]

LEMMA AccountedIs ==
  ASSUME NEW messages, NEW k
  PROVE  Accounted(messages, k) = (CHOOSE g : Sums(g, messages, k))[k]
BY DEF Accounted, Sums

LEMMA SumsExist ==
  ASSUME NEW messages, NEW k \in Nat
  PROVE  \E g : Sums(g, messages, k)
<1>. DEFINE X == {n \in Nat : \E g : Sums(g, messages, n)}
<1>1. 0 \in X
  <2>. DEFINE g == [i \in 0..0 |-> 0]
  <2>1. Sums(g, messages, 0)
    BY DEF Sums
  <2>. QED
    BY <2>1
<1>2. ASSUME NEW n \in Nat, n \in X PROVE n + 1 \in X
  <2>1. PICK g : Sums(g, messages, n)
    BY <1>2
  <2>. DEFINE h == [i \in 0..(n + 1) |->
                      IF i = n + 1 THEN g[n] + Count(messages[n + 1]) ELSE g[i]]
  <2>2. ASSUME NEW i \in 0..(n + 1)
        PROVE  h[i] = IF i = 0 THEN 0 ELSE h[i - 1] + Count(messages[i])
    <3>1. CASE i = n + 1
      BY <3>1
    <3>2. CASE i # n + 1
      BY <2>1, <3>2 DEF Sums
    <3>. QED
      BY <3>1, <3>2
  <2>3. Sums(h, messages, n + 1)
    BY <2>2 DEF Sums
  <2>. QED
    BY <2>3
<1>. HIDE DEF X
<1>3. k \in X
  BY <1>1, <1>2, NatInduct
<1>. QED
  BY <1>3 DEF X

Agree(m, n, k) == \A i \in 1..k : m[i] = n[i]

\* Sums of messages that agree, agree.
LEMMA SumsAgree ==
  ASSUME NEW m, NEW n, NEW k \in Nat, NEW l \in Nat, k <= l, Agree(m, n, k),
         NEW g, NEW h, Sums(g, m, k), Sums(h, n, l)
  PROVE  g[k] = h[k]
<1>. DEFINE X == {i \in Nat : i <= k => g[i] = h[i]}
<1>1. 0 \in X
  BY DEF Sums
<1>2. ASSUME NEW i \in Nat, i \in X PROVE i + 1 \in X
  <2>. SUFFICES ASSUME i + 1 <= k PROVE g[i + 1] = h[i + 1]
    OBVIOUS
  <2>1. g[i + 1] = g[i] + Count(m[i + 1]) /\ h[i + 1] = h[i] + Count(n[i + 1])
    BY DEF Sums
  <2>2. m[i + 1] = n[i + 1]
    BY DEF Agree
  <2>. QED
    BY <1>2, <2>1, <2>2
<1>. HIDE DEF X
<1>3. k \in X
  BY <1>1, <1>2, NatInduct
<1>. QED
  BY <1>3 DEF X

\* The first k messages decide what they account for.
LEMMA AccountedAgrees ==
  ASSUME NEW m, NEW n, NEW k \in Nat, \A i \in 1..k : m[i] = n[i]
  PROVE  Accounted(m, k) = Accounted(n, k)
<1>. DEFINE g == CHOOSE g : Sums(g, m, k)
            h == CHOOSE h : Sums(h, n, k)
<1>1. Sums(g, m, k) /\ Sums(h, n, k)
  BY SumsExist
<1>. HIDE DEF g, h
<1>2. g[k] = h[k]
  BY <1>1, SumsAgree DEF Agree
<1>. QED
  BY <1>2, AccountedIs DEF g, h

\* Accounted satisfies its equation.
LEMMA AccountedStep ==
  ASSUME NEW m, NEW k \in Nat
  PROVE  /\ Accounted(m, 0) = 0
         /\ Accounted(m, k + 1) = Accounted(m, k) + Count(m[k + 1])
<1>. DEFINE z == CHOOSE g : Sums(g, m, 0)
            g == CHOOSE g : Sums(g, m, k)
            h == CHOOSE h : Sums(h, m, k + 1)
<1>1. Sums(g, m, k) /\ Sums(h, m, k + 1) /\ Sums(z, m, 0)
  BY SumsExist
<1>. HIDE DEF z, g, h
<1>2. g[k] = h[k]
  <2>1. PICK l \in Nat : l = k + 1
    OBVIOUS
  <2>2. Sums(h, m, l) /\ k <= l /\ Agree(m, m, k)
    BY <1>1, <2>1 DEF Agree
  <2>. QED
    BY <1>1, <2>2, SumsAgree
<1>3. h[k + 1] = h[k] + Count(m[k + 1]) /\ z[0] = 0
  BY <1>1 DEF Sums
<1>. QED
  BY <1>2, <1>3, AccountedIs DEF z, g, h

LEMMA AccountedNat ==
  ASSUME NEW m \in Seq(Messages), NEW k \in 0..Len(m)
  PROVE  Accounted(m, k) \in Nat
<1>. DEFINE X == {i \in Nat : i <= Len(m) => Accounted(m, i) \in Nat}
<1>1. 0 \in X
  BY AccountedStep
<1>2. ASSUME NEW i \in Nat, i \in X PROVE i + 1 \in X
  <2>. SUFFICES ASSUME i + 1 <= Len(m) PROVE Accounted(m, i + 1) \in Nat
    OBVIOUS
  <2>1. m[i + 1] \in Messages
    BY ElementOfSeq, LenProperties
  <2>2. Count(m[i + 1]) \in Nat
    BY <2>1 DEF Count, Messages
  <2>3. Accounted(m, i) \in Nat
    BY <1>2, LenProperties
  <2>4. Accounted(m, i + 1) = Accounted(m, i) + Count(m[i + 1])
    BY AccountedStep
  <2>. QED
    BY <2>2, <2>3, <2>4
<1>. HIDE DEF X
<1>3. k \in Nat /\ k <= Len(m)
  BY LenProperties
<1>4. k \in X
  BY <1>1, <1>2, <1>3, NatInduct
<1>. QED
  BY <1>3, <1>4 DEF X
-----------------------------------------------------------------------------
(* Reach and InPlace of a sequence that grows, and of its prefixes. *)

LEMMA ReachNat ==
  ASSUME NEW m \in Seq(Messages), NEW first \in Nat
  PROVE  Reach(m, first) \in Nat
<1>1. Len(m) \in 0..Len(m)
  BY LenProperties
<1>2. Accounted(m, Len(m)) \in Nat
  BY <1>1, AccountedNat
<1>. QED
  BY <1>2 DEF Reach

LEMMA ReachEmpty ==
  ASSUME NEW first \in Nat
  PROVE  Reach(<<>>, first) = first /\ InPlace(<<>>, first)
<1>1. Len(<<>>) = 0
  BY EmptySeq
<1>2. Accounted(<<>>, 0) = 0
  BY AccountedStep
<1>. QED
  BY <1>1, <1>2 DEF Reach, InPlace

\* Behind what was sent the next message is sent: a line has its place there if
\* it is the one that is due.
LEMMA SendNext ==
  ASSUME NEW s \in Seq(Messages), NEW m \in Messages, NEW first \in Nat, InPlace(s, first),
         m.kind = "Line" => m.n = Reach(s, first)
  PROVE  /\ InPlace(Append(s, m), first)
         /\ Reach(Append(s, m), first) = Reach(s, first) + Count(m)
<1>. DEFINE t == Append(s, m)
<1>1. /\ Len(s) \in Nat /\ Len(t) = Len(s) + 1 /\ t[Len(s) + 1] = m
      /\ \A i \in 1..Len(s) : t[i] = s[i]
  BY AppendProperties, LenProperties
<1>. HIDE DEF t
<1>2. \A k \in 0..Len(s) : Accounted(t, k) = Accounted(s, k)
  <2>. SUFFICES ASSUME NEW k \in 0..Len(s) PROVE Accounted(t, k) = Accounted(s, k)
    OBVIOUS
  <2>1. k \in Nat /\ \A i \in 1..k : t[i] = s[i]
    BY <1>1
  <2>. QED
    BY <2>1, AccountedAgrees
<1>3. Accounted(t, Len(s) + 1) = Accounted(s, Len(s)) + Count(m)
  <2>1. Accounted(t, Len(s) + 1) = Accounted(t, Len(s)) + Count(t[Len(s) + 1])
    BY <1>1, AccountedStep
  <2>. QED
    BY <1>1, <1>2, <2>1
<1>4. Accounted(s, Len(s)) \in Nat /\ Count(m) \in Nat
  BY <1>1, AccountedNat DEF Count, Messages
<1>5. Reach(t, first) = Reach(s, first) + Count(m)
  BY <1>1, <1>3, <1>4 DEF Reach
<1>6. ASSUME NEW i \in 1..Len(t), t[i].kind = "Line"
      PROVE  t[i].n = first + Accounted(t, i - 1)
  <2>1. CASE i = Len(s) + 1
    BY <1>1, <1>2, <1>6, <2>1 DEF Reach
  <2>2. CASE i # Len(s) + 1
    <3>1. i \in 1..Len(s) /\ i - 1 \in 0..Len(s)
      BY <1>1, <2>2
    <3>. QED
      BY <1>1, <1>2, <1>6, <3>1 DEF InPlace
  <2>. QED
    BY <2>1, <2>2
<1>. QED
  BY <1>5, <1>6 DEF t, InPlace

\* A prefix of what is in place is in place.
LEMMA PrefixInPlace ==
  ASSUME NEW s \in Seq(Messages), NEW t \in Seq(Messages), NEW first, InPlace(s \o t, first)
  PROVE  InPlace(s, first)
<1>1. /\ Len(s) \in Nat /\ Len(t) \in Nat /\ Len(s \o t) = Len(s) + Len(t)
      /\ \A i \in 1..Len(s) : (s \o t)[i] = s[i]
  BY ConcatProperties, LenProperties
<1>2. ASSUME NEW i \in 1..Len(s), s[i].kind = "Line"
      PROVE  s[i].n = first + Accounted(s, i - 1)
  <2>1. i - 1 \in Nat /\ \A j \in 1..(i - 1) : (s \o t)[j] = s[j]
    BY <1>1
  <2>2. Accounted(s \o t, i - 1) = Accounted(s, i - 1)
    BY <2>1, AccountedAgrees
  <2>3. i \in 1..Len(s \o t) /\ (s \o t)[i] = s[i]
    BY <1>1
  <2>. QED
    BY <1>2, <2>2, <2>3 DEF InPlace
<1>. QED
  BY <1>2 DEF InPlace

-----------------------------------------------------------------------------
(* What a step makes of the messages of a session. *)

LEMMA SentIsSeq ==
  ASSUME TypeOK, NEW c \in Clients
  PROVE  /\ printed[c] \in Seq(Messages) /\ wire[c] \in Seq(Messages)
         /\ held[c] # Nothing => held[c] \in Messages
         /\ wire[c] \o <<>> = wire[c]
         /\ held[c] # Nothing => wire[c] \o <<held[c]>> \in Seq(Messages)
         /\ Sent(c) \in Seq(Messages)
<1>1. /\ printed[c] \in Seq(Messages) /\ wire[c] \in Seq(Messages)
      /\ held[c] # Nothing => held[c] \in Messages
  BY DEF TypeOK
<1>2. wire[c] \o <<>> = wire[c]
  BY <1>1, ConcatEmptySeq
<1>3. ASSUME held[c] # Nothing PROVE wire[c] \o <<held[c]>> \in Seq(Messages)
  BY <1>1, <1>3, ConcatProperties
<1>4. Sent(c) \in Seq(Messages)
  BY <1>1, <1>2, <1>3, ConcatProperties DEF Sent
<1>. QED
  BY <1>1, <1>2, <1>3, <1>4

\* Concatenations of what was read, what the socket holds and what is being sent.
LEMMA Behind ==
  ASSUME NEW p \in Seq(Messages), NEW w \in Seq(Messages), NEW m \in Messages
  PROVE  p \o (w \o <<m>>) = Append(p \o w, m)
<1>1. <<m>> \in Seq(Messages) /\ p \o w \in Seq(Messages)
  BY ConcatProperties
<1>2. p \o (w \o <<m>>) = (p \o w) \o <<m>>
  BY <1>1, ConcatAssociative
<1>3. (p \o w) \o <<m>> = Append(p \o w, m)
  BY <1>1, AppendIsConcat
<1>. QED
  BY <1>2, <1>3

LEMMA HeadMoves ==
  ASSUME NEW p \in Seq(Messages), NEW w \in Seq(Messages), NEW h \in Seq(Messages), w # <<>>
  PROVE  /\ Append(p, Head(w)) \o (Tail(w) \o h) = p \o (w \o h)
         /\ (p \o (w \o h))[Len(p) + 1] = Head(w)
         /\ Len(p \o (w \o h)) = Len(p) + Len(w) + Len(h)
         /\ Len(w) \in Nat \ {0} /\ Len(p) \in Nat /\ Len(h) \in Nat
         /\ Len(w) = 1 /\ h = <<>> => Append(p, Head(w)) = p \o (w \o h)
<1>. DEFINE m == Head(w)
            r == Tail(w)
<1>1. m \in Messages /\ r \in Seq(Messages) /\ w = <<m>> \o r /\ m = w[1]
  BY HeadTailProperties, ElementOfSeq
<1>2. Len(r) = Len(w) - 1 /\ Len(w) \in Nat \ {0} /\ Len(p) \in Nat /\ Len(h) \in Nat
  BY HeadTailProperties, LenProperties, EmptySeq
<1>. HIDE DEF m, r
<1>3. <<m>> \in Seq(Messages) /\ w \o h \in Seq(Messages) /\ r \o h \in Seq(Messages)
  BY <1>1, ConcatProperties
<1>4. Append(p, m) = p \o <<m>>
  BY <1>1, AppendIsConcat
<1>5. Append(p, m) \o (r \o h) = p \o (w \o h)
  <2>1. (p \o <<m>>) \o (r \o h) = p \o (<<m>> \o (r \o h))
    BY <1>3, ConcatAssociative
  <2>2. (<<m>> \o r) \o h = <<m>> \o (r \o h)
    BY <1>1, <1>3, ConcatAssociative
  <2>. QED
    BY <1>1, <1>4, <2>1, <2>2
<1>6. Len(w \o h) = Len(w) + Len(h) /\ (w \o h)[1] = m
  BY <1>1, <1>2, ConcatProperties
<1>7. Len(p \o (w \o h)) = Len(p) + Len(w) + Len(h)
  BY <1>2, <1>3, <1>6, ConcatProperties
<1>8. (p \o (w \o h))[Len(p) + 1] = m
  <2>1. Len(p) + 1 \in (Len(p) + 1)..(Len(p) + Len(w \o h)) /\ (Len(p) + 1) - Len(p) = 1
    BY <1>2, <1>6
  <2>. QED
    BY <1>3, <1>6, <2>1, ConcatProperties
<1>9. ASSUME Len(w) = 1, h = <<>> PROVE Append(p, m) = p \o (w \o h)
  <2>1. Len(r) = 0
    BY <1>2, <1>9
  <2>2. r = <<>>
    BY <1>1, <2>1, EmptySeq
  <2>3. w = <<m>> /\ w \o <<>> = w
    BY <1>1, <1>3, <2>2, ConcatEmptySeq
  <2>. QED
    BY <1>4, <1>9, <2>3
<1>. QED
  BY <1>2, <1>5, <1>7, <1>8, <1>9 DEF m, r

\* A message that is sent goes behind all that was sent before.
LEMMA SendingAppends ==
  ASSUME TypeOK, NEW c \in Clients, NEW kind, NEW n, Message(kind, n) \in Messages,
         held[c] = Nothing, Sending(c, kind, n), UNCHANGED <<wire, rxd, printed>>
  PROVE  Sent(c)' = IF rxd[c] = "following" THEN Append(Sent(c), Message(kind, n)) ELSE Sent(c)
<1>. DEFINE m == Message(kind, n)
<1>1. held'[c] = m /\ m # Nothing
  BY DEF TypeOK, Sending, Messages, Nothing, Message
<1>2. CASE rxd[c] # "following"
  BY <1>2 DEF Sent
<1>3. CASE rxd[c] = "following"
  <2>1. Sent(c) = printed[c] \o wire[c]
    BY <1>3, SentIsSeq DEF Sent
  <2>2. Sent(c)' = printed[c] \o (wire[c] \o <<m>>)
    BY <1>1, <1>3 DEF Sent
  <2>3. Sent(c)' = Append(printed[c] \o wire[c], m)
    BY <2>2, SentIsSeq, Behind
  <2>. QED
    BY <1>3, <2>1, <2>3
<1>. QED
  BY <1>2, <1>3

\* What is delivered or read stays where it was among the messages.
LEMMA DeliverKeepsSent ==
  ASSUME TypeOK, NEW c \in Clients, Deliver(c)
  PROVE  Sent(c)' = Sent(c)
<1>1. /\ rxd[c] = "following" /\ held[c] # Nothing /\ rxd' = rxd /\ printed' = printed
      /\ wire'[c] = Append(wire[c], held[c]) /\ held'[c] = Nothing
  BY DEF Deliver, TypeOK, clientVars
<1>2. wire[c] \in Seq(Messages) /\ held[c] \in Messages
  BY <1>1, SentIsSeq
<1>3. wire'[c] = wire[c] \o <<held[c]>> /\ wire'[c] \in Seq(Messages)
  BY <1>1, <1>2, AppendIsConcat, AppendProperties
<1>4. wire'[c] \o <<>> = wire'[c]
  BY <1>3, ConcatEmptySeq
<1>. QED
  BY <1>1, <1>3, <1>4 DEF Sent

LEMMA ReadMoves ==
  ASSUME TypeOK, NEW c \in Clients, rxd[c] = "following", wire[c] # <<>>,
         printed'[c] = Append(printed[c], Head(wire[c])), wire'[c] = Tail(wire[c]), held' = held
  PROVE  /\ rxd'[c] = "following" => Sent(c)' = Sent(c)
         /\ held[c] = Nothing /\ Len(wire[c]) = 1 => printed'[c] = Sent(c)
         /\ Sent(c)[Len(printed[c]) + 1] = Head(wire[c])
         /\ Len(Sent(c)) = Len(printed[c]) + Len(wire[c]) + (IF held[c] = Nothing THEN 0 ELSE 1)
         /\ Len(wire[c]) \in Nat \ {0} /\ Len(printed[c]) \in Nat
<1>. DEFINE p == printed[c]
            w == wire[c]
            h == IF held[c] = Nothing THEN <<>> ELSE <<held[c]>>
            m == Head(w)
<1>1. p \in Seq(Messages) /\ w \in Seq(Messages) /\ h \in Seq(Messages) /\ w # <<>>
  BY SentIsSeq
<1>2. Sent(c) = p \o (w \o h) /\ (rxd'[c] = "following" => Sent(c)' = Append(p, m) \o (Tail(w) \o h))
  BY DEF Sent
<1>3. Len(h) = (IF held[c] = Nothing THEN 0 ELSE 1) /\ (held[c] = Nothing => h = <<>>)
  OBVIOUS
<1>. HIDE DEF p, w, h
<1>4. /\ Append(p, Head(w)) \o (Tail(w) \o h) = p \o (w \o h)
      /\ (p \o (w \o h))[Len(p) + 1] = Head(w)
      /\ Len(p \o (w \o h)) = Len(p) + Len(w) + Len(h)
      /\ Len(w) \in Nat \ {0} /\ Len(p) \in Nat
      /\ Len(w) = 1 /\ h = <<>> => Append(p, Head(w)) = p \o (w \o h)
  <2>1. Append(p, Head(w)) \o (Tail(w) \o h) = p \o (w \o h)
    BY <1>1, HeadMoves
  <2>2. (p \o (w \o h))[Len(p) + 1] = Head(w)
    BY <1>1, HeadMoves
  <2>3. Len(p \o (w \o h)) = Len(p) + Len(w) + Len(h)
    BY <1>1, HeadMoves
  <2>4. Len(w) \in Nat \ {0} /\ Len(p) \in Nat
    BY <1>1, HeadMoves
  <2>5. Len(w) = 1 /\ h = <<>> => Append(p, Head(w)) = p \o (w \o h)
    BY <1>1, HeadMoves
  <2>. QED
    BY <2>1, <2>2, <2>3, <2>4, <2>5
<1>5. printed'[c] = Append(p, Head(w))
  BY DEF p, w
<1>. QED
  BY <1>2, <1>3, <1>4, <1>5 DEF p, w

-----------------------------------------------------------------------------
(* Types.                                                                  *)

LEMMA TypeInit == Init => TypeOK
<1>. SUFFICES ASSUME Init PROVE TypeOK
  OBVIOUS
<1>1. /\ replay \in [Clients -> Seq(Nat)]
      /\ wire \in [Clients -> Seq(Messages)] /\ printed \in [Clients -> Seq(Messages)]
  BY DEF Init
<1>2. held \in [Clients -> Messages \cup {Nothing}]
  BY DEF Init
<1>3. /\ pushed \in 0..Output /\ oldest \in 1..(pushed + 1) /\ mark \in 0..Output
      /\ run = "opening" /\ outcome = "none"
  BY BoundsAssumption DEF Init
<1>4. /\ pc \in [Clients -> {"none", "asked", "answered", "started", "replaying", "live",
                            "draining", "over"}]
      /\ rxd \in [Clients -> {"away", "following"} \cup Exits]
      /\ cursor \in [Clients -> Nat] /\ from \in [Clients -> Nat]
  BY DEF Init
<1>5. gone \in BOOLEAN
  BY DEF Init
<1>. QED
  BY <1>1, <1>2, <1>3, <1>4, <1>5 DEF TypeOK

LEMMA SendingTyped ==
  ASSUME TypeOK, NEW c \in Clients, NEW kind \in {"Started", "NoRun", "Line", "Skipped", "Ended"},
         NEW n \in Nat, Sending(c, kind, n)
  PROVE  Message(kind, n) \in Messages /\ held' \in [Clients -> Messages \cup {Nothing}]
<1>1. Message(kind, n) \in Messages
  BY DEF Message, Messages
<1>. QED
  BY <1>1 DEF TypeOK, Sending

LEMMA TypeHandler ==
  ASSUME TypeOK, NEW c \in Clients, Handler(c)
  PROVE  TypeOK'
<1>. USE DEF TypeOK, runVars, handlerVars, clientVars, Ready, Goto
<1>1. CASE Answer(c)
  BY <1>1, SendingTyped DEF Answer
<1>2. CASE Attach(c)
  BY <1>2, SendingTyped DEF Attach
<1>3. CASE Subscribe(c)
  <2>1. [i \in 1..(pushed - oldest + 1) |-> oldest + i - 1] \in Seq(Nat)
    <3>1. pushed - oldest + 1 \in Nat
      BY BoundsAssumption
    <3>2. \A i \in 1..(pushed - oldest + 1) : oldest + i - 1 \in Nat
      BY BoundsAssumption
    <3>. QED
      BY <3>1, <3>2, IsASeq
  <2>. QED
    BY <1>3, <2>1, BoundsAssumption DEF Subscribe
<1>4. CASE Replay(c)
  <2>1. CASE replay[c] = <<>>
    BY <1>4, <2>1 DEF Replay
  <2>2. CASE replay[c] # <<>>
    <3>1. replay[c] \in Seq(Nat)
      OBVIOUS
    <3>2. Head(replay[c]) \in Nat /\ Tail(replay[c]) \in Seq(Nat)
      BY <2>2, <3>1, HeadTailProperties
    <3>3. held' \in [Clients -> Messages \cup {Nothing}]
      BY <1>4, <2>2, <3>2, SendingTyped DEF Replay
    <3>. QED
      BY <1>4, <2>2, <3>2, <3>3 DEF Replay
  <2>. QED
    BY <2>1, <2>2
<1>5. CASE Recv(c)
  <2>1. CASE cursor[c] > Overwritten
    <3>1. held' \in [Clients -> Messages \cup {Nothing}]
      BY <1>5, <2>1, SendingTyped DEF Recv
    <3>2. cursor' = [cursor EXCEPT ![c] = cursor[c] + 1] /\ cursor[c] + 1 \in Nat
      BY <1>5, <2>1 DEF Recv
    <3>3. cursor' \in [Clients -> Nat]
      BY <3>2
    <3>. QED
      BY <1>5, <3>1, <3>3 DEF Recv
  <2>2. CASE ~ (cursor[c] > Overwritten)
    <3>1. Overwritten + 1 - cursor[c] \in Nat /\ Overwritten + 1 \in Nat
      BY <2>2, BoundsAssumption DEF Overwritten
    <3>2. held' \in [Clients -> Messages \cup {Nothing}]
      BY <1>5, <2>2, <3>1, SendingTyped DEF Recv
    <3>3. cursor' = [cursor EXCEPT ![c] = Overwritten + 1]
      BY <1>5, <2>2 DEF Recv
    <3>4. cursor' \in [Clients -> Nat]
      BY <3>1, <3>3
    <3>. QED
      BY <1>5, <3>2, <3>4 DEF Recv
  <2>. QED
    BY <2>1, <2>2
<1>6. CASE SeesEnd(c)
  BY <1>6 DEF SeesEnd
<1>7. CASE TellEnd(c)
  BY <1>7, SendingTyped DEF TellEnd
<1>8. CASE Deliver(c)
  <2>1. Append(wire[c], held[c]) \in Seq(Messages)
    BY <1>8, AppendProperties DEF Deliver
  <2>. QED
    BY <1>8, <2>1 DEF Deliver
<1>9. CASE DeliveryFails(c)
  BY <1>9 DEF DeliveryFails
<1>. QED
  BY <1>1, <1>2, <1>3, <1>4, <1>5, <1>6, <1>7, <1>8, <1>9 DEF Handler

LEMMA TypeStep == TypeOK /\ [Next]_vars => TypeOK'
<1>. SUFFICES ASSUME TypeOK, [Next]_vars PROVE TypeOK'
  OBVIOUS
<1>1. ASSUME NEW c \in Clients, Handler(c) PROVE TypeOK'
  BY <1>1, TypeHandler
<1>. USE DEF TypeOK, runVars, handlerVars, clientVars, Goto, Exit, Exits
<1>2. CASE Begin
  BY <1>2 DEF Begin
<1>3. CASE Push
  <2>1. oldest' \in oldest..pushed' /\ pushed' = pushed + 1 /\ pushed < Output
    BY <1>3 DEF Push
  <2>2. oldest' \in 1..(pushed' + 1) /\ pushed' \in 0..Output
    BY <2>1, BoundsAssumption
  <2>. QED
    BY <1>3, <2>2 DEF Push
<1>4. CASE Finish
  BY <1>4 DEF Finish
<1>5. CASE Withdraw
  BY <1>5 DEF Withdraw
<1>6. CASE ProcessEnds
  BY <1>6 DEF ProcessEnds
<1>7. ASSUME NEW c \in Clients, Read(c) PROVE TypeOK'
  <2>1. /\ wire[c] \in Seq(Messages) /\ wire[c] # <<>> /\ printed[c] \in Seq(Messages)
    BY <1>7 DEF Read
  <2>2. /\ Tail(wire[c]) \in Seq(Messages)
        /\ Append(printed[c], Head(wire[c])) \in Seq(Messages)
    BY <2>1, HeadTailProperties, AppendProperties
  <2>3. rxd' \in [Clients -> {"away", "following"} \cup Exits]
    BY <1>7 DEF Read
  <2>. QED
    BY <1>7, <2>2, <2>3 DEF Read
<1>8. ASSUME NEW c \in Clients, Broken(c) PROVE TypeOK'
  BY <1>8 DEF Broken
<1>9. ASSUME NEW c \in Clients, Connect(c) PROVE TypeOK'
  BY <1>9 DEF Connect
<1>10. ASSUME NEW c \in Clients, Detach(c) PROVE TypeOK'
  BY <1>10 DEF Detach
<1>11. CASE UNCHANGED vars
  BY <1>11 DEF vars
<1>. QED
  BY <1>1, <1>2, <1>3, <1>4, <1>5, <1>6, <1>7, <1>8, <1>9, <1>10, <1>11
  DEF Next, Session, Quiet

-----------------------------------------------------------------------------
(* The parts of the invariant, session by session.                         *)

Parts(c) == PipelineOK(c) /\ AnswersFirst(c) /\ LastWord(c) /\ BrokenOnlyByExit(c)

\* A step leaves a session alone; and it undoes neither the end of the run nor
\* that of the process.
Untouched(c) ==
  /\ pc'[c] = pc[c] /\ replay'[c] = replay[c] /\ cursor'[c] = cursor[c] /\ held'[c] = held[c]
  /\ wire'[c] = wire[c] /\ rxd'[c] = rxd[c] /\ from'[c] = from[c] /\ printed'[c] = printed[c]

EndsStay ==
  /\ run \in {"finished", "left"} => run' \in {"finished", "left"} /\ mark' = mark
  /\ gone => gone'

LEMMA Still ==
  ASSUME NEW c \in Clients, Parts(c), Untouched(c), EndsStay
  PROVE  Parts(c)'
<1>1. Sent(c)' = Sent(c)
  BY DEF Sent, Untouched
<1>. USE <1>1 DEF Parts, Untouched, EndsStay
<1>2. PipelineOK(c)'
  BY DEF PipelineOK
<1>3. AnswersFirst(c)'
  BY DEF AnswersFirst
<1>4. LastWord(c)'
  BY DEF LastWord
<1>5. BrokenOnlyByExit(c)'
  BY DEF BrokenOnlyByExit
<1>. QED
  BY <1>2, <1>3, <1>4, <1>5

\* What a handler sends keeps the order of its messages: a line is the one that
\* is due, and the last word is the last.
LEMMA Sends ==
  ASSUME TypeOK, NEW c \in Clients, Parts(c), NEW kind, NEW n, Message(kind, n) \in Messages,
         held[c] = Nothing, Sending(c, kind, n), UNCHANGED <<run, mark, wire, rxd, printed, from>>,
         pc[c] # "over", rxd[c] # "away",
         kind \in Final <=> pc'[c] = "over",
         pc'[c] = "draining" => pc[c] = "draining",
         rxd[c] = "following" /\ kind = "Line" => n = Reach(Sent(c), from[c]),
         rxd[c] = "following" /\ kind = "Ended" =>
           run \in {"finished", "left"} /\ Reach(Sent(c), from[c]) > mark
  PROVE  /\ InPlace(Sent(c)', from[c])
         /\ rxd[c] = "following" =>
              /\ Sent(c)' = Append(Sent(c), Message(kind, n))
              /\ Reach(Sent(c)', from[c]) = Reach(Sent(c), from[c]) + Count(Message(kind, n))
         /\ LastWord(c)'
<1>. DEFINE m == Message(kind, n)
            s == Sent(c)
<1>1. Sent(c)' = IF rxd[c] = "following" THEN Append(s, m) ELSE s
  BY SendingAppends
<1>2. /\ s \in Seq(Messages) /\ m \in Messages /\ m.kind = kind /\ m.n = n
      /\ from[c] \in Nat /\ mark \in Nat
  BY SentIsSeq, BoundsAssumption DEF TypeOK, Message
<1>3. InPlace(s, from[c]) /\ (\A i \in 1..Len(s) : s[i].kind \notin Final)
  BY DEF Parts, PipelineOK, LastWord
<1>4. \A i \in 1..Len(printed[c]) : rxd[c] = "following" => printed[c][i].kind \notin Final
  BY DEF Parts, LastWord
<1>5. rxd[c] \in {"done", "failed"} => \E i \in 1..Len(printed[c]) : printed[c][i].kind = "Ended"
  BY DEF Parts, LastWord
<1>6. pc'[c] = "draining" => run \in {"finished", "left"}
  BY DEF Parts, LastWord
<1>7. CASE rxd[c] # "following"
  <2>1. Sent(c)' = s
    BY <1>1, <1>7
  <2>2. LastWord(c)'
    BY <1>3, <1>5, <1>6, <1>7, <2>1 DEF LastWord, Final
  <2>. QED
    BY <1>3, <1>7, <2>1, <2>2
<1>8. CASE rxd[c] = "following"
  <2>. DEFINE t == Append(s, m)
  <2>1. Sent(c)' = t
    BY <1>1, <1>8
  <2>2. m.kind = "Line" => m.n = Reach(s, from[c])
    BY <1>2, <1>8
  <2>3. InPlace(t, from[c])
    BY <1>2, <1>3, <2>2, SendNext
  <2>4. Reach(t, from[c]) = Reach(s, from[c]) + Count(m)
    BY <1>2, <1>3, <2>2, SendNext
  <2>5. Reach(s, from[c]) \in Nat
    BY <1>2, ReachNat
  <2>6. /\ Len(s) \in Nat /\ Len(t) = Len(s) + 1 /\ t[Len(s) + 1] = m
        /\ \A i \in 1..Len(s) : t[i] = s[i]
    BY <1>2, AppendProperties, LenProperties
  <2>. HIDE DEF t, s, m
  <2>7. \A i \in 1..Len(t) : t[i].kind \in Final => i = Len(t) /\ pc'[c] = "over"
    BY <1>2, <1>3, <2>6
  <2>8. kind = "Ended" => Reach(t, from[c]) > mark /\ run \in {"finished", "left"}
    <3>1. kind = "Ended" => Count(m) = 0
      BY <1>2 DEF Count
    <3>. QED
      BY <1>2, <1>8, <2>4, <2>5, <3>1 DEF s
  <2>9. \A i \in 1..Len(t) : t[i].kind = "Ended" =>
          run \in {"finished", "left"} /\ Reach(t, from[c]) > mark
    <3>. SUFFICES ASSUME NEW i \in 1..Len(t), t[i].kind = "Ended"
                  PROVE  run \in {"finished", "left"} /\ Reach(t, from[c]) > mark
      OBVIOUS
    <3>1. t[i].kind \in Final
      BY DEF Final
    <3>2. i = Len(s) + 1
      BY <1>3, <2>6, <3>1
    <3>. QED
      BY <1>2, <2>6, <2>8, <3>2
  <2>10. pc'[c] = "over" => t # <<>> /\ t[Len(t)].kind \in Final
    BY <1>2, <2>6
  <2>11. LastWord(c)'
    BY <1>4, <1>6, <1>8, <2>1, <2>7, <2>9, <2>10 DEF LastWord
  <2>. QED
    BY <2>1, <2>3, <2>4, <2>11 DEF s, t, m
<1>. QED
  BY <1>7, <1>8

\* The handler of a session keeps what holds of it, action by action.

LEMMA AnswerKeeps ==
  ASSUME TypeOK, NEW c \in Clients, Parts(c), Answer(c) \/ Attach(c)
  PROVE  Parts(c)'
<1>1. /\ held[c] = Nothing /\ pc[c] \in {"asked", "answered"}
      /\ UNCHANGED <<run, mark, wire, rxd, printed, from, replay, cursor, gone>>
  BY DEF Answer, Attach, Ready, runVars, clientVars
<1>2. PICK kind \in {"Started", "NoRun"} :
        /\ Sending(c, kind, 0)
        /\ pc' = [pc EXCEPT ![c] = IF kind = "Started" THEN "started" ELSE "over"]
  BY DEF Answer, Attach, Goto
<1>3. pc'[c] = IF kind = "Started" THEN "started" ELSE "over"
  BY <1>2 DEF TypeOK
<1>4. rxd[c] # "away" /\ Sent(c) = <<>> /\ Message(kind, 0) \in Messages
  BY <1>1 DEF Parts, AnswersFirst, Message, Messages
<1>5. /\ InPlace(Sent(c)', from[c])
      /\ rxd[c] = "following" => Sent(c)' = Append(Sent(c), Message(kind, 0))
      /\ LastWord(c)'
  <2>1. /\ kind \in Final <=> pc'[c] = "over"
        /\ pc'[c] # "draining" /\ pc[c] # "over" /\ kind \notin {"Line", "Ended"}
    BY <1>1, <1>3 DEF Final
  <2>2. UNCHANGED <<run, mark, wire, rxd, printed, from>>
    BY <1>1
  <2>. QED
    BY <1>1, <1>2, <1>4, <2>1, <2>2, Sends
<1>6. rxd[c] # "following" => Sent(c)' = Sent(c)
  BY <1>1, <1>2, <1>4, SendingAppends
<1>7. Sent(c)' \in {<<>>, <<Message(kind, 0)>>}
  BY <1>4, <1>5, <1>6
<1>8. PipelineOK(c)'
  BY <1>1, <1>3, <1>5 DEF PipelineOK
<1>9. AnswersFirst(c)'
  BY <1>1, <1>3, <1>4, <1>7 DEF AnswersFirst
<1>10. BrokenOnlyByExit(c)'
  BY <1>1 DEF Parts, BrokenOnlyByExit
<1>. QED
  BY <1>5, <1>8, <1>9, <1>10 DEF Parts

LEMMA SubscribeKeeps ==
  ASSUME TypeOK, NEW c \in Clients, Parts(c), Subscribe(c)
  PROVE  Parts(c)'
<1>. DEFINE history == [i \in 1..(pushed - oldest + 1) |-> oldest + i - 1]
            s == Sent(c)
<1>1. /\ held[c] = Nothing /\ pc[c] = "started" /\ rxd[c] # "away"
      /\ pc'[c] = "replaying" /\ replay'[c] = history /\ cursor'[c] = pushed + 1
      /\ from'[c] = oldest
      /\ UNCHANGED <<run, mark, gone, held, wire, rxd, printed>>
  BY DEF Subscribe, Ready, Goto, TypeOK, runVars, clientVars, Parts, AnswersFirst
<1>2. Sent(c)' = s /\ s \in Seq(Messages)
  BY <1>1, SentIsSeq DEF Sent
<1>3. s \in {<<>>, <<Message("Started", 0)>>}
  BY <1>1 DEF Parts, AnswersFirst
<1>. HIDE DEF s
<1>4. InPlace(s, oldest) /\ Reach(s, oldest) = oldest
  <2>. DEFINE m == Message("Started", 0)
  <2>1. m \in Messages /\ m.kind = "Started" /\ Count(m) = 0 /\ oldest \in Nat
    BY BoundsAssumption DEF Message, Messages, Count, TypeOK
  <2>2. InPlace(<<>>, oldest) /\ Reach(<<>>, oldest) = oldest
    BY <2>1, ReachEmpty
  <2>. HIDE DEF m
  <2>3. m.kind = "Line" => m.n = Reach(<<>>, oldest)
    BY <2>1
  <2>4. <<>> \in Seq(Messages) /\ Append(<<>>, m) = <<m>>
    OBVIOUS
  <2>5. InPlace(Append(<<>>, m), oldest)
    BY <2>1, <2>2, <2>3, <2>4, SendNext
  <2>6. Reach(Append(<<>>, m), oldest) = Reach(<<>>, oldest) + Count(m)
    BY <2>1, <2>2, <2>3, <2>4, SendNext
  <2>7. InPlace(<<m>>, oldest) /\ Reach(<<m>>, oldest) = oldest
    BY <2>1, <2>2, <2>4, <2>5, <2>6
  <2>. QED
    BY <1>3, <2>2, <2>7 DEF m
<1>5. Len(history) = pushed - oldest + 1 /\ \A i \in 1..Len(history) : history[i] = oldest + i - 1
  BY BoundsAssumption DEF TypeOK
<1>. HIDE DEF history
<1>6. PipelineOK(c)'
  <2>1. pushed + 1 = oldest + (pushed - oldest + 1)
    BY BoundsAssumption DEF TypeOK
  <2>. QED
    BY <1>1, <1>2, <1>4, <1>5, <2>1 DEF PipelineOK
<1>7. AnswersFirst(c)'
  BY <1>1 DEF AnswersFirst
<1>8. LastWord(c)'
  <2>1. \A i \in 1..Len(s) : s[i].kind \notin Final
    BY <1>1 DEF Parts, LastWord, s
  <2>. QED
    BY <1>1, <1>2, <2>1 DEF Parts, LastWord, Final
<1>9. BrokenOnlyByExit(c)'
  BY <1>1 DEF Parts, BrokenOnlyByExit
<1>. QED
  BY <1>6, <1>7, <1>8, <1>9 DEF Parts

LEMMA ReplayKeeps ==
  ASSUME TypeOK, NEW c \in Clients, Parts(c), Replay(c)
  PROVE  Parts(c)'
<1>1. /\ held[c] = Nothing /\ pc[c] = "replaying" /\ rxd[c] # "away"
      /\ UNCHANGED <<run, mark, gone, cursor, wire, rxd, printed, from>>
      /\ replay[c] \in Seq(Nat) /\ from[c] \in Nat
  BY DEF Replay, Ready, TypeOK, runVars, clientVars, Parts, AnswersFirst
<1>2. BrokenOnlyByExit(c)'
  BY <1>1 DEF Parts, BrokenOnlyByExit
<1>3. CASE replay[c] = <<>>
  <2>1. pc'[c] = "live" /\ replay' = replay /\ held' = held
    BY <1>3 DEF Replay, Goto, TypeOK
  <2>2. Sent(c)' = Sent(c)
    BY <1>1, <2>1 DEF Sent
  <2>3. PipelineOK(c)'
    BY <1>1, <1>3, <2>1, <2>2 DEF Parts, PipelineOK
  <2>4. AnswersFirst(c)'
    BY <1>1, <2>1 DEF AnswersFirst
  <2>5. LastWord(c)'
    BY <1>1, <2>1, <2>2 DEF Parts, LastWord
  <2>. QED
    BY <1>2, <2>3, <2>4, <2>5 DEF Parts
<1>4. CASE replay[c] # <<>>
  <2>. DEFINE r == replay[c]
              m == Message("Line", Head(r))
              due == Reach(Sent(c), from[c])
  <2>1. /\ Head(r) \in Nat /\ Head(r) = r[1] /\ Len(r) \in Nat \ {0}
        /\ Tail(r) \in Seq(Nat) /\ Len(Tail(r)) = Len(r) - 1
        /\ \A i \in 1..Len(Tail(r)) : Tail(r)[i] = r[i + 1]
    BY <1>1, <1>4, HeadTailProperties, LenProperties, EmptySeq
  <2>2. Sending(c, "Line", Head(r)) /\ replay'[c] = Tail(r) /\ pc' = pc
    BY <1>4 DEF Replay, TypeOK
  <2>3. m \in Messages /\ Count(m) = 1
    BY <2>1 DEF Message, Messages, Count
  <2>4. rxd[c] = "following" =>
          cursor[c] = due + Len(r) /\ \A i \in 1..Len(r) : r[i] = due + i - 1
    BY <1>1 DEF Parts, PipelineOK
  <2>5. due \in Nat
    BY <1>1, SentIsSeq, ReachNat
  <2>6. rxd[c] = "following" => Head(r) = due
    BY <2>1, <2>4, <2>5
  <2>. HIDE DEF m
  <2>7. /\ InPlace(Sent(c)', from[c])
        /\ rxd[c] = "following" => Reach(Sent(c)', from[c]) = due + Count(m)
        /\ LastWord(c)'
    BY <1>1, <2>2, <2>3, <2>6, Sends DEF Final, m
  <2>. HIDE DEF due, r
  <2>8. rxd[c] = "following" =>
          /\ cursor[c] = (due + 1) + Len(Tail(r))
          /\ \A i \in 1..Len(Tail(r)) : Tail(r)[i] = (due + 1) + i - 1
    <3>. SUFFICES ASSUME rxd[c] = "following"
                  PROVE  /\ cursor[c] = (due + 1) + Len(Tail(r))
                         /\ \A i \in 1..Len(Tail(r)) : Tail(r)[i] = (due + 1) + i - 1
      OBVIOUS
    <3>1. cursor[c] = (due + 1) + Len(Tail(r))
      BY <2>1, <2>4, <2>5
    <3>2. ASSUME NEW i \in 1..Len(Tail(r)) PROVE Tail(r)[i] = (due + 1) + i - 1
      <4>1. i + 1 \in 1..Len(r)
        BY <2>1
      <4>. QED
        BY <2>1, <2>4, <2>5, <4>1
    <3>. QED
      BY <3>1, <3>2
  <2>9. PipelineOK(c)'
    BY <1>1, <2>2, <2>3, <2>7, <2>8 DEF PipelineOK, r
  <2>10. AnswersFirst(c)'
    BY <1>1, <2>2 DEF AnswersFirst
  <2>. QED
    BY <1>2, <2>7, <2>9, <2>10 DEF Parts
<1>. QED
  BY <1>3, <1>4

LEMMA RecvKeeps ==
  ASSUME TypeOK, NEW c \in Clients, Parts(c), Recv(c)
  PROVE  Parts(c)'
<1>. DEFINE due == Reach(Sent(c), from[c])
<1>1. /\ held[c] = Nothing /\ pc[c] \in {"live", "draining"} /\ rxd[c] # "away"
      /\ UNCHANGED <<run, mark, gone, pc, replay, wire, rxd, printed, from>>
      /\ from[c] \in Nat /\ cursor[c] \in Nat /\ pushed \in Nat /\ Capacity \in Nat
  BY BoundsAssumption DEF Recv, Ready, TypeOK, runVars, clientVars, Parts, AnswersFirst
<1>2. rxd[c] = "following" => replay[c] = <<>> /\ cursor[c] = due
  <2>1. rxd[c] = "following" => replay[c] = <<>> /\ cursor[c] = due + Len(replay[c])
    BY <1>1 DEF Parts, PipelineOK
  <2>2. due \in Nat /\ Len(<<>>) = 0
    BY <1>1, SentIsSeq, ReachNat
  <2>. HIDE DEF due
  <2>. QED
    BY <2>1, <2>2
<1>3. PICK kind \in {"Line", "Skipped"}, n \in Nat :
        /\ Sending(c, kind, n)
        /\ kind = "Line" => n = cursor[c]
        /\ cursor'[c] = cursor[c] + Count(Message(kind, n))
  <2>1. CASE cursor[c] > Overwritten
    <3>1. Sending(c, "Line", cursor[c]) /\ cursor'[c] = cursor[c] + 1
      BY <1>1, <2>1 DEF Recv, TypeOK
    <3>2. Count(Message("Line", cursor[c])) = 1
      BY DEF Count, Message
    <3>. QED
      BY <1>1, <3>1, <3>2
  <2>2. CASE ~ (cursor[c] > Overwritten)
    <3>1. /\ Sending(c, "Skipped", Overwritten + 1 - cursor[c]) /\ cursor'[c] = Overwritten + 1
      BY <1>1, <2>2 DEF Recv, TypeOK
    <3>2. PICK k \in Nat : k = Overwritten + 1 - cursor[c] /\ Overwritten + 1 = cursor[c] + k
      BY <1>1, <2>2 DEF Overwritten
    <3>3. Count(Message("Skipped", k)) = k
      BY DEF Count, Message
    <3>. QED
      BY <3>1, <3>2, <3>3
  <2>. QED
    BY <2>1, <2>2
<1>. DEFINE m == Message(kind, n)
<1>4. m \in Messages
  BY DEF Message, Messages
<1>5. rxd[c] = "following" /\ kind = "Line" => n = Reach(Sent(c), from[c])
  BY <1>2, <1>3
<1>6. /\ InPlace(Sent(c)', from[c])
      /\ rxd[c] = "following" => Reach(Sent(c)', from[c]) = Reach(Sent(c), from[c]) + Count(m)
      /\ LastWord(c)'
  <2>1. /\ kind \in Final <=> pc'[c] = "over"
        /\ pc'[c] = "draining" => pc[c] = "draining"
        /\ pc[c] # "over" /\ kind # "Ended"
    BY <1>1 DEF Final
  <2>2. UNCHANGED <<run, mark, wire, rxd, printed, from>>
    BY <1>1
  <2>. QED
    BY <1>1, <1>3, <1>4, <1>5, <2>1, <2>2, Sends
<1>. HIDE DEF m
<1>7. PipelineOK(c)'
  <2>1. Len(<<>>) = 0 /\ Count(m) \in Nat /\ due \in Nat
    BY <1>1, <1>4, SentIsSeq, ReachNat DEF Count, Messages
  <2>2. rxd[c] = "following" => cursor'[c] = Reach(Sent(c)', from[c])
    BY <1>2, <1>3, <1>6 DEF m
  <2>3. rxd[c] = "following" => Reach(Sent(c)', from[c]) \in Nat
    BY <1>6, <2>1
  <2>4. rxd[c] = "following" => cursor'[c] = Reach(Sent(c)', from[c]) + 0
    BY <2>2, <2>3
  <2>. QED
    BY <1>1, <1>2, <1>6, <2>1, <2>4 DEF PipelineOK
<1>8. AnswersFirst(c)'
  BY <1>1 DEF AnswersFirst
<1>9. BrokenOnlyByExit(c)'
  BY <1>1 DEF Parts, BrokenOnlyByExit
<1>. QED
  BY <1>6, <1>7, <1>8, <1>9 DEF Parts

LEMMA TellEndKeeps ==
  ASSUME TypeOK, mark <= pushed, NEW c \in Clients, Parts(c), TellEnd(c)
  PROVE  Parts(c)'
<1>. DEFINE due == Reach(Sent(c), from[c])
<1>1. /\ held[c] = Nothing /\ pc[c] = "draining" /\ pc'[c] = "over" /\ rxd[c] # "away"
      /\ UNCHANGED <<run, mark, gone, replay, cursor, wire, rxd, printed, from>>
      /\ from[c] \in Nat /\ cursor[c] > pushed /\ cursor[c] \in Nat
      /\ pushed \in Nat /\ mark \in Nat /\ Sending(c, "Ended", 0)
  BY BoundsAssumption DEF TellEnd, Ready, Goto, TypeOK, runVars, clientVars, Parts, AnswersFirst
<1>2. rxd[c] = "following" => due > mark
  <2>1. rxd[c] = "following" => replay[c] = <<>> /\ cursor[c] = due + Len(replay[c])
    BY <1>1 DEF Parts, PipelineOK
  <2>2. due \in Nat /\ Len(<<>>) = 0
    BY <1>1, SentIsSeq, ReachNat
  <2>. HIDE DEF due
  <2>. QED
    BY <1>1, <2>1, <2>2
<1>3. InPlace(Sent(c)', from[c]) /\ LastWord(c)'
  <2>1. /\ "Ended" \in Final /\ "Ended" # "Line" /\ pc[c] # "over" /\ pc'[c] # "draining"
        /\ Message("Ended", 0) \in Messages /\ run \in {"finished", "left"}
    BY <1>1 DEF Final, Message, Messages, Parts, LastWord
  <2>2. UNCHANGED <<run, mark, wire, rxd, printed, from>>
    BY <1>1
  <2>. QED
    BY <1>1, <1>2, <2>1, <2>2, Sends
<1>4. PipelineOK(c)'
  BY <1>1, <1>3 DEF PipelineOK
<1>5. AnswersFirst(c)'
  BY <1>1 DEF AnswersFirst
<1>6. BrokenOnlyByExit(c)'
  BY <1>1 DEF Parts, BrokenOnlyByExit
<1>. QED
  BY <1>3, <1>4, <1>5, <1>6 DEF Parts

LEMMA SeesEndKeeps ==
  ASSUME TypeOK, NEW c \in Clients, Parts(c), SeesEnd(c)
  PROVE  Parts(c)'
<1>1. /\ pc[c] = "live" /\ pc'[c] = "draining" /\ rxd[c] # "away" /\ run \in {"finished", "left"}
      /\ UNCHANGED <<run, mark, gone, replay, cursor, held, wire, rxd, printed, from>>
  BY DEF SeesEnd, Ready, Goto, TypeOK, runVars, clientVars, Parts, AnswersFirst
<1>2. Sent(c)' = Sent(c)
  BY <1>1 DEF Sent
<1>3. PipelineOK(c)'
  BY <1>1, <1>2 DEF Parts, PipelineOK
<1>4. AnswersFirst(c)'
  BY <1>1 DEF AnswersFirst
<1>5. LastWord(c)'
  BY <1>1, <1>2 DEF Parts, LastWord
<1>6. BrokenOnlyByExit(c)'
  BY <1>1 DEF Parts, BrokenOnlyByExit
<1>. QED
  BY <1>3, <1>4, <1>5, <1>6 DEF Parts

LEMMA DeliverKeeps ==
  ASSUME TypeOK, NEW c \in Clients, Parts(c), Deliver(c)
  PROVE  Parts(c)'
<1>1. /\ rxd[c] = "following"
      /\ UNCHANGED <<run, mark, gone, pc, replay, cursor, rxd, printed, from>>
  BY DEF Deliver, runVars, clientVars
<1>2. Sent(c)' = Sent(c)
  BY DeliverKeepsSent
<1>3. PipelineOK(c)'
  BY <1>1, <1>2 DEF Parts, PipelineOK
<1>4. AnswersFirst(c)'
  BY <1>1, <1>2 DEF Parts, AnswersFirst
<1>5. LastWord(c)'
  BY <1>1, <1>2 DEF Parts, LastWord
<1>6. BrokenOnlyByExit(c)'
  BY <1>1 DEF Parts, BrokenOnlyByExit
<1>. QED
  BY <1>3, <1>4, <1>5, <1>6 DEF Parts

LEMMA DeliveryFailsKeeps ==
  ASSUME TypeOK, NEW c \in Clients, Parts(c), DeliveryFails(c)
  PROVE  Parts(c)'
<1>1. /\ rxd[c] # "following" /\ rxd[c] # "away" /\ pc'[c] = "over"
      /\ UNCHANGED <<run, mark, gone, replay, cursor, wire, rxd, printed, from>>
  BY DEF DeliveryFails, Goto, TypeOK, runVars, clientVars, Parts, AnswersFirst
<1>2. Sent(c)' = Sent(c)
  BY <1>1 DEF Sent
<1>3. PipelineOK(c)'
  BY <1>1, <1>2 DEF Parts, PipelineOK
<1>4. AnswersFirst(c)'
  BY <1>1 DEF AnswersFirst
<1>5. LastWord(c)'
  BY <1>1, <1>2 DEF Parts, LastWord
<1>6. BrokenOnlyByExit(c)'
  BY <1>1 DEF Parts, BrokenOnlyByExit
<1>. QED
  BY <1>3, <1>4, <1>5, <1>6 DEF Parts

\* The session keeps what holds of it.

LEMMA ConnectKeeps ==
  ASSUME TypeOK, NEW c \in Clients, Parts(c), Connect(c)
  PROVE  Parts(c)'
<1>1. /\ rxd[c] = "away" /\ rxd'[c] = "following" /\ pc'[c] \in {"asked", "answered"}
      /\ UNCHANGED <<run, mark, gone, replay, cursor, held, wire, printed, from>>
      /\ held[c] = Nothing /\ wire[c] = <<>> /\ pc[c] = "none" /\ from[c] \in Nat
  BY DEF Connect, Goto, TypeOK, runVars, Parts, AnswersFirst
<1>2. printed[c] = <<>>
  BY <1>1 DEF Parts, AnswersFirst, Sent
<1>3. <<>> \o (<<>> \o <<>>) = <<>>
  OBVIOUS
<1>4. Sent(c)' = <<>>
  BY <1>1, <1>2, <1>3 DEF Sent
<1>5. PipelineOK(c)'
  BY <1>1, <1>4, ReachEmpty DEF PipelineOK
<1>6. AnswersFirst(c)'
  BY <1>1, <1>4 DEF AnswersFirst
<1>7. LastWord(c)'
  BY <1>1, <1>2, <1>4, EmptySeq DEF LastWord
<1>8. BrokenOnlyByExit(c)'
  BY <1>1 DEF BrokenOnlyByExit
<1>. QED
  BY <1>5, <1>6, <1>7, <1>8 DEF Parts

LEMMA ReadKeeps ==
  ASSUME TypeOK, NEW c \in Clients, Parts(c), Read(c)
  PROVE  Parts(c)'
<1>. DEFINE m == Head(wire[c])
<1>1. /\ rxd[c] = "following" /\ wire[c] # <<>>
      /\ printed'[c] = Append(printed[c], m) /\ wire'[c] = Tail(wire[c])
      /\ UNCHANGED <<run, mark, gone, pc, replay, cursor, held, from>>
      /\ printed[c] \in Seq(Messages)
  BY DEF Read, TypeOK, runVars, handlerVars
<1>2. rxd'[c] = CASE m.kind = "Ended" -> (IF outcome = "done" THEN "done" ELSE "failed")
                  [] m.kind = "NoRun" -> "nothing"
                  [] OTHER -> "following"
  BY <1>1 DEF Read, Exit, TypeOK
<1>3. /\ rxd'[c] = "following" => Sent(c)' = Sent(c)
      /\ held[c] = Nothing /\ Len(wire[c]) = 1 => printed'[c] = Sent(c)
      /\ Sent(c)[Len(printed[c]) + 1] = m
      /\ Len(Sent(c)) = Len(printed[c]) + Len(wire[c]) + (IF held[c] = Nothing THEN 0 ELSE 1)
      /\ Len(wire[c]) \in Nat \ {0} /\ Len(printed[c]) \in Nat
  BY <1>1, ReadMoves
<1>. HIDE DEF m
<1>4. BrokenOnlyByExit(c)'
  BY <1>2 DEF BrokenOnlyByExit
<1>5. CASE m.kind \notin Final
  <2>1. rxd'[c] = "following" /\ Sent(c)' = Sent(c)
    BY <1>2, <1>3, <1>5 DEF Final
  <2>2. PipelineOK(c)'
    BY <1>1, <2>1 DEF Parts, PipelineOK
  <2>3. AnswersFirst(c)'
    BY <1>1, <2>1 DEF Parts, AnswersFirst
  <2>4. \A i \in 1..Len(printed'[c]) : printed'[c][i].kind \notin Final
    <3>1. \A i \in 1..Len(printed[c]) : printed[c][i].kind \notin Final
      BY <1>1 DEF Parts, LastWord
    <3>2. m \in Messages
      <4>1. wire[c] \in Seq(Messages)
        BY DEF TypeOK
      <4>. QED
        BY <1>1, <4>1, HeadTailProperties DEF m
    <3>3. /\ Len(printed'[c]) = Len(printed[c]) + 1 /\ printed'[c][Len(printed[c]) + 1] = m
          /\ \A i \in 1..Len(printed[c]) : printed'[c][i] = printed[c][i]
      BY <1>1, <3>2, AppendProperties
    <3>. QED
      BY <1>3, <1>5, <3>1, <3>3
  <2>5. LastWord(c)'
    BY <1>1, <2>1, <2>4 DEF Parts, LastWord
  <2>. QED
    BY <1>4, <2>2, <2>3, <2>5 DEF Parts
<1>6. CASE m.kind \in Final
  <2>. DEFINE a == Len(printed[c])
              b == Len(wire[c])
              h == IF held[c] = Nothing THEN 0 ELSE 1
              k == a + 1
  <2>0. /\ Len(Sent(c)) = a + b + h /\ a \in Nat /\ b \in Nat \ {0} /\ h \in Nat
        /\ h = 0 => held[c] = Nothing
    BY <1>3
  <2>. HIDE DEF a, b, h
  <2>1. k \in 1..Len(Sent(c))
    BY <2>0
  <2>2. k = Len(Sent(c)) /\ pc[c] = "over"
    <3>1. Sent(c)[k].kind \in Final
      BY <1>3, <1>6 DEF a
    <3>. QED
      BY <2>1, <3>1 DEF Parts, LastWord
  <2>3. held[c] = Nothing /\ Len(wire[c]) = 1
    <3>1. b = 1 /\ h = 0
      BY <2>0, <2>2
    <3>. QED
      BY <2>0, <3>1 DEF b
  <2>4. rxd'[c] \in {"done", "failed", "nothing"} /\ (rxd'[c] # "nothing" => m.kind = "Ended")
    BY <1>2, <1>6 DEF Final
  <2>5. printed'[c] = Sent(c) /\ Sent(c)' = Sent(c)
    BY <1>3, <2>3, <2>4 DEF Sent
  <2>6. PipelineOK(c)'
    BY <1>1, <2>4, <2>5 DEF Parts, PipelineOK
  <2>7. AnswersFirst(c)'
    BY <1>1, <2>2, <2>4 DEF AnswersFirst
  <2>8. rxd'[c] \in {"done", "failed"} =>
          \E i \in 1..Len(printed'[c]) : printed'[c][i].kind = "Ended"
    BY <1>3, <2>1, <2>4, <2>5 DEF a
  <2>9. LastWord(c)'
    BY <1>1, <2>2, <2>4, <2>5, <2>8 DEF Parts, LastWord
  <2>. QED
    BY <1>4, <2>6, <2>7, <2>9 DEF Parts
<1>. QED
  BY <1>5, <1>6

LEMMA PrefixOfOne ==
  ASSUME NEW s \in Seq(Messages), NEW t \in Seq(Messages), NEW m
  PROVE  /\ s \o t = <<>> => s = <<>>
         /\ s \o t = <<m>> => s \in {<<>>, <<m>>}
<1>1. /\ Len(s) \in Nat /\ Len(t) \in Nat /\ Len(s \o t) = Len(s) + Len(t)
      /\ \A i \in 1..Len(s) : (s \o t)[i] = s[i]
  BY ConcatProperties, LenProperties
<1>2. Len(<<>>) = 0 /\ Len(<<m>>) = 1 /\ <<m>>[1] = m
  OBVIOUS
<1>3. Len(s) = 0 => s = <<>>
  BY EmptySeq
<1>4. ASSUME s \o t = <<m>>, Len(s) # 0 PROVE s = <<m>>
  <2>1. Len(s) = 1 /\ s[1] = m
    BY <1>1, <1>2, <1>4
  <2>. QED
    BY <2>1
<1>. QED
  BY <1>1, <1>2, <1>3, <1>4

\* A session that leaves with part of what was sent unread.
LEMMA LeavesKeeps ==
  ASSUME TypeOK, NEW c \in Clients, Parts(c), rxd[c] = "following",
         rxd'[c] = "detached" \/ (rxd'[c] = "closed" /\ gone),
         UNCHANGED <<run, mark, gone, pc, replay, cursor, held, printed, from>>
  PROVE  Parts(c)'
<1>. DEFINE t == wire[c] \o (IF held[c] = Nothing THEN <<>> ELSE <<held[c]>>)
<1>1. Sent(c)' = printed[c] /\ Sent(c) = printed[c] \o t
  BY DEF Sent
<1>2. printed[c] \in Seq(Messages) /\ t \in Seq(Messages)
  <2>1. CASE held[c] = Nothing
    BY <2>1, SentIsSeq
  <2>2. CASE held[c] # Nothing
    BY <2>2, SentIsSeq
  <2>. QED
    BY <2>1, <2>2
<1>. HIDE DEF t
<1>3. PipelineOK(c)'
  <2>1. InPlace(printed[c] \o t, from[c])
    BY <1>1 DEF Parts, PipelineOK
  <2>2. InPlace(printed[c], from[c])
    BY <1>2, <2>1, PrefixInPlace
  <2>. QED
    BY <1>1, <2>2 DEF PipelineOK
<1>4. AnswersFirst(c)'
  BY <1>1, <1>2, PrefixOfOne DEF Parts, AnswersFirst
<1>5. LastWord(c)'
  <2>1. \A i \in 1..Len(printed[c]) : printed[c][i].kind \notin Final
    BY DEF Parts, LastWord
  <2>. QED
    BY <1>1, <2>1 DEF Parts, LastWord, Final
<1>6. BrokenOnlyByExit(c)'
  BY DEF BrokenOnlyByExit
<1>. QED
  BY <1>3, <1>4, <1>5, <1>6 DEF Parts

LEMMA DetachKeeps ==
  ASSUME TypeOK, NEW c \in Clients, Parts(c), Detach(c)
  PROVE  Parts(c)'
<1>1. /\ rxd[c] = "following" /\ rxd'[c] = "detached"
      /\ UNCHANGED <<run, mark, gone, pc, replay, cursor, held, printed, from>>
  BY DEF Detach, Exit, TypeOK, runVars, handlerVars
<1>. QED
  BY <1>1, LeavesKeeps

LEMMA BrokenKeeps ==
  ASSUME TypeOK, NEW c \in Clients, Parts(c), Broken(c)
  PROVE  Parts(c)'
<1>1. /\ rxd[c] = "following" /\ rxd'[c] = "closed" /\ wire[c] = <<>>
      /\ UNCHANGED <<run, mark, gone, pc, replay, cursor, held, printed, from>>
  BY DEF Broken, Exit, TypeOK, runVars, handlerVars
<1>2. gone
  <2>. SUFFICES ASSUME pc[c] = "over", held[c] = Nothing PROVE FALSE
    BY DEF Broken
  <2>1. printed[c] \in Seq(Messages) /\ printed[c] \o <<>> = printed[c]
    BY SentIsSeq, ConcatEmptySeq
  <2>2. Sent(c) = printed[c]
    BY <1>1, <2>1 DEF Sent
  <2>3. printed[c] # <<>> /\ printed[c][Len(printed[c])].kind \in Final
    BY <1>1, <2>2 DEF Parts, LastWord
  <2>4. Len(printed[c]) \in 1..Len(printed[c])
    BY <2>1, <2>3, EmptySeq, LenProperties
  <2>. QED
    BY <1>1, <2>3, <2>4 DEF Parts, LastWord
<1>. QED
  BY <1>1, <1>2, LeavesKeeps

-----------------------------------------------------------------------------
(* All sessions, and the invariant.                                        *)

\* What one handler or session does leaves the others alone.
LEMMA OthersUntouched ==
  ASSUME TypeOK, NEW c \in Clients, NEW d \in Clients, d # c,
         Handler(c) \/ Session(c) \/ Connect(c) \/ Detach(c)
  PROVE  Untouched(d)
<1>. USE DEF Untouched, TypeOK, Goto, Sending, runVars, handlerVars, clientVars
<1>1. CASE Handler(c)
  <2>1. CASE Answer(c) \/ Attach(c)
    BY <2>1 DEF Answer, Attach
  <2>2. CASE Subscribe(c)
    BY <2>2 DEF Subscribe
  <2>3. CASE Replay(c)
    BY <2>3 DEF Replay
  <2>4. CASE Recv(c)
    BY <2>4 DEF Recv
  <2>5. CASE SeesEnd(c) \/ TellEnd(c)
    BY <2>5 DEF SeesEnd, TellEnd
  <2>6. CASE Deliver(c)
    BY <2>6 DEF Deliver
  <2>7. CASE DeliveryFails(c)
    BY <2>7 DEF DeliveryFails
  <2>. QED
    BY <1>1, <2>1, <2>2, <2>3, <2>4, <2>5, <2>6, <2>7 DEF Handler
<1>2. CASE Session(c)
  <2>1. CASE Read(c)
    <3>1. rxd'[d] = rxd[d]
      BY <2>1 DEF Read, Exit
    <3>. QED
      BY <2>1, <3>1 DEF Read
  <2>2. CASE Broken(c)
    BY <2>2 DEF Broken, Exit
  <2>. QED
    BY <1>2, <2>1, <2>2 DEF Session
<1>3. CASE Connect(c)
  BY <1>3 DEF Connect
<1>4. CASE Detach(c)
  BY <1>4 DEF Detach, Exit
<1>. QED
  BY <1>1, <1>2, <1>3, <1>4

LEMMA SessionKeeps ==
  ASSUME TypeOK, mark <= pushed, NEW c \in Clients, Parts(c),
         Handler(c) \/ Session(c) \/ Connect(c) \/ Detach(c)
  PROVE  Parts(c)' /\ UNCHANGED runVars
<1>1. Parts(c)'
  BY AnswerKeeps, SubscribeKeeps, ReplayKeeps, RecvKeeps, SeesEndKeeps, TellEndKeeps,
     DeliverKeeps, DeliveryFailsKeeps, ReadKeeps, BrokenKeeps, ConnectKeeps, DetachKeeps
  DEF Handler, Session
<1>2. UNCHANGED runVars
  BY DEF Handler, Session, Answer, Attach, Subscribe, Replay, Recv, SeesEnd, TellEnd, Deliver,
         DeliveryFails, Read, Broken, Connect, Detach
<1>. QED
  BY <1>1, <1>2

\* The run and the process: what a step of theirs cannot undo.
RunStep == Begin \/ Push \/ Finish \/ Withdraw \/ ProcessEnds \/ UNCHANGED vars

LEMMA RunKeeps ==
  ASSUME TypeOK, mark <= pushed, RunStep
  PROVE  EndsStay /\ (mark <= pushed)' /\ \A c \in Clients : Untouched(c)
<1>1. EndsStay
  BY DEF RunStep, Begin, Push, Finish, Withdraw, ProcessEnds, EndsStay, vars, runVars
<1>2. (mark <= pushed)'
  BY BoundsAssumption
  DEF RunStep, Begin, Push, Finish, Withdraw, ProcessEnds, vars, runVars, TypeOK
<1>3. UNCHANGED <<handlerVars, wire, clientVars>>
  BY DEF RunStep, Begin, Push, Finish, Withdraw, ProcessEnds, vars
<1>. QED
  BY <1>1, <1>2, <1>3 DEF Untouched, handlerVars, clientVars

LEMMA IInvInit == Init => IInv
<1>. SUFFICES ASSUME Init PROVE IInv
  OBVIOUS
<1>1. TypeOK
  BY TypeInit
<1>2. mark <= pushed
  BY DEF Init
<1>3. ASSUME NEW c \in Clients PROVE Parts(c)
  <2>1. /\ pc[c] = "none" /\ rxd[c] = "away" /\ held[c] = Nothing /\ wire[c] = <<>>
        /\ printed[c] = <<>> /\ from[c] = 0
    BY DEF Init
  <2>2. Sent(c) = <<>>
    BY <2>1 DEF Sent
  <2>3. PipelineOK(c)
    BY <2>1, <2>2, ReachEmpty DEF PipelineOK
  <2>4. AnswersFirst(c)
    BY <2>1, <2>2 DEF AnswersFirst
  <2>5. LastWord(c)
    BY <2>1, <2>2, EmptySeq DEF LastWord
  <2>6. BrokenOnlyByExit(c)
    BY <2>1 DEF BrokenOnlyByExit
  <2>. QED
    BY <2>3, <2>4, <2>5, <2>6 DEF Parts
<1>. QED
  BY <1>1, <1>2, <1>3 DEF IInv, Parts

LEMMA IInvStep == IInv /\ [Next]_vars => IInv'
<1>. SUFFICES ASSUME IInv, [Next]_vars PROVE IInv'
  OBVIOUS
<1>1. TypeOK /\ mark <= pushed /\ \A c \in Clients : Parts(c)
  BY DEF IInv, Parts
<1>2. TypeOK'
  BY <1>1, TypeStep
<1>3. CASE RunStep
  <2>1. EndsStay /\ (mark <= pushed)' /\ \A c \in Clients : Untouched(c)
    BY <1>1, <1>3, RunKeeps
  <2>2. \A c \in Clients : Parts(c)'
    BY <1>1, <2>1, Still
  <2>. QED
    BY <1>2, <2>1, <2>2 DEF IInv, Parts
<1>4. ASSUME NEW c \in Clients, Handler(c) \/ Session(c) \/ Connect(c) \/ Detach(c)
      PROVE  IInv'
  <2>1. Parts(c)' /\ UNCHANGED runVars
    BY <1>1, <1>4, SessionKeeps
  <2>2. EndsStay /\ (mark <= pushed)'
    BY <1>1, <2>1 DEF EndsStay, runVars
  <2>3. ASSUME NEW d \in Clients PROVE Parts(d)'
    <3>1. CASE d = c
      BY <2>1, <3>1
    <3>2. CASE d # c
      <4>1. Untouched(d)
        BY <1>1, <1>4, <3>2, OthersUntouched
      <4>. QED
        BY <1>1, <2>2, <4>1, Still
    <3>. QED
      BY <3>1, <3>2
  <2>. QED
    BY <1>2, <2>2, <2>3 DEF IInv, Parts
<1>. QED
  BY <1>3, <1>4 DEF Next, RunStep, Quiet

\* Whatever the bounds, whoever attaches and whenever it detaches: what was sent
\* to a session is the replay and then the live lines, each in its place or
\* counted as skipped, up to the line its receiver is due; nothing follows the
\* end; and only the end of the process breaks a session that found a run.
THEOREM FollowInvariance == Spec => []IInv
<1>1. Init => IInv
  BY IInvInit
<1>2. IInv /\ [Next]_vars => IInv'
  BY IInvStep
<1>. QED
  BY <1>1, <1>2, PTL DEF Spec

\* The replay and the live lines join, and a slow follower knows exactly what it
\* missed: what a terminal has printed is a prefix of what was sent to it.
THEOREM NothingMissedUntold == Spec => []Gapless
<1>1. IInv => Gapless
  <2>. SUFFICES ASSUME IInv, NEW c \in Clients PROVE InPlace(printed[c], from[c])
    BY DEF Gapless
  <2>1. TypeOK /\ InPlace(Sent(c), from[c])
    BY DEF IInv, PipelineOK
  <2>2. CASE rxd[c] # "following"
    BY <2>1, <2>2 DEF Sent
  <2>3. CASE rxd[c] = "following"
    <3>. DEFINE t == wire[c] \o (IF held[c] = Nothing THEN <<>> ELSE <<held[c]>>)
    <3>1. Sent(c) = printed[c] \o t
      BY <2>3 DEF Sent
    <3>2. printed[c] \in Seq(Messages) /\ t \in Seq(Messages)
      <4>1. CASE held[c] = Nothing
        BY <2>1, <4>1, SentIsSeq
      <4>2. CASE held[c] # Nothing
        BY <2>1, <4>2, SentIsSeq
      <4>. QED
        BY <4>1, <4>2
    <3>. HIDE DEF t
    <3>3. InPlace(printed[c] \o t, from[c])
      BY <2>1, <3>1
    <3>. QED
      BY <3>2, <3>3, PrefixInPlace
  <2>. QED
    BY <2>2, <2>3
<1>. QED
  BY <1>1, FollowInvariance, PTL

\* A terminal that exits with the status of the run was told of every line up to
\* the end of it: the end, which the handler may see first, overtakes none.
THEOREM NothingOvertaken == Spec => []WholeUntilEnd
<1>1. IInv => WholeUntilEnd
  <2>. SUFFICES ASSUME IInv, NEW c \in Clients, rxd[c] \in {"done", "failed"}
                PROVE  Reach(printed[c], from[c]) > mark
    BY DEF WholeUntilEnd
  <2>1. Sent(c) = printed[c] /\ LastWord(c)
    BY DEF Sent, IInv
  <2>2. PICK i \in 1..Len(printed[c]) : printed[c][i].kind = "Ended"
    BY <2>1 DEF LastWord
  <2>. QED
    BY <2>1, <2>2 DEF LastWord
<1>. QED
  BY <1>1, FollowInvariance, PTL
=============================================================================
