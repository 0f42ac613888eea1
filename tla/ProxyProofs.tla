---------------------------- MODULE ProxyProofs ----------------------------
(***************************************************************************)
(* Proofs about DockerProxy, for any number of connections and requests,   *)
(* however the streams are cut into pieces: dockerd is sent the stream of  *)
(* the client and nothing else, only what was approved, and the replies    *)
(* stay in order.                                                          *)
(***************************************************************************)
EXTENDS ProxyInvariant, SequenceTheorems, TLAPS

-----------------------------------------------------------------------------
(***************************************************************************)
(* Streams: sequences of parts that follow on a part.                      *)
(***************************************************************************)
\* A request has at most one part besides its head.
LEMMA LengthIs == \A q : BodyLength(q) \in 0 .. 1
BY DEF BodyLength

LEMMA PartsAre ==
    ASSUME NEW n \in Nat, NEW q
    PROVE  Parts(n, q) \in Seq(Part)
<1>1. BodyLength(q) + 1 \in Nat
  BY LengthIs
<1>2. \A k \in 1 .. BodyLength(q) + 1 : <<n, k - 1>> \in Part
  BY <1>1 DEF Part
<1>. QED
  BY <1>1, <1>2 DEF Parts

LEMMA EndIsPart ==
    ASSUME NEW asks, NEW n \in Nat
    PROVE  EndOf(asks, n) \in Part /\ EndOf(asks, n)[1] = n
BY LengthIs DEF EndOf, Part

LEMMA BeforeIsTransitive ==
    ASSUME NEW p \in Part, NEW q \in Part, NEW r \in Part, Before(p, q), Before(q, r)
    PROVE  Before(p, r)
BY DEF Before, Part

LEMMA ReachedIs ==
    ASSUME NEW p \in Part, NEW s \in Seq(Part)
    PROVE  /\ Reached(p, s) \in Part
           /\ s = <<>> <=> Len(s) = 0
           /\ Len(s) = 0 => Reached(p, s) = p
           /\ Len(s) # 0 => Reached(p, s) = s[Len(s)]
<1>1. Len(s) \in Nat /\ (s = <<>> <=> Len(s) = 0)
  BY EmptySeq
<1>2. Len(s) # 0 => s[Len(s)] \in Part
  BY <1>1
<1>. QED
  BY <1>1, <1>2 DEF Reached

\* A beginning of a stream is a stream.
LEMMA Prefix ==
    ASSUME NEW asks, NEW p \in Part, NEW s \in Seq(Part), NEW t \in Seq(Part),
           Continues(asks, p, s), Len(t) <= Len(s), \A i \in 1 .. Len(t) : t[i] = s[i]
    PROVE  Continues(asks, p, t)
<1>1. /\ Len(s) \in Nat /\ Len(t) \in Nat
      /\ DOMAIN s = 1 .. Len(s) /\ DOMAIN t = 1 .. Len(t)
  OBVIOUS
<1>2. ASSUME NEW k \in 1 .. Len(t)
      PROVE  /\ t[k] = After(asks, IF k = 1 THEN p ELSE t[k - 1])
             /\ t[k][1] \in DOMAIN asks /\ t[k][2] <= BodyLength(asks[t[k][1]])
             /\ Before(p, t[k])
             /\ \A j \in 1 .. Len(t) : j < k => Before(t[j], t[k])
  <2>1. k \in 1 .. Len(s) /\ t[k] = s[k] /\ (k # 1 => t[k - 1] = s[k - 1])
    BY <1>1
  <2>2. \A j \in 1 .. Len(t) : j \in 1 .. Len(s) /\ t[j] = s[j]
    BY <1>1
  <2>. QED
    BY <1>1, <2>1, <2>2 DEF Continues
<1>. QED
  BY <1>1, <1>2 DEF Continues

\* t is s without its first n parts, and q the part before t.
Dropped(p, s, n, q, t) ==
    /\ n \in 0 .. Len(s) /\ Len(t) = Len(s) - n /\ \A i \in 1 .. Len(t) : t[i] = s[n + i]
    /\ q = IF n = 0 THEN p ELSE s[n]

\* What is left of a stream follows on what was taken off it.
LEMMA Suffix ==
    ASSUME NEW asks, NEW p \in Part, NEW s \in Seq(Part), NEW t \in Seq(Part), NEW n, NEW q,
           Continues(asks, p, s), Dropped(p, s, n, q, t)
    PROVE  q \in Part /\ Continues(asks, q, t) /\ Reached(q, t) = Reached(p, s)
<1>1. /\ Len(s) \in Nat /\ Len(t) \in Nat /\ n \in 0 .. Len(s)
      /\ DOMAIN s = 1 .. Len(s) /\ DOMAIN t = 1 .. Len(t)
      /\ Len(t) = Len(s) - n /\ \A i \in 1 .. Len(t) : t[i] = s[n + i]
      /\ q = IF n = 0 THEN p ELSE s[n]
  BY DEF Dropped
<1>2. q \in Part
  BY <1>1
<1>3. Len(s) \in Nat /\ Len(t) \in Nat /\ n \in Nat /\ n <= Len(s) /\ Len(t) = Len(s) - n
  BY <1>1
<1>4. ASSUME NEW k \in 1 .. Len(t)
      PROVE  /\ t[k] = After(asks, IF k = 1 THEN q ELSE t[k - 1])
             /\ t[k][1] \in DOMAIN asks /\ t[k][2] <= BodyLength(asks[t[k][1]])
             /\ Before(q, t[k])
             /\ \A j \in 1 .. Len(t) : j < k => Before(t[j], t[k])
  <2>1. n + k \in 1 .. Len(s) /\ t[k] = s[n + k]
    BY <1>1
  <2>2. (IF k = 1 THEN q ELSE t[k - 1]) = IF n + k = 1 THEN p ELSE s[n + k - 1]
    <3>1. CASE k = 1 /\ n = 0
      BY <3>1, <1>1
    <3>2. CASE k = 1 /\ n # 0
      BY <3>2, <1>1
    <3>3. CASE k # 1
      <4>1. k - 1 \in 1 .. Len(t) /\ n + (k - 1) = n + k - 1 /\ n + k # 1
        BY <3>3, <1>1
      <4>. QED
        BY <4>1, <3>3, <1>1
    <3>. QED
      BY <3>1, <3>2, <3>3
  <2>3. Before(q, t[k])
    <3>1. CASE n = 0
      BY <3>1, <2>1, <1>1 DEF Continues
    <3>2. CASE n # 0
      <4>1. n \in 1 .. Len(s) /\ n < n + k
        BY <3>2, <1>1
      <4>. QED
        BY <4>1, <3>2, <2>1, <1>1 DEF Continues
    <3>. QED
      BY <3>1, <3>2
  <2>4. \A j \in 1 .. Len(t) : n + j \in 1 .. Len(s) /\ t[j] = s[n + j]
    BY <1>1
  <2>5. \A j \in 1 .. Len(t) : j < k => Before(t[j], t[k])
    <3>. SUFFICES ASSUME NEW j \in 1 .. Len(t), j < k PROVE Before(s[n + j], s[n + k])
      BY <2>1, <2>4
    <3>1. n + j \in DOMAIN s /\ n + k \in DOMAIN s /\ n + j < n + k
      BY <1>1, <2>1, <2>4
    <3>. QED
      BY <3>1 DEF Continues
  <2>6. /\ s[n + k] = After(asks, IF n + k = 1 THEN p ELSE s[n + k - 1])
        /\ s[n + k][1] \in DOMAIN asks /\ s[n + k][2] <= BodyLength(asks[s[n + k][1]])
    BY <1>1, <2>1 DEF Continues
  <2>. QED
    BY <2>1, <2>2, <2>3, <2>5, <2>6
<1>5. Continues(asks, q, t)
  BY <1>1, <1>4 DEF Continues
<1>6. Reached(q, t) = Reached(p, s)
  <2>1. CASE n = Len(s)
    <3>1. Reached(q, t) = q
      <4>1. Len(t) = 0
        BY <2>1, <1>1
      <4>. QED
        BY <4>1, <1>2, ReachedIs
    <3>2. q = Reached(p, s)
      BY <2>1, ReachedIs, <1>1
    <3>. QED
      BY <3>1, <3>2
  <2>2. CASE n < Len(s)
    <3>1. Len(t) \in 1 .. Len(t) /\ n + Len(t) = Len(s) /\ Len(t) # 0 /\ Len(s) # 0
      BY <2>2, <1>3
    <3>2. t[Len(t)] = s[Len(s)]
      BY <3>1, <1>1
    <3>. QED
      BY <3>1, <3>2, <1>2, ReachedIs
  <2>. QED
    BY <2>1, <2>2, <1>3
<1>. QED
  BY <1>2, <1>5, <1>6

\* A stream and one that follows on it are one stream.
LEMMA Join ==
    ASSUME NEW asks, NEW p \in Part, NEW s \in Seq(Part), NEW t \in Seq(Part),
           Continues(asks, p, s), Continues(asks, Reached(p, s), t)
    PROVE  /\ s \o t \in Seq(Part) /\ Continues(asks, p, s \o t)
           /\ Reached(p, s \o t) = Reached(Reached(p, s), t)
<1>. DEFINE u == s \o t
            r == Reached(p, s)
<1>1. /\ Len(s) \in Nat /\ Len(t) \in Nat
      /\ DOMAIN s = 1 .. Len(s) /\ DOMAIN t = 1 .. Len(t)
  OBVIOUS
<1>2. /\ u \in Seq(Part) /\ Len(u) = Len(s) + Len(t) /\ DOMAIN u = 1 .. Len(u)
      /\ \A i \in 1 .. Len(s) : u[i] = s[i]
      /\ \A i \in 1 .. Len(t) : u[Len(s) + i] = t[i]
  BY <1>1, ConcatProperties
<1>3. /\ r \in Part /\ (Len(s) = 0 => r = p) /\ (Len(s) # 0 => r = s[Len(s)])
  BY ReachedIs
<1>. HIDE DEF u, r
<1>4. ASSUME NEW k \in 1 .. Len(s)
      PROVE  /\ u[k] = After(asks, IF k = 1 THEN p ELSE u[k - 1])
             /\ u[k][1] \in DOMAIN asks /\ u[k][2] <= BodyLength(asks[u[k][1]])
             /\ Before(p, u[k])
             /\ \A j \in 1 .. Len(s) : j < k => Before(u[j], u[k])
  <2>1. u[k] = s[k] /\ (k # 1 => u[k - 1] = s[k - 1])
    BY <1>1, <1>2
  <2>. QED
    BY <1>1, <1>2, <2>1 DEF Continues
<1>5. ASSUME NEW k \in 1 .. Len(t)
      PROVE  /\ u[Len(s) + k] = After(asks, IF Len(s) + k = 1 THEN p ELSE u[Len(s) + k - 1])
             /\ t[k][1] \in DOMAIN asks /\ t[k][2] <= BodyLength(asks[t[k][1]])
             /\ Before(r, t[k]) /\ Before(p, t[k])
             /\ \A j \in 1 .. Len(s) : Before(s[j], t[k])
             /\ \A j \in 1 .. Len(t) : j < k => Before(t[j], t[k])
  <2>1. u[Len(s) + k] = t[k] /\ t[k] \in Part
    BY <1>1, <1>2
  <2>2. /\ t[k] = After(asks, IF k = 1 THEN r ELSE t[k - 1])
        /\ t[k][1] \in DOMAIN asks /\ t[k][2] <= BodyLength(asks[t[k][1]])
        /\ Before(r, t[k])
        /\ \A j \in 1 .. Len(t) : j < k => Before(t[j], t[k])
    BY <1>1 DEF Continues, r
  <2>3. (IF Len(s) + k = 1 THEN p ELSE u[Len(s) + k - 1]) = IF k = 1 THEN r ELSE t[k - 1]
    <3>1. CASE k = 1 /\ Len(s) = 0
      BY <3>1, <1>3
    <3>2. CASE k = 1 /\ Len(s) # 0
      <4>1. Len(s) \in 1 .. Len(s) /\ Len(s) + k - 1 = Len(s) /\ Len(s) + k # 1
        BY <3>2, <1>1
      <4>. QED
        BY <4>1, <3>2, <1>2, <1>3
    <3>3. CASE k # 1
      <4>1. k - 1 \in 1 .. Len(t) /\ Len(s) + (k - 1) = Len(s) + k - 1 /\ Len(s) + k # 1
        BY <3>3, <1>1
      <4>2. u[Len(s) + (k - 1)] = t[k - 1]
        BY <4>1, <1>2
      <4>. QED
        BY <4>1, <4>2, <3>3
    <3>. QED
      BY <3>1, <3>2, <3>3
  <2>4. \A j \in 1 .. Len(s) : Before(s[j], t[k])
    <3>. SUFFICES ASSUME NEW j \in 1 .. Len(s) PROVE Before(s[j], t[k])
      OBVIOUS
    <3>1. s[j] = r \/ Before(s[j], r)
      <4>1. Len(s) # 0 /\ Len(s) \in 1 .. Len(s) /\ (j = Len(s) \/ j < Len(s))
        <5>. PICK n \in Nat : n = Len(s)
          BY <1>1
        <5>. QED
          OBVIOUS
      <4>2. Len(s) \in DOMAIN s /\ j \in DOMAIN s
        BY <4>1, <1>1
      <4>. QED
        BY <4>1, <4>2, <1>3 DEF Continues
    <3>2. s[j] \in Part
      BY <1>1
    <3>. QED
      BY <3>1, <3>2, <2>1, <2>2, <1>3, BeforeIsTransitive
  <2>5. Before(p, t[k])
    <3>1. p = r \/ Before(p, r)
      BY <1>1, <1>3 DEF Continues
    <3>. QED
      BY <3>1, <2>1, <2>2, <1>3, BeforeIsTransitive
  <2>. QED
    BY <2>1, <2>2, <2>3, <2>4, <2>5
<1>6. ASSUME NEW k \in 1 .. Len(u)
      PROVE  /\ u[k] = After(asks, IF k = 1 THEN p ELSE u[k - 1])
             /\ u[k][1] \in DOMAIN asks /\ u[k][2] <= BodyLength(asks[u[k][1]])
             /\ Before(p, u[k])
             /\ \A j \in 1 .. Len(u) : j < k => Before(u[j], u[k])
  <2>1. CASE k <= Len(s)
    <3>1. k \in 1 .. Len(s) /\ \A j \in 1 .. Len(u) : j < k => j \in 1 .. Len(s)
      BY <2>1, <1>1, <1>2
    <3>. QED
      BY <3>1, <1>4
  <2>2. CASE k > Len(s)
    <3>. DEFINE m == k - Len(s)
    <3>1. m \in 1 .. Len(t) /\ k = Len(s) + m
      BY <2>2, <1>1, <1>2
    <3>. HIDE DEF m
    <3>2. u[k] = t[m]
      BY <3>1, <1>2
    <3>3. ASSUME NEW j \in 1 .. Len(u), j < k PROVE Before(u[j], u[k])
      <4>1. CASE j <= Len(s)
        <5>1. j \in 1 .. Len(s) /\ u[j] = s[j]
          BY <4>1, <1>1, <1>2
        <5>. QED
          BY <5>1, <3>1, <3>2, <1>5
      <4>2. CASE j > Len(s)
        <5>1. PICK i \in 1 .. Len(t) : j = Len(s) + i /\ i < m
          <6>1. j - Len(s) \in 1 .. Len(t) /\ j = Len(s) + (j - Len(s)) /\ j - Len(s) < m
            BY <3>1, <3>3, <4>2, <1>1, <1>2
          <6>. QED
            BY <6>1
        <5>2. u[j] = t[i]
          BY <5>1, <1>2
        <5>. QED
          BY <5>1, <5>2, <3>1, <3>2, <1>5
      <4>. QED
        BY <4>1, <4>2, <1>1
    <3>. QED
      BY <3>1, <3>2, <3>3, <1>5
  <2>. QED
    BY <2>1, <2>2, <1>1, <1>2
<1>7. Continues(asks, p, u)
  BY <1>2, <1>6 DEF Continues
<1>8. Reached(p, u) = Reached(r, t)
  <2>1. CASE Len(t) = 0
    <3>1. Len(u) = Len(s)
      BY <2>1, <1>1, <1>2
    <3>2. Len(s) # 0 => u[Len(u)] = s[Len(s)]
      BY <3>1, <1>1, <1>2
    <3>3. Reached(r, t) = r
      BY <2>1, <1>3, ReachedIs
    <3>. QED
      BY <3>1, <3>2, <3>3, <1>2, <1>3, ReachedIs
  <2>2. CASE Len(t) # 0
    <3>1. Len(t) \in 1 .. Len(t) /\ Len(u) # 0
      BY <2>2, <1>1, <1>2
    <3>2. u[Len(u)] = t[Len(t)]
      BY <3>1, <1>2
    <3>3. Reached(r, t) = t[Len(t)]
      BY <2>2, <1>3, ReachedIs
    <3>. QED
      BY <3>1, <3>2, <3>3, <1>2, ReachedIs
  <2>. QED
    BY <2>1, <2>2
<1>. QED
  BY <1>2, <1>7, <1>8 DEF u, r

\* A request, head and body, follows on the one before it.
LEMMA Whole ==
    ASSUME NEW asks \in Seq(Requests), NEW n \in 1 .. Len(asks)
    PROVE  /\ Parts(n, asks[n]) \in Seq(Part)
           /\ Continues(asks, EndOf(asks, n - 1), Parts(n, asks[n]))
           /\ Reached(EndOf(asks, n - 1), Parts(n, asks[n])) = EndOf(asks, n)
<1>. DEFINE b == BodyLength(asks[n])
            s == Parts(n, asks[n])
            e == EndOf(asks, n - 1)
<1>1. n \in Nat /\ n # 0 /\ n \in DOMAIN asks /\ b \in 0 .. 1
  BY LengthIs
<1>2. /\ s = [k \in 1 .. b + 1 |-> <<n, k - 1>>]
      /\ e \in Part /\ e[1] = n - 1 /\ After(asks, e) = <<n, 0>>
      /\ EndOf(asks, n) = <<n, b>>
  <2>1. e \in Part /\ e[1] = n - 1
    BY <1>1, EndIsPart
  <2>. QED
    BY <1>1, <2>1 DEF After, EndOf, Parts
<1>. HIDE DEF b, s, e
<1>3. /\ \A k \in 1 .. b + 1 : <<n, k - 1>> \in Part
      /\ \A k \in 1 .. b + 1 : s[k] = <<n, k - 1>>
  BY <1>1, <1>2 DEF Part
<1>4. s \in Seq(Part) /\ Len(s) = b + 1 /\ DOMAIN s = 1 .. b + 1
  BY <1>1, <1>2, <1>3
<1>5. ASSUME NEW k \in 1 .. b + 1
      PROVE  /\ s[k] = After(asks, IF k = 1 THEN e ELSE s[k - 1])
             /\ s[k][1] \in DOMAIN asks /\ s[k][2] <= BodyLength(asks[s[k][1]])
             /\ Before(e, s[k])
             /\ \A j \in 1 .. b + 1 : j < k => Before(s[j], s[k])
  <2>1. s[k] = <<n, k - 1>> /\ s[k][1] = n /\ s[k][2] = k - 1 /\ k - 1 <= b
    BY <1>1, <1>3
  <2>2. Before(e, s[k])
    BY <2>1, <1>1, <1>2 DEF Before
  <2>3. ASSUME NEW j \in 1 .. b + 1, j < k
        PROVE  Before(s[j], s[k])
    <3>1. s[j] = <<n, j - 1>> /\ s[j][1] = n /\ s[j][2] = j - 1
      BY <1>3
    <3>2. j - 1 < k - 1
      BY <2>3, <1>1
    <3>. QED
      BY <3>1, <3>2, <2>1 DEF Before
  <2>4. s[k] = After(asks, IF k = 1 THEN e ELSE s[k - 1])
    <3>1. CASE k = 1
      BY <3>1, <2>1, <1>2
    <3>2. CASE k # 1
      <4>1. k = 2 /\ b = 1 /\ s[1] = <<n, 0>>
        BY <3>2, <1>1, <1>3
      <4>2. After(asks, <<n, 0>>) = <<n, 1>>
        BY <4>1, <1>2 DEF After
      <4>. QED
        BY <4>1, <4>2, <2>1, SMTT(20)
    <3>. QED
      BY <3>1, <3>2
  <2>. QED
    BY <2>1, <2>2, <2>3, <2>4, <1>1 DEF b
<1>6. Continues(asks, e, s)
  BY <1>4, <1>5 DEF Continues
<1>7. Reached(e, s) = EndOf(asks, n)
  <2>1. Len(s) # 0 /\ s[Len(s)] = <<n, b>>
    BY <1>1, <1>3, <1>4
  <2>. QED
    BY <2>1, <1>2, <1>4, ReachedIs
<1>. QED
  BY <1>4, <1>6, <1>7 DEF s, e

\* What more the client sends changes nothing of what it has sent.
LEMMA Grown ==
    ASSUME NEW asks \in Seq(Requests), NEW more \in Seq(Requests), Len(asks) <= Len(more),
           \A n \in 1 .. Len(asks) : more[n] = asks[n]
    PROVE  /\ \A n \in 0 .. Len(asks) : EndOf(more, n) = EndOf(asks, n)
           /\ \A p \in Part, s \in Seq(Part) :
                p[1] <= Len(asks) /\ Continues(asks, p, s) => Continues(more, p, s)
<1>1. /\ Len(asks) \in Nat /\ Len(more) \in Nat
      /\ DOMAIN asks = 1 .. Len(asks) /\ DOMAIN more = 1 .. Len(more)
  OBVIOUS
<1>2. \A n \in 0 .. Len(asks) : EndOf(more, n) = EndOf(asks, n)
  BY <1>1 DEF EndOf
<1>3. \A p \in Part : p[1] <= Len(asks) => After(more, p) = After(asks, p)
  <2>1. \A p \in Part : p[1] \in Nat
    BY DEF Part
  <2>. QED
    BY <1>1, <1>2, <2>1 DEF After
<1>4. ASSUME NEW p \in Part, NEW s \in Seq(Part), p[1] <= Len(asks), Continues(asks, p, s)
      PROVE  Continues(more, p, s)
  <2>1. DOMAIN s = 1 .. Len(s) /\ Len(s) \in Nat
    OBVIOUS
  <2>2. ASSUME NEW k \in 1 .. Len(s)
        PROVE  /\ s[k] = After(more, IF k = 1 THEN p ELSE s[k - 1])
               /\ s[k][1] \in DOMAIN more /\ s[k][2] <= BodyLength(more[s[k][1]])
    <3>1. /\ s[k] = After(asks, IF k = 1 THEN p ELSE s[k - 1])
          /\ s[k][1] \in DOMAIN asks /\ s[k][2] <= BodyLength(asks[s[k][1]])
      BY <1>4, <2>1 DEF Continues
    <3>2. k # 1 => s[k - 1] \in Part /\ s[k - 1][1] \in DOMAIN asks
      BY <1>4, <2>1 DEF Continues
    <3>3. After(more, IF k = 1 THEN p ELSE s[k - 1]) = After(asks, IF k = 1 THEN p ELSE s[k - 1])
      BY <1>1, <1>3, <1>4, <3>2
    <3>4. s[k][1] \in DOMAIN more /\ more[s[k][1]] = asks[s[k][1]]
      BY <1>1, <3>1
    <3>. QED
      BY <3>1, <3>3, <3>4
  <2>. QED
    BY <1>4, <2>1, <2>2 DEF Continues
<1>. QED
  BY <1>2, <1>4

-----------------------------------------------------------------------------
(***************************************************************************)
(* Replies.                                                                *)
(***************************************************************************)
\* The reply to the request after those that have theirs.
LEMMA ReplyNext ==
    ASSUME NEW o \in Seq(Replies), NEW n \in Nat \ {0}, NEW r \in Replies, r.to = n,
           Replied(o, n - 1), Ordered(o),
           r.what = "refused" \/ \A k \in DOMAIN o : o[k].what # "cut"
    PROVE  /\ Append(o, r) \in Seq(Replies) /\ Ordered(Append(o, r))
           /\ r.what \in {"whole", "cut"} => Replied(Append(o, r), n)
           /\ r.what = "chunk" => InPart(Append(o, r), n)
<1>. DEFINE u == Append(o, r)
<1>1. /\ Len(o) \in Nat /\ DOMAIN o = 1 .. Len(o)
      /\ \A k \in 1 .. Len(o) : o[k].to \in Nat
  <2>1. \A k \in 1 .. Len(o) : o[k] \in Replies
    OBVIOUS
  <2>2. \A x \in Replies : x.to \in Nat
    BY DEF Replies
  <2>. QED
    BY <2>1, <2>2
<1>2. /\ u \in Seq(Replies) /\ DOMAIN u = 1 .. Len(o) + 1
      /\ \A k \in 1 .. Len(o) : u[k] = o[k]
      /\ u[Len(o) + 1] = r
  BY <1>1, AppendProperties
<1>. HIDE DEF u
<1>3. \A k \in 1 .. Len(o) : u[k].to < n /\ u[k].what \in {"whole", "cut"}
  BY <1>1, <1>2 DEF Replied
<1>4. ReachTo(u, n)
  <2>1. \A m \in 1 .. n : m \in 1 .. n - 1 \/ m = n
    OBVIOUS
  <2>2. \A m \in 1 .. n - 1 : \E k \in DOMAIN u : u[k].to = m
    BY <1>1, <1>2, SMTT(20) DEF Replied, ReachTo
  <2>3. \E k \in DOMAIN u : u[k].to = n
    BY <1>1, <1>2
  <2>. QED
    BY <2>1, <2>2, <2>3 DEF ReachTo
<1>5. Ordered(u)
  <2>1. ASSUME NEW j \in DOMAIN u, NEW k \in DOMAIN u, j < k
        PROVE  \/ u[j].to < u[k].to /\ u[j].what = "whole"
               \/ u[j].to < u[k].to /\ u[j].what = "cut" /\ u[k].what = "refused"
               \/ u[j].to = u[k].to /\ u[j].what = "chunk"
    <3>1. j \in 1 .. Len(o)
      BY <2>1, <1>1, <1>2
    <3>2. CASE k \in 1 .. Len(o)
      BY <2>1, <3>1, <3>2, <1>1, <1>2 DEF Ordered
    <3>3. CASE k = Len(o) + 1
      BY <3>1, <3>3, <1>2, <1>3
    <3>. QED
      BY <3>2, <3>3, <1>1, <1>2
  <2>2. ASSUME NEW k \in DOMAIN u, NEW m \in 1 .. u[k].to
        PROVE  \E j \in DOMAIN u : u[j].to = m
    <3>1. u[k].to \in Nat /\ u[k].to <= n
      BY <1>1, <1>2, <1>3
    <3>2. m \in 1 .. n
      BY <3>1
    <3>. QED
      BY <3>2, <1>4 DEF ReachTo
  <2>. QED
    BY <2>1, <2>2 DEF Ordered
<1>6. r.what \in {"whole", "cut"} => Replied(u, n)
  BY <1>1, <1>2, <1>3, <1>4 DEF Replied
<1>7. r.what = "chunk" => InPart(u, n)
  BY <1>1, <1>2, <1>3, <1>4 DEF InPart
<1>. QED
  BY <1>2, <1>5, <1>6, <1>7 DEF u

\* More of the reply that has begun.
LEMMA ReplyMore ==
    ASSUME NEW o \in Seq(Replies), NEW n \in Nat \ {0}, NEW r \in Replies, r.to = n,
           InPart(o, n), Ordered(o)
    PROVE  /\ Append(o, r) \in Seq(Replies) /\ Ordered(Append(o, r))
           /\ r.what = "chunk" => InPart(Append(o, r), n)
<1>. DEFINE u == Append(o, r)
<1>1. /\ Len(o) \in Nat /\ DOMAIN o = 1 .. Len(o)
      /\ \A k \in 1 .. Len(o) : o[k].to \in Nat
  <2>1. \A k \in 1 .. Len(o) : o[k] \in Replies
    OBVIOUS
  <2>2. \A x \in Replies : x.to \in Nat
    BY DEF Replies
  <2>. QED
    BY <2>1, <2>2
<1>2. /\ u \in Seq(Replies) /\ DOMAIN u = 1 .. Len(o) + 1
      /\ \A k \in 1 .. Len(o) : u[k] = o[k]
      /\ u[Len(o) + 1] = r
  BY <1>1, AppendProperties
<1>. HIDE DEF u
<1>3. \A k \in 1 .. Len(o) : \/ u[k].to < n /\ u[k].what = "whole"
                             \/ u[k].to = n /\ u[k].what = "chunk"
  BY <1>1, <1>2 DEF InPart
<1>4. ReachTo(u, n)
  BY <1>1, <1>2, SMTT(20) DEF InPart, ReachTo
<1>5. Ordered(u)
  <2>1. ASSUME NEW j \in DOMAIN u, NEW k \in DOMAIN u, j < k
        PROVE  \/ u[j].to < u[k].to /\ u[j].what = "whole"
               \/ u[j].to < u[k].to /\ u[j].what = "cut" /\ u[k].what = "refused"
               \/ u[j].to = u[k].to /\ u[j].what = "chunk"
    <3>1. j \in 1 .. Len(o)
      BY <2>1, <1>1, <1>2
    <3>2. CASE k \in 1 .. Len(o)
      BY <2>1, <3>1, <3>2, <1>1, <1>2 DEF Ordered
    <3>3. CASE k = Len(o) + 1
      BY <3>1, <3>3, <1>2, <1>3
    <3>. QED
      BY <3>2, <3>3, <1>1, <1>2
  <2>2. ASSUME NEW k \in DOMAIN u, NEW m \in 1 .. u[k].to
        PROVE  \E j \in DOMAIN u : u[j].to = m
    <3>1. u[k].to \in Nat /\ u[k].to <= n
      BY <1>1, <1>2, <1>3
    <3>2. m \in 1 .. n
      BY <3>1
    <3>. QED
      BY <3>2, <1>4 DEF ReachTo
  <2>. QED
    BY <2>1, <2>2 DEF Ordered
<1>6. r.what = "chunk" => InPart(u, n)
  BY <1>1, <1>2, <1>3, <1>4 DEF InPart
<1>. QED
  BY <1>2, <1>5, <1>6 DEF u

-----------------------------------------------------------------------------
(***************************************************************************)
(* Types.                                                                  *)
(***************************************************************************)
Typed ==
    /\ asked \in [Conns -> Seq(Requests)] /\ hung \subseteq Conns /\ pc \in [Conns -> States]
    /\ reply \in [Conns -> {"length", "chunked", "101", None}]
    /\ container \in [{Mutator, Gateway} -> {"none", "created", "running", "removed"}]
    /\ WireTyped

\* What does not write to a stream, to the replies or to the containers.
LEMMA SaysTyped ==
    ASSUME Typed, NEW c \in Conns, NEW n \in Nat,
           NEW w \in {"refused", "whole", "cut", "chunk", "last", "101"}, Say(c, n, w)
    PROVE  out' \in [Conns -> Seq(Replies)]
<1>1. out[c] \in Seq(Replies) /\ [to |-> n, what |-> w] \in Replies
  BY DEF Typed, WireTyped, Replies
<1>2. Append(out[c], [to |-> n, what |-> w]) \in Seq(Replies)
  BY <1>1
<1>. QED
  BY <1>2 DEF Say, Typed, WireTyped

LEMMA CloseTyped ==
    ASSUME Typed, NEW c \in Conns, Close(c), out' \in [Conns -> Seq(Replies)]
    PROVE  Typed'
<1>1. <<>> \in Seq(Part)
  OBVIOUS
<1>. QED
  BY <1>1 DEF Close, Goto, Typed, WireTyped, States

LEMMA ClientTyped ==
    ASSUME Typed, NEW c \in Conns, (\E q \in Requests : Send(c, q)) \/ HangUp(c)
    PROVE  Typed'
<1>1. ASSUME NEW q \in Requests, Send(c, q) PROVE Typed'
  <2>1. Append(asked[c], q) \in Seq(Requests)
    BY DEF Typed
  <2>2. asked' \in [Conns -> Seq(Requests)] /\ asked'[c] = Append(asked[c], q)
    BY <1>1, <2>1 DEF Send, Typed
  <2>3. PICK n \in Nat : n = Len(asked'[c])
    BY <2>2
  <2>4. Parts(n, q) \in Seq(Part)
    BY PartsAre
  <2>5. net[c] \o Parts(n, q) \in Seq(Part)
    BY <2>4 DEF Typed, WireTyped
  <2>6. net' \in [Conns -> Seq(Part)]
    BY <1>1, <2>3, <2>5 DEF Send, Typed, WireTyped
  <2>. QED
    BY <1>1, <2>2, <2>6 DEF Send, thread, docker, Typed, WireTyped
<1>2. ASSUME HangUp(c) PROVE Typed'
  <2>1. net[c] # <<>> => Front(net[c]) \in Seq(Part)
    BY DEF Typed, WireTyped, Front
  <2>2. net' \in [Conns -> Seq(Part)]
    BY <1>2, <2>1 DEF HangUp, Typed, WireTyped
  <2>. QED
    BY <1>2, <2>2 DEF HangUp, thread, docker, Typed, WireTyped
<1>. QED
  BY <1>1, <1>2

LEMMA StreamTyped ==
    ASSUME Typed, NEW c \in Conns,
           Accept(c) \/ Receive(c) \/ ParseHead(c) \/ Decide(c) \/ Lookup(c) \/ Forward(c) \/ Pump(c)
    PROVE  Typed'
<1>0. BodyLength(Asked(c, cur[c])) \in 0 .. 1
  BY LengthIs
<1>. USE DEF client, docker, Goto, States, Typed, WireTyped
<1>1. /\ buf[c] \in Seq(Part) /\ net[c] \in Seq(Part) /\ got[c] \in Seq(Part)
      /\ cur[c] \in Nat /\ approved[c] \in SUBSET Nat
  OBVIOUS
<1>2. CASE Accept(c)
  BY <1>2 DEF Accept
<1>3. CASE Receive(c)
  <2>1. PICK k \in 1 .. Len(net[c]) :
          /\ buf' = [buf EXCEPT ![c] = @ \o SubSeq(net[c], 1, k)]
          /\ net' = [net EXCEPT ![c] = SubSeq(@, k + 1, Len(@))]
    BY <1>3 DEF Receive
  <2>2. SubSeq(net[c], 1, k) \in Seq(Part) /\ SubSeq(net[c], k + 1, Len(net[c])) \in Seq(Part)
    BY <1>1
  <2>3. buf[c] \o SubSeq(net[c], 1, k) \in Seq(Part)
    BY <1>1, <2>2
  <2>4. buf' \in [Conns -> Seq(Part)] /\ net' \in [Conns -> Seq(Part)]
    BY <2>1, <2>2, <2>3
  <2>. QED
    BY <1>3, <2>4 DEF Receive
<1>4. CASE ParseHead(c)
  <2>1. Head(buf[c]) \in Part /\ Tail(buf[c]) \in Seq(Part)
    BY <1>1, <1>4 DEF ParseHead
  <2>2. Head(buf[c])[1] \in Nat
    BY <2>1 DEF Part
  <2>3. buf' \in [Conns -> Seq(Part)] /\ cur' \in [Conns -> Nat]
    BY <1>4, <2>1, <2>2 DEF ParseHead
  <2>. QED
    BY <1>4, <2>3 DEF ParseHead
<1>5. CASE Decide(c)
  <2>1. Rest(c) \in Seq(Part)
    <3>1. BodyLength(Asked(c, cur[c])) + 1 \in Nat \ {0}
      BY <1>0
    <3>. QED
      BY <1>1, <3>1 DEF Rest
  <2>2. buf' \in [Conns -> Seq(Part)]
    BY <1>5, <2>1 DEF Decide
  <2>3. approved' \in [Conns -> SUBSET Nat] /\ pc' \in [Conns -> States]
    <3>1. approved[c] \cup {cur[c]} \in SUBSET Nat
      BY <1>1
    <3>2. CASE Asked(c, cur[c]).target # None
      BY <1>5, <3>2 DEF Decide
    <3>3. CASE Asked(c, cur[c]).target = None
      BY <1>5, <3>1, <3>3 DEF Decide
    <3>. QED
      BY <3>2, <3>3
  <2>. QED
    BY <1>5, <2>2, <2>3 DEF Decide
<1>6. CASE Lookup(c)
  BY <1>1, <1>6 DEF Lookup
<1>7. CASE Forward(c)
  <2>1. Parts(cur[c], Asked(c, cur[c])) \in Seq(Part)
    BY <1>1, PartsAre
  <2>2. got[c] \o Parts(cur[c], Asked(c, cur[c])) \in Seq(Part)
    BY <1>1, <2>1
  <2>3. got' \in [Conns -> Seq(Part)]
    BY <1>7, <2>2 DEF Forward
  <2>. QED
    BY <1>7, <2>3 DEF Forward
<1>8. CASE Pump(c)
  <2>1. got[c] \o net[c] \in Seq(Part) /\ <<>> \in Seq(Part)
    BY <1>1
  <2>2. got' \in [Conns -> Seq(Part)] /\ net' \in [Conns -> Seq(Part)]
    BY <1>8, <2>1 DEF Pump
  <2>. QED
    BY <1>8, <2>2 DEF Pump, thread
<1>. QED
  BY <1>2, <1>3, <1>4, <1>5, <1>6, <1>7, <1>8

LEMMA RepliesTyped ==
    ASSUME Typed, NEW c \in Conns,
           \/ EndOfStream(c) \/ RefuseHead(c) \/ DecideNot(c) \/ LookupNot(c)
           \/ Relay(c) \/ RelayCut(c) \/ RelayHead(c) \/ RelayChunk(c) \/ RelayLast(c)
           \/ Upgrade(c) \/ PipeEnds(c) \/ ClientGone(c) \/ UpstreamFails(c) \/ UpstreamGone(c)
    PROVE  Typed'
<1>1. cur[c] \in Nat /\ buf[c] \in Seq(Part) /\ got[c] \in Seq(Part)
  BY DEF Typed, WireTyped
<1>2. CASE EndOfStream(c) \/ PipeEnds(c) \/ ClientGone(c) \/ UpstreamFails(c) \/ UpstreamGone(c)
  <2>1. Close(c) /\ out' = out
    BY <1>2 DEF EndOfStream, PipeEnds, ClientGone, UpstreamFails, UpstreamGone
  <2>. QED
    BY <2>1, CloseTyped DEF Typed, WireTyped
<1>3. CASE RefuseHead(c)
  <2>1. Head(buf[c]) \in Part
    BY <1>1, <1>3 DEF RefuseHead
  <2>2. Head(buf[c])[1] \in Nat
    BY <2>1 DEF Part
  <2>3. Close(c) /\ Say(c, Head(buf[c])[1], "refused")
    BY <1>3 DEF RefuseHead, Refuse
  <2>. QED
    BY <2>2, <2>3, CloseTyped, SaysTyped
<1>4. CASE DecideNot(c) \/ LookupNot(c) \/ RelayLast(c)
  <2>1. Close(c) /\ (Say(c, cur[c], "refused") \/ Say(c, cur[c], "last"))
    BY <1>4 DEF DecideNot, LookupNot, RelayLast, Refuse
  <2>. QED
    BY <1>1, <2>1, CloseTyped, SaysTyped
<1>5. CASE Relay(c) \/ RelayCut(c)
  <2>1. out' \in [Conns -> Seq(Replies)]
    BY <1>1, <1>5, SaysTyped DEF Relay, RelayCut
  <2>2. CASE Close(c)
    BY <2>1, <2>2, CloseTyped
  <2>3. CASE ~Close(c)
    BY <1>5, <2>1, <2>3 DEF Relay, RelayCut, client, Goto, States, Typed, WireTyped
  <2>. QED
    BY <2>2, <2>3
<1>6. CASE RelayHead(c)
  <2>1. out' \in [Conns -> Seq(Replies)]
    BY <1>1, <1>6, SaysTyped DEF RelayHead
  <2>. QED
    BY <1>6, <2>1 DEF RelayHead, client, docker, Goto, States, Typed, WireTyped
<1>7. CASE RelayChunk(c)
  <2>1. out' \in [Conns -> Seq(Replies)]
    BY <1>1, <1>7, SaysTyped DEF RelayChunk
  <2>. QED
    BY <1>7, <2>1 DEF RelayChunk, client, thread, docker, Typed, WireTyped
<1>8. CASE Upgrade(c)
  <2>1. out' \in [Conns -> Seq(Replies)]
    BY <1>1, <1>8, SaysTyped DEF Upgrade
  <2>2. got[c] \o buf[c] \in Seq(Part) /\ <<>> \in Seq(Part)
    BY <1>1
  <2>3. got' \in [Conns -> Seq(Part)] /\ buf' \in [Conns -> Seq(Part)]
    BY <1>8, <2>2 DEF Upgrade, Typed, WireTyped
  <2>. QED
    BY <1>8, <2>1, <2>3 DEF Upgrade, client, Goto, States, Typed, WireTyped
<1>. QED
  BY <1>2, <1>3, <1>4, <1>5, <1>6, <1>7, <1>8

LEMMA DockerTyped ==
    ASSUME Typed, (\E c \in Conns : Perform(c)) \/ Exit
    PROVE  Typed'
<1>1. ASSUME NEW c \in Conns, Perform(c) PROVE Typed'
  <2>1. reply' \in [Conns -> {"length", "chunked", "101", None}]
    BY <1>1 DEF Perform, Answers, Typed
  <2>2. container' \in [{Mutator, Gateway} -> {"none", "created", "running", "removed"}]
    BY <1>1 DEF Perform, Typed
  <2>. QED
    BY <1>1, <2>1, <2>2 DEF Perform, client, thread, Typed, WireTyped
<1>2. ASSUME Exit PROVE Typed'
  BY <1>2 DEF Exit, client, thread, Typed, WireTyped
<1>. QED
  BY <1>1, <1>2

-----------------------------------------------------------------------------
(***************************************************************************)
(* One connection at a time.                                               *)
(***************************************************************************)
ReplyOK(c) == reply[c] # None => pc[c] \in {"reply", "chunks"}

Conn(c) == StreamOK(c) /\ CurOK(c) /\ ApprovedOK(c) /\ GotOK(c) /\ RepliesOK(c) /\ ReplyOK(c)

LEMMA TypesAt ==
    ASSUME Typed, NEW c \in Conns
    PROVE  /\ asked[c] \in Seq(Requests) /\ pc[c] \in States
           /\ net[c] \in Seq(Part) /\ buf[c] \in Seq(Part) /\ got[c] \in Seq(Part)
           /\ cur[c] \in Nat /\ approved[c] \in SUBSET Nat /\ out[c] \in Seq(Replies)
BY DEF Typed, WireTyped

LEMMA InvIs == ProxyInv <=> Typed /\ \A c \in Conns : Conn(c)
<1>1. ProxyInv => Typed /\ \A c \in Conns : Conn(c)
  BY DEF ProxyInv, TypeOK, Typed, Conn, ReplyOK
<1>2. ASSUME Typed, \A c \in Conns : Conn(c) PROVE ProxyInv
  <2>1. ASSUME NEW c \in Conns
        PROVE  /\ cur[c] \in 0 .. Len(asked[c]) /\ approved[c] \subseteq DOMAIN asked[c]
               /\ \A k \in DOMAIN out[c] : out[c][k].to \in DOMAIN asked[c]
               /\ reply[c] # None => pc[c] \in {"reply", "chunks"}
    <3>1. /\ Len(asked[c]) \in Nat /\ DOMAIN asked[c] = 1 .. Len(asked[c]) /\ cur[c] \in Nat
          /\ approved[c] \in SUBSET Nat
      BY <1>2, TypesAt
    <3>2. CurOK(c) /\ ApprovedOK(c) /\ RepliesOK(c) /\ ReplyOK(c)
      BY <1>2 DEF Conn
    <3>3. cur[c] <= Len(asked[c]) /\ \A n \in approved[c] : n \in 1 .. cur[c]
      BY <3>2 DEF CurOK, ApprovedOK
    <3>4. approved[c] \subseteq DOMAIN asked[c]
      BY <3>1, <3>3
    <3>. QED
      BY <3>1, <3>2, <3>3, <3>4 DEF RepliesOK, ReplyOK
  <2>2. TypeOK
    BY <1>2, <2>1 DEF TypeOK, Typed
  <2>. QED
    BY <1>2, <2>2 DEF ProxyInv, Typed, Conn
<1>. QED
  BY <1>1, <1>2

\* Nothing happens on the connection d.
Apart(d) ==
    /\ asked'[d] = asked[d] /\ net'[d] = net[d] /\ (d \in hung' <=> d \in hung)
    /\ pc'[d] = pc[d] /\ buf'[d] = buf[d] /\ cur'[d] = cur[d] /\ approved'[d] = approved[d]
    /\ got'[d] = got[d] /\ reply'[d] = reply[d] /\ out'[d] = out[d]

LEMMA ApartKeeps ==
    ASSUME NEW d \in Conns, Conn(d), Apart(d)
    PROVE  Conn(d)'
<1>. USE DEF Apart
<1>1. Used(d)' = Used(d) /\ Forwarded(d)' = Forwarded(d) /\ UpgradedAt(d)' = UpgradedAt(d)
  BY DEF Used, Forwarded, UpgradedAt
<1>2. StreamOK(d)'
  BY <1>1 DEF Conn, StreamOK
<1>3. CurOK(d)' /\ ApprovedOK(d)' /\ ReplyOK(d)'
  BY DEF Conn, CurOK, ApprovedOK, ReplyOK, Asked
<1>4. GotOK(d)'
  BY <1>1 DEF Conn, GotOK
<1>5. RepliesOK(d)'
  BY DEF Conn, RepliesOK, Cut
<1>. QED
  BY <1>2, <1>3, <1>4, <1>5 DEF Conn

\* A thread, its client and its upstream touch one connection only.
Turn(c) == \A d \in Conns \ {c} : Apart(d)

LEMMA TurnIs ==
    ASSUME Typed, NEW c \in Conns,
           \/ Handle(c) \/ RelayChunk(c) \/ RelayCut(c) \/ UpstreamFails(c) \/ Perform(c)
           \/ HangUp(c) \/ \E q \in Requests : Send(c, q)
    PROVE  Turn(c)
<1>. USE DEF Turn, Apart, Typed, WireTyped, client, thread, docker, Goto, Say
<1>1. Close(c) =>
        \A d \in Conns \ {c} :
           /\ asked'[d] = asked[d] /\ net'[d] = net[d] /\ (d \in hung' <=> d \in hung)
           /\ pc'[d] = pc[d] /\ buf'[d] = buf[d] /\ cur'[d] = cur[d] /\ approved'[d] = approved[d]
           /\ got'[d] = got[d] /\ reply'[d] = reply[d]
  BY DEF Close
<1>2. CASE EndOfStream(c) \/ PipeEnds(c) \/ ClientGone(c) \/ UpstreamFails(c) \/ UpstreamGone(c)
  BY <1>1, <1>2 DEF EndOfStream, PipeEnds, ClientGone, UpstreamFails, UpstreamGone
<1>3. CASE RefuseHead(c) \/ DecideNot(c) \/ LookupNot(c) \/ RelayLast(c)
  BY <1>1, <1>3 DEF RefuseHead, DecideNot, LookupNot, Refuse, RelayLast
<1>4. CASE Accept(c) \/ Receive(c) \/ ParseHead(c)
  BY <1>4 DEF Accept, Receive, ParseHead
<1>5. CASE Decide(c)
  BY <1>5 DEF Decide
<1>6. CASE Lookup(c) \/ Forward(c) \/ Upgrade(c) \/ Pump(c)
  BY <1>6 DEF Lookup, Forward, Upgrade, Pump
<1>7. CASE Relay(c) \/ RelayCut(c)
  <2>1. CASE Close(c)
    BY <1>1, <1>7, <2>1 DEF Relay, RelayCut
  <2>2. CASE ~Close(c)
    BY <1>7, <2>2 DEF Relay, RelayCut
  <2>. QED
    BY <2>1, <2>2
<1>8. CASE RelayHead(c) \/ RelayChunk(c)
  BY <1>8 DEF RelayHead, RelayChunk
<1>9. CASE Perform(c)
  BY <1>9 DEF Perform, Answers
<1>10. CASE HangUp(c)
  BY <1>10 DEF HangUp
<1>11. CASE \E q \in Requests : Send(c, q)
  BY <1>11 DEF Send
<1>. QED
  BY <1>2, <1>3, <1>4, <1>5, <1>6, <1>7, <1>8, <1>9, <1>10, <1>11 DEF Handle

-----------------------------------------------------------------------------
(***************************************************************************)
(* What a step leaves alone on its own connection.                         *)
(***************************************************************************)
LEMMA StreamStill ==
    ASSUME NEW c \in Conns, StreamOK(c), pc[c] # "closed",
           asked'[c] = asked[c], net'[c] = net[c], buf'[c] = buf[c], got'[c] = got[c],
           c \in hung' <=> c \in hung, Used(c)' = Used(c),
           pc'[c] \notin {"raw", "closed"} =>
              pc[c] # "raw" /\ Forwarded(c)' = Forwarded(c)
    PROVE  StreamOK(c)'
BY DEF StreamOK

LEMMA GotStill ==
    ASSUME NEW c \in Conns, GotOK(c), got'[c] = got[c], approved[c] \subseteq approved'[c],
           ToSet(out[c]) \subseteq ToSet(out'[c]),
           pc'[c] = "raw" =>
              pc[c] = "raw" /\ cur'[c] = cur[c] /\ net'[c] = net[c] /\ buf'[c] = buf[c]
    PROVE  GotOK(c)'
<1>1. UpgradedAt(c) \subseteq UpgradedAt(c)'
  BY DEF UpgradedAt
<1>. QED
  BY <1>1 DEF GotOK

LEMMA SaysMore ==
    ASSUME Typed, NEW c \in Conns, NEW n \in Nat,
           NEW w \in {"refused", "whole", "cut", "chunk", "last", "101"}, Say(c, n, w)
    PROVE  /\ out'[c] = Append(out[c], [to |-> n, what |-> w])
           /\ [to |-> n, what |-> w] \in Replies
           /\ ToSet(out[c]) \subseteq ToSet(out'[c])
           /\ [to |-> n, what |-> w] \in ToSet(out'[c])
<1>1. out'[c] = Append(out[c], [to |-> n, what |-> w]) /\ [to |-> n, what |-> w] \in Replies
  BY DEF Say, Typed, WireTyped, Replies
<1>2. PICK o \in Seq(Replies) : o = out[c]
  BY TypesAt
<1>3. PICK u : u = out'[c]
  OBVIOUS
<1>4. PICK r \in Replies : r = [to |-> n, what |-> w]
  BY <1>1
<1>5. ToSet(o) \subseteq ToSet(u) /\ r \in ToSet(u)
  <2>1. /\ DOMAIN u = 1 .. Len(o) + 1 /\ Len(o) \in Nat /\ DOMAIN o = 1 .. Len(o)
        /\ \A k \in 1 .. Len(o) : u[k] = o[k]
        /\ u[Len(o) + 1] = r
    BY <1>1, <1>2, <1>3, <1>4, AppendProperties
  <2>. QED
    BY <2>1 DEF ToSet
<1>. QED
  BY <1>1, <1>2, <1>3, <1>4, <1>5

\* The head that is read next is the one of the next request.
LEMMA HeadIs ==
    ASSUME Typed, NEW c \in Conns, Conn(c), pc[c] = "head", buf[c] # <<>>
    PROVE  /\ Head(buf[c]) = <<cur[c] + 1, 0>> /\ cur[c] + 1 \in DOMAIN asked[c]
           /\ buf[c] \in Seq(Part) /\ Len(buf[c]) \in Nat \ {0} /\ Head(buf[c]) = buf[c][1]
<1>1. buf[c] \in Seq(Part) /\ Len(buf[c]) \in Nat \ {0} /\ Head(buf[c]) = buf[c][1]
  BY TypesAt
<1>2. Continues(asked[c], EndOf(asked[c], cur[c]), buf[c])
  BY DEF Conn, StreamOK, Used
<1>3. 1 \in DOMAIN buf[c]
  BY <1>1
<1>4. /\ buf[c][1] = After(asked[c], EndOf(asked[c], cur[c]))
      /\ buf[c][1][1] \in DOMAIN asked[c]
  BY <1>2, <1>3 DEF Continues
<1>5. cur[c] \in Nat /\ EndOf(asked[c], cur[c])[1] = cur[c]
  BY TypesAt, EndIsPart
<1>6. After(asked[c], EndOf(asked[c], cur[c])) = <<cur[c] + 1, 0>>
  BY <1>5 DEF After
<1>. QED
  BY <1>1, <1>4, <1>6

-----------------------------------------------------------------------------
(***************************************************************************)
(* The ends of a connection.                                               *)
(***************************************************************************)
LEMMA CloseKeeps ==
    ASSUME Typed, NEW c \in Conns, Conn(c), Close(c), pc[c] # "closed",
           Ordered(out'[c]), \A k \in DOMAIN out'[c] : out'[c][k].to \in DOMAIN asked[c],
           ToSet(out[c]) \subseteq ToSet(out'[c])
    PROVE  Conn(c)'
<1>1. /\ asked'[c] = asked[c] /\ got'[c] = got[c] /\ cur'[c] = cur[c] /\ approved'[c] = approved[c]
      /\ pc'[c] = "closed" /\ reply'[c] = None
  BY DEF Close, Goto, Typed, WireTyped
<1>2. StreamOK(c)'
  BY <1>1 DEF Conn, StreamOK
<1>3. CurOK(c)' /\ ApprovedOK(c)' /\ ReplyOK(c)'
  BY <1>1 DEF Conn, CurOK, ApprovedOK, ReplyOK, Asked
<1>4. GotOK(c)'
  BY <1>1, GotStill DEF Conn
<1>5. RepliesOK(c)'
  BY <1>1 DEF RepliesOK
<1>. QED
  BY <1>2, <1>3, <1>4, <1>5 DEF Conn

LEMMA QuietEndKeeps ==
    ASSUME Typed, NEW c \in Conns, Conn(c),
           EndOfStream(c) \/ PipeEnds(c) \/ ClientGone(c) \/ UpstreamFails(c) \/ UpstreamGone(c)
    PROVE  Conn(c)'
<1>1. Close(c) /\ out' = out /\ pc[c] # "closed"
  BY DEF EndOfStream, NeedsMore, PipeEnds, ClientGone, UpstreamFails, UpstreamGone
<1>2. Ordered(out[c]) /\ \A k \in DOMAIN out[c] : out[c][k].to \in DOMAIN asked[c]
  BY DEF Conn, RepliesOK
<1>. QED
  BY <1>1, <1>2, CloseKeeps

\* A reply to the next request, or more of the last one.
LEMMA SaidKeeps ==
    ASSUME Typed, NEW c \in Conns, Conn(c), NEW n \in Nat \ {0}, n \in DOMAIN asked[c],
           NEW w \in {"refused", "whole", "cut", "chunk", "last", "101"}, Say(c, n, w),
           \/ Replied(out[c], n - 1) /\ (w = "refused" \/ ~Cut(c))
           \/ InPart(out[c], n)
    PROVE  /\ Ordered(out'[c]) /\ \A k \in DOMAIN out'[c] : out'[c][k].to \in DOMAIN asked[c]
           /\ w \in {"whole", "cut"} /\ Replied(out[c], n - 1) /\ ~Cut(c) => Replied(out'[c], n)
           /\ w = "chunk" => InPart(out'[c], n)
           /\ ToSet(out[c]) \subseteq ToSet(out'[c])
           /\ [to |-> n, what |-> w] \in ToSet(out'[c])
<1>1. /\ out'[c] = Append(out[c], [to |-> n, what |-> w])
      /\ ToSet(out[c]) \subseteq ToSet(out'[c])
      /\ [to |-> n, what |-> w] \in ToSet(out'[c])
      /\ [to |-> n, what |-> w] \in Replies
  BY SaysMore
<1>2. PICK o \in Seq(Replies) : o = out[c]
  BY TypesAt
<1>3. PICK r \in Replies : r = [to |-> n, what |-> w]
  BY <1>1
<1>4. r.to = n /\ r.what = w
  BY <1>3
<1>5. Ordered(o) /\ \A k \in DOMAIN o : o[k].to \in DOMAIN asked[c]
  BY <1>2 DEF Conn, RepliesOK
<1>6. /\ Ordered(Append(o, r))
      /\ w \in {"whole", "cut"} /\ Replied(o, n - 1) /\ ~Cut(c) => Replied(Append(o, r), n)
      /\ w = "chunk" => InPart(Append(o, r), n)
  <2>1. CASE Replied(o, n - 1) /\ (w = "refused" \/ ~Cut(c))
    <3>1. r.what = "refused" \/ \A k \in DOMAIN o : o[k].what # "cut"
      BY <1>2, <1>4, <2>1 DEF Cut
    <3>. QED
      BY <1>4, <1>5, <2>1, <3>1, ReplyNext
  <2>2. CASE ~(Replied(o, n - 1) /\ ~Cut(c)) /\ InPart(o, n)
    BY <1>4, <1>5, <2>2, ReplyMore
  <2>. QED
    BY <1>2, <2>1, <2>2
<1>7. \A k \in DOMAIN Append(o, r) : Append(o, r)[k].to \in DOMAIN asked[c]
  <2>1. /\ DOMAIN Append(o, r) = 1 .. Len(o) + 1 /\ Len(o) \in Nat /\ DOMAIN o = 1 .. Len(o)
        /\ \A k \in 1 .. Len(o) : Append(o, r)[k] = o[k]
        /\ Append(o, r)[Len(o) + 1] = r
    BY AppendProperties
  <2>2. \A k \in 1 .. Len(o) + 1 : k \in 1 .. Len(o) \/ k = Len(o) + 1
    BY <2>1
  <2>. QED
    BY <1>4, <1>5, <2>1, <2>2
<1>. QED
  BY <1>1, <1>2, <1>3, <1>6, <1>7

LEMMA RefusalKeeps ==
    ASSUME Typed, NEW c \in Conns, Conn(c),
           RefuseHead(c) \/ DecideNot(c) \/ LookupNot(c) \/ RelayLast(c)
    PROVE  Conn(c)'
<1>1. cur[c] \in Nat /\ Len(asked[c]) \in Nat /\ DOMAIN asked[c] = 1 .. Len(asked[c])
  BY TypesAt
<1>2. CASE RefuseHead(c)
  <2>1. /\ Close(c) /\ Say(c, Head(buf[c])[1], "refused")
        /\ pc[c] = "head" /\ buf[c] # <<>>
    BY <1>2 DEF RefuseHead, Refuse
  <2>2. Head(buf[c])[1] = cur[c] + 1 /\ cur[c] + 1 \in DOMAIN asked[c]
    BY <2>1, HeadIs
  <2>3. PICK n \in Nat \ {0} : n = cur[c] + 1 /\ n - 1 = cur[c]
    BY <1>1
  <2>4. Say(c, n, "refused") /\ n \in DOMAIN asked[c] /\ Replied(out[c], n - 1)
    BY <2>1, <2>2, <2>3 DEF Conn, RepliesOK
  <2>. QED
    BY <2>1, <2>4, SaidKeeps, CloseKeeps
<1>3. CASE DecideNot(c) \/ LookupNot(c) \/ RelayLast(c)
  <2>1. /\ Close(c) /\ (Say(c, cur[c], "refused") \/ Say(c, cur[c], "last"))
        /\ \/ pc[c] \in {"body", "lookup"} /\ Say(c, cur[c], "refused")
           \/ pc[c] = "chunks"
    BY <1>3 DEF DecideNot, Framed, LookupNot, Refuse, RelayLast
  <2>2. PICK n \in Nat \ {0} : n = cur[c]
    BY <1>1, <2>1 DEF Conn, CurOK
  <2>3. /\ n \in DOMAIN asked[c]
        /\ \/ Replied(out[c], n - 1) /\ Say(c, n, "refused")
           \/ InPart(out[c], n)
    BY <1>1, <2>1, <2>2 DEF Conn, CurOK, RepliesOK
  <2>4. Say(c, n, "refused") \/ Say(c, n, "last")
    BY <2>1, <2>2
  <2>. QED
    BY <2>1, <2>3, <2>4, SaidKeeps, CloseKeeps
<1>. QED
  BY <1>2, <1>3

LEMMA RelayKeeps ==
    ASSUME Typed, NEW c \in Conns, Conn(c), Relay(c) \/ RelayCut(c)
    PROVE  Conn(c)'
<1>1. cur[c] \in Nat /\ Len(asked[c]) \in Nat /\ DOMAIN asked[c] = 1 .. Len(asked[c])
  BY TypesAt
<1>2. pc[c] = "reply" /\ reply[c] = "length" /\ (Say(c, cur[c], "whole") \/ Say(c, cur[c], "cut"))
  BY DEF Relay, RelayCut
<1>3. PICK n \in Nat \ {0} : n = cur[c]
  BY <1>1, <1>2 DEF Conn, CurOK
<1>4. /\ n \in DOMAIN asked[c] /\ Replied(out[c], n - 1) /\ ~Cut(c)
      /\ Say(c, n, "whole") \/ Say(c, n, "cut")
  BY <1>1, <1>2, <1>3, ProxyAssumption DEF Conn, CurOK, RepliesOK
<1>5. /\ Ordered(out'[c]) /\ \A k \in DOMAIN out'[c] : out'[c][k].to \in DOMAIN asked[c]
      /\ Replied(out'[c], n) /\ ToSet(out[c]) \subseteq ToSet(out'[c])
  BY <1>4, SaidKeeps
<1>6. CASE Close(c)
  BY <1>2, <1>5, <1>6, CloseKeeps
<1>7. CASE ~Close(c)
  <2>1. /\ Asked(c, cur[c]).kind # "attach"
        /\ asked'[c] = asked[c] /\ net'[c] = net[c] /\ (c \in hung' <=> c \in hung)
        /\ pc'[c] = "head" /\ buf'[c] = buf[c] /\ cur'[c] = cur[c] /\ approved'[c] = approved[c]
        /\ got'[c] = got[c] /\ reply'[c] = None
    BY <1>7 DEF Relay, RelayCut, client, Goto, Typed, WireTyped
  <2>2. StreamOK(c)'
    BY <1>2, <2>1, StreamStill DEF Conn, Used, Forwarded
  <2>3. CurOK(c)' /\ ApprovedOK(c)' /\ ReplyOK(c)'
    BY <1>2, <2>1 DEF Conn, CurOK, ApprovedOK, ReplyOK, Asked
  <2>4. GotOK(c)'
    BY <1>5, <2>1, GotStill DEF Conn
  <2>5. RepliesOK(c)'
    BY <1>3, <1>5, <2>1 DEF RepliesOK
  <2>. QED
    BY <2>2, <2>3, <2>4, <2>5 DEF Conn
<1>. QED
  BY <1>6, <1>7

LEMMA RelayPartKeeps ==
    ASSUME Typed, NEW c \in Conns, Conn(c), RelayHead(c) \/ RelayChunk(c)
    PROVE  Conn(c)'
<1>1. cur[c] \in Nat /\ Len(asked[c]) \in Nat /\ DOMAIN asked[c] = 1 .. Len(asked[c])
  BY TypesAt
<1>2. pc[c] \in {"reply", "chunks"} /\ Say(c, cur[c], "chunk")
  BY DEF RelayHead, RelayChunk
<1>3. PICK n \in Nat \ {0} : n = cur[c]
  BY <1>1, <1>2 DEF Conn, CurOK
<1>4. /\ n \in DOMAIN asked[c] /\ Say(c, n, "chunk")
      /\ (Replied(out[c], n - 1) /\ ~Cut(c)) \/ InPart(out[c], n)
  <2>1. RelayHead(c) => ~Cut(c)
    BY ProxyAssumption DEF RelayHead, Conn, RepliesOK
  <2>2. RelayChunk(c) => pc[c] = "chunks"
    BY DEF RelayChunk
  <2>. QED
    BY <1>1, <1>2, <1>3, <2>1, <2>2 DEF Conn, CurOK, RepliesOK
<1>5. /\ Ordered(out'[c]) /\ \A k \in DOMAIN out'[c] : out'[c][k].to \in DOMAIN asked[c]
      /\ InPart(out'[c], n) /\ ToSet(out[c]) \subseteq ToSet(out'[c])
  BY <1>4, SaidKeeps
<1>6. /\ asked'[c] = asked[c] /\ net'[c] = net[c] /\ (c \in hung' <=> c \in hung)
      /\ pc'[c] = "chunks" /\ buf'[c] = buf[c] /\ cur'[c] = cur[c] /\ approved'[c] = approved[c]
      /\ got'[c] = got[c] /\ reply'[c] = reply[c]
  BY DEF RelayHead, RelayChunk, client, thread, docker, Goto, Typed, WireTyped
<1>7. StreamOK(c)'
  BY <1>2, <1>6, StreamStill DEF Conn, Used, Forwarded
<1>8. CurOK(c)' /\ ApprovedOK(c)' /\ ReplyOK(c)'
  BY <1>2, <1>6 DEF Conn, CurOK, ApprovedOK, ReplyOK, Asked
<1>9. GotOK(c)'
  BY <1>5, <1>6, GotStill DEF Conn
<1>10. ~Cut(c)'
  BY <1>5 DEF InPart, Cut
<1>11. RepliesOK(c)'
  BY <1>3, <1>5, <1>6, <1>10 DEF RepliesOK
<1>. QED
  BY <1>7, <1>8, <1>9, <1>11 DEF Conn

-----------------------------------------------------------------------------
(***************************************************************************)
(* The thread and dockerd, between the stream and the replies.             *)
(***************************************************************************)
LEMMA AcceptKeeps ==
    ASSUME Typed, NEW c \in Conns, Conn(c), Accept(c)
    PROVE  Conn(c)'
<1>1. /\ pc[c] = "free" /\ pc'[c] = "head"
      /\ asked'[c] = asked[c] /\ net'[c] = net[c] /\ (c \in hung' <=> c \in hung)
      /\ buf'[c] = buf[c] /\ cur'[c] = cur[c] /\ approved'[c] = approved[c]
      /\ got'[c] = got[c] /\ reply'[c] = reply[c] /\ out'[c] = out[c]
  BY DEF Accept, client, docker, Goto, Typed, WireTyped
<1>2. StreamOK(c)'
  BY <1>1, StreamStill DEF Conn, Used, Forwarded
<1>3. CurOK(c)' /\ ApprovedOK(c)' /\ ReplyOK(c)'
  BY <1>1 DEF Conn, CurOK, ApprovedOK, ReplyOK, Asked
<1>4. GotOK(c)' /\ RepliesOK(c)'
  BY <1>1, GotStill DEF Conn, RepliesOK, Cut
<1>. QED
  BY <1>2, <1>3, <1>4 DEF Conn

LEMMA LookupKeeps ==
    ASSUME Typed, NEW c \in Conns, Conn(c), Lookup(c)
    PROVE  Conn(c)'
<1>1. /\ pc[c] = "lookup" /\ pc'[c] = "forward" /\ Asked(c, cur[c]).target = Mutator
      /\ asked'[c] = asked[c] /\ net'[c] = net[c] /\ (c \in hung' <=> c \in hung)
      /\ buf'[c] = buf[c] /\ cur'[c] = cur[c] /\ approved'[c] = approved[c] \cup {cur[c]}
      /\ got'[c] = got[c] /\ reply'[c] = reply[c] /\ out'[c] = out[c]
  BY DEF Lookup, MutatorShaped, client, docker, Goto, Typed, WireTyped
<1>2. StreamOK(c)'
  BY <1>1, StreamStill DEF Conn, Used, Forwarded
<1>3. CurOK(c)' /\ ReplyOK(c)'
  BY <1>1 DEF Conn, CurOK, ReplyOK
<1>4. cur[c] \in 1 .. cur[c]
  BY <1>1, TypesAt DEF Conn, CurOK
<1>5. ApprovedOK(c)'
  BY <1>1, <1>4, ProxyAssumption DEF Conn, ApprovedOK, Asked
<1>6. GotOK(c)' /\ RepliesOK(c)'
  BY <1>1, GotStill DEF Conn, RepliesOK, Cut
<1>. QED
  BY <1>2, <1>3, <1>5, <1>6 DEF Conn

LEMMA PerformKeeps ==
    ASSUME Typed, NEW c \in Conns, Conn(c), Perform(c)
    PROVE  Conn(c)'
<1>1. /\ pc[c] = "reply" /\ pc'[c] = "reply"
      /\ asked'[c] = asked[c] /\ net'[c] = net[c] /\ (c \in hung' <=> c \in hung)
      /\ buf'[c] = buf[c] /\ cur'[c] = cur[c] /\ approved'[c] = approved[c]
      /\ got'[c] = got[c] /\ out'[c] = out[c] /\ ~Cut(c)
  BY DEF Perform, Unanswered, client, thread
<1>2. StreamOK(c)'
  BY <1>1, StreamStill DEF Conn, Used, Forwarded
<1>3. CurOK(c)' /\ ApprovedOK(c)' /\ ReplyOK(c)'
  BY <1>1 DEF Conn, CurOK, ApprovedOK, ReplyOK, Asked
<1>4. GotOK(c)' /\ RepliesOK(c)'
  BY <1>1, GotStill DEF Conn, RepliesOK, Cut
<1>. QED
  BY <1>2, <1>3, <1>4 DEF Conn

-----------------------------------------------------------------------------
(***************************************************************************)
(* The client.                                                             *)
(***************************************************************************)
LEMMA ReachedBound ==
    ASSUME NEW asks \in Seq(Requests), NEW p \in Part, NEW s \in Seq(Part),
           p[1] <= Len(asks), Continues(asks, p, s)
    PROVE  Reached(p, s) \in Part /\ Reached(p, s)[1] <= Len(asks)
<1>1. Len(s) \in Nat /\ DOMAIN s = 1 .. Len(s) /\ DOMAIN asks = 1 .. Len(asks)
  OBVIOUS
<1>2. CASE Len(s) = 0
  BY <1>2, ReachedIs
<1>3. CASE Len(s) # 0
  <2>1. Len(s) \in DOMAIN s
    BY <1>1, <1>3
  <2>2. s[Len(s)][1] \in DOMAIN asks
    BY <2>1 DEF Continues
  <2>. QED
    BY <1>1, <1>3, <2>2, ReachedIs
<1>. QED
  BY <1>2, <1>3

LEMMA UsedIs ==
    ASSUME Typed, NEW c \in Conns, Conn(c), pc[c] # "closed"
    PROVE  /\ Start \in Part /\ Start[1] = 0
           /\ Used(c) \in Part /\ Used(c)[1] <= Len(asked[c])
           /\ Reached(Used(c), buf[c]) \in Part /\ Reached(Used(c), buf[c])[1] <= Len(asked[c])
           /\ Reached(Start, got[c]) \in Part /\ Reached(Start, got[c])[1] <= Len(asked[c])
<1>1. /\ asked[c] \in Seq(Requests) /\ Len(asked[c]) \in Nat /\ cur[c] \in Nat
      /\ buf[c] \in Seq(Part) /\ got[c] \in Seq(Part) /\ cur[c] <= Len(asked[c])
  BY TypesAt DEF Conn, CurOK
<1>2. Start \in Part /\ Start[1] = 0 /\ Start[1] <= Len(asked[c])
  BY <1>1 DEF Start, Part
<1>3. Continues(asked[c], Start, got[c])
  BY DEF Conn, StreamOK
<1>4. Reached(Start, got[c]) \in Part /\ Reached(Start, got[c])[1] <= Len(asked[c])
  BY <1>1, <1>2, <1>3, ReachedBound
<1>5. EndOf(asked[c], cur[c]) \in Part /\ EndOf(asked[c], cur[c])[1] = cur[c]
  BY <1>1, EndIsPart
<1>6. <<cur[c], 0>> \in Part /\ <<cur[c], 0>>[1] = cur[c]
  BY <1>1 DEF Part
<1>7. Used(c) \in Part /\ Used(c)[1] <= Len(asked[c])
  BY <1>1, <1>4, <1>5, <1>6 DEF Used
<1>8. Continues(asked[c], Used(c), buf[c])
  BY DEF Conn, StreamOK
<1>9. Reached(Used(c), buf[c]) \in Part /\ Reached(Used(c), buf[c])[1] <= Len(asked[c])
  BY <1>1, <1>7, <1>8, ReachedBound
<1>. QED
  BY <1>2, <1>4, <1>7, <1>9

LEMMA SendKeeps ==
    ASSUME Typed, NEW c \in Conns, Conn(c), NEW q \in Requests, Send(c, q)
    PROVE  Conn(c)'
<1>1. PICK a \in Seq(Requests) : a = asked[c]
  BY TypesAt
<1>2. PICK m \in Seq(Requests) : m = Append(a, q)
  BY AppendProperties
<1>3. /\ Len(a) \in Nat /\ Len(m) = Len(a) + 1 /\ \A n \in 1 .. Len(a) : m[n] = a[n]
      /\ m[Len(m)] = q /\ DOMAIN a = 1 .. Len(a) /\ DOMAIN m = 1 .. Len(a) + 1
      /\ Len(m) \in 1 .. Len(m)
  BY <1>2, AppendProperties
<1>4. /\ asked'[c] = m /\ net'[c] = net[c] \o Parts(Len(m), q)
      /\ c \notin hung /\ hung' = hung /\ pc[c] # "closed"
      /\ pc'[c] = pc[c] /\ buf'[c] = buf[c] /\ cur'[c] = cur[c] /\ approved'[c] = approved[c]
      /\ got'[c] = got[c] /\ reply'[c] = reply[c] /\ out'[c] = out[c]
  BY <1>1, <1>2 DEF Send, thread, docker, Typed, WireTyped
<1>5. cur[c] \in Nat /\ cur[c] <= Len(a)
  BY <1>1, TypesAt DEF Conn, CurOK
<1>6. /\ \A n \in 0 .. Len(a) : EndOf(m, n) = EndOf(a, n)
      /\ \A p \in Part, s \in Seq(Part) : p[1] <= Len(a) /\ Continues(a, p, s) => Continues(m, p, s)
  BY <1>3, Grown
<1>7. Used(c)' = Used(c)
  BY <1>1, <1>4, <1>5, <1>6 DEF Used
<1>8. pc[c] \notin {"raw", "closed"} => Forwarded(c)' = Forwarded(c)
  <2>1. CASE pc[c] \in {"body", "lookup", "forward"}
    <3>1. cur[c] - 1 \in 0 .. Len(a)
      BY <1>5, <2>1 DEF Conn, CurOK
    <3>. QED
      BY <1>1, <1>4, <1>6, <2>1, <3>1 DEF Forwarded
  <2>2. CASE pc[c] \notin {"body", "lookup", "forward"}
    <3>1. cur[c] \in 0 .. Len(a)
      BY <1>5
    <3>. QED
      BY <1>1, <1>4, <1>6, <2>2, <3>1 DEF Forwarded
  <2>. QED
    BY <2>1, <2>2
<1>9. PICK u \in Part : u = Used(c) /\ u[1] <= Len(a)
  BY <1>1, <1>4, UsedIs
<1>10. PICK r \in Part : r = Reached(u, buf[c]) /\ r[1] <= Len(a)
  BY <1>1, <1>4, <1>9, UsedIs
<1>11. PICK t \in Seq(Part) : t = net[c]
  BY TypesAt
<1>12. buf[c] \in Seq(Part) /\ got[c] \in Seq(Part) /\ Start \in Part /\ Start[1] <= Len(a)
  BY <1>3, <1>4, TypesAt, UsedIs
<1>13. /\ Continues(a, Start, got[c]) /\ Continues(a, u, buf[c]) /\ Continues(a, r, t)
       /\ Reached(r, t) = EndOf(a, Len(a))
  BY <1>1, <1>4, <1>9, <1>10, <1>11 DEF Conn, StreamOK
<1>14. /\ Continues(m, Start, got[c]) /\ Continues(m, u, buf[c]) /\ Continues(m, r, t)
       /\ Reached(r, t) = EndOf(m, Len(m) - 1)
  BY <1>3, <1>6, <1>9, <1>10, <1>12, <1>13
<1>15. PICK w \in Seq(Part) : w = Parts(Len(m), q)
  BY <1>3, PartsAre
<1>16. Continues(m, Reached(r, t), w) /\ Reached(Reached(r, t), w) = EndOf(m, Len(m))
  BY <1>3, <1>14, <1>15, Whole
<1>17. Continues(m, r, t \o w) /\ Reached(r, t \o w) = EndOf(m, Len(m))
  BY <1>14, <1>16, Join
<1>18. StreamOK(c)'
  <2>1. /\ Continues(asked'[c], Start, got'[c]) /\ Continues(asked'[c], Used(c)', buf'[c])
        /\ Continues(asked'[c], Reached(Used(c)', buf'[c]), net'[c])
        /\ Reached(Reached(Used(c)', buf'[c]), net'[c]) = EndOf(asked'[c], Len(asked'[c]))
    BY <1>4, <1>7, <1>9, <1>10, <1>11, <1>14, <1>15, <1>17
  <2>2. pc'[c] \notin {"raw", "closed"} => Reached(Start, got'[c]) = Forwarded(c)'
    BY <1>4, <1>8 DEF Conn, StreamOK
  <2>. QED
    BY <2>1, <2>2 DEF StreamOK
<1>19. CurOK(c)' /\ ReplyOK(c)'
  BY <1>1, <1>3, <1>4, <1>5 DEF Conn, CurOK, ReplyOK
<1>20. ApprovedOK(c)'
  <2>1. \A n \in approved[c] : n \in 1 .. cur[c] /\ m[n] = a[n]
    BY <1>3, <1>5 DEF Conn, ApprovedOK
  <2>. QED
    BY <1>1, <1>4, <2>1 DEF Conn, ApprovedOK, Asked
<1>21. GotOK(c)'
  <2>1. UpgradedAt(c)' = UpgradedAt(c)
    BY <1>4 DEF UpgradedAt
  <2>2. \A k \in DOMAIN w : w[k][1] = Len(m)
    BY <1>15 DEF Parts
  <2>3. ASSUME pc[c] = "raw", NEW k \in DOMAIN (t \o w) PROVE (t \o w)[k][1] > cur[c]
    <3>1. /\ Len(t) \in Nat /\ Len(w) \in Nat /\ DOMAIN t = 1 .. Len(t) /\ DOMAIN w = 1 .. Len(w)
          /\ k \in 1 .. Len(t) + Len(w)
          /\ (t \o w)[k] = IF k <= Len(t) THEN t[k] ELSE w[k - Len(t)]
      BY <2>3, ConcatProperties
    <3>2. CASE k <= Len(t)
      <4>1. k \in DOMAIN t
        BY <3>1, <3>2
      <4>. QED
        BY <2>3, <3>1, <3>2, <4>1, <1>11 DEF Conn, GotOK
    <3>3. CASE k > Len(t)
      <4>1. k - Len(t) \in DOMAIN w /\ (t \o w)[k] = w[k - Len(t)]
        BY <3>1, <3>3
      <4>2. (t \o w)[k][1] = Len(m)
        BY <2>2, <4>1
      <4>. QED
        BY <4>2, <1>3, <1>5
    <3>. QED
      BY <3>1, <3>2, <3>3
  <2>. QED
    BY <1>4, <1>11, <1>15, <2>1, <2>3 DEF Conn, GotOK
<1>22. RepliesOK(c)'
  BY <1>1, <1>3, <1>4 DEF Conn, RepliesOK, Cut
<1>. QED
  BY <1>18, <1>19, <1>20, <1>21, <1>22 DEF Conn

LEMMA HangUpKeeps ==
    ASSUME Typed, NEW c \in Conns, Conn(c), HangUp(c)
    PROVE  Conn(c)'
<1>1. /\ asked'[c] = asked[c] /\ c \in hung'
      /\ pc'[c] = pc[c] /\ buf'[c] = buf[c] /\ cur'[c] = cur[c] /\ approved'[c] = approved[c]
      /\ got'[c] = got[c] /\ reply'[c] = reply[c] /\ out'[c] = out[c]
      /\ net'[c] = net[c] \/ (net[c] # <<>> /\ net'[c] = Front(net[c]))
  BY DEF HangUp, thread, docker, Typed, WireTyped
<1>2. PICK t \in Seq(Part) : t = net[c]
  BY TypesAt
<1>3. PICK v \in Seq(Part) : v = net'[c]
  <2>1. t # <<>> => Front(t) \in Seq(Part)
    BY DEF Front
  <2>. QED
    BY <1>1, <1>2, <2>1
<1>4. Len(v) <= Len(t) /\ \A k \in 1 .. Len(v) : v[k] = t[k]
  <2>1. CASE v = t
    BY <2>1
  <2>2. CASE t # <<>> /\ v = Front(t)
    BY <2>2 DEF Front
  <2>. QED
    BY <1>1, <1>2, <1>3, <2>1, <2>2
<1>5. Used(c)' = Used(c) /\ Forwarded(c)' = Forwarded(c) /\ UpgradedAt(c)' = UpgradedAt(c)
  BY <1>1 DEF Used, Forwarded, UpgradedAt
<1>6. pc[c] # "closed" => Continues(asked[c], Reached(Used(c), buf[c]), v)
  <2>. SUFFICES ASSUME pc[c] # "closed" PROVE Continues(asked[c], Reached(Used(c), buf[c]), v)
    OBVIOUS
  <2>1. PICK r \in Part : r = Reached(Used(c), buf[c])
    BY UsedIs
  <2>2. Continues(asked[c], r, t)
    BY <2>1, <1>2 DEF Conn, StreamOK
  <2>. QED
    BY <2>1, <2>2, <1>4, Prefix
<1>7. StreamOK(c)'
  BY <1>1, <1>3, <1>5, <1>6 DEF Conn, StreamOK
<1>8. CurOK(c)' /\ ApprovedOK(c)' /\ ReplyOK(c)' /\ RepliesOK(c)'
  BY <1>1 DEF Conn, CurOK, ApprovedOK, ReplyOK, RepliesOK, Cut, Asked
<1>9. GotOK(c)'
  <2>1. \A k \in DOMAIN v : k \in DOMAIN t /\ v[k] = t[k]
    BY <1>4
  <2>. QED
    BY <1>1, <1>2, <1>3, <1>5, <2>1 DEF Conn, GotOK
<1>. QED
  BY <1>7, <1>8, <1>9 DEF Conn

-----------------------------------------------------------------------------
(***************************************************************************)
(* The thread and the stream.                                              *)
(***************************************************************************)
LEMMA ReceiveKeeps ==
    ASSUME Typed, NEW c \in Conns, Conn(c), Receive(c)
    PROVE  Conn(c)'
<1>1. PICK t \in Seq(Part) : t = net[c]
  BY TypesAt
<1>2. PICK k \in 1 .. Len(t) :
        /\ buf' = [buf EXCEPT ![c] = @ \o SubSeq(net[c], 1, k)]
        /\ net' = [net EXCEPT ![c] = SubSeq(@, k + 1, Len(@))]
  BY <1>1 DEF Receive
<1>3. PICK b \in Seq(Part) : b = buf[c]
  BY TypesAt
<1>4. PICK first : first = SubSeq(t, 1, k)
  OBVIOUS
<1>5. PICK rest : rest = SubSeq(t, k + 1, Len(t))
  OBVIOUS
<1>6. /\ first \in Seq(Part) /\ Len(first) = k /\ \A i \in 1 .. k : first[i] = t[i]
      /\ rest \in Seq(Part) /\ Len(rest) = Len(t) - k /\ \A i \in 1 .. Len(rest) : rest[i] = t[k + i]
      /\ k \in 0 .. Len(t) /\ k # 0 /\ k <= Len(t) /\ Len(t) \in Nat
  BY <1>4, <1>5
<1>7. /\ pc[c] \in {"head", "body"} /\ pc'[c] = pc[c]
      /\ asked'[c] = asked[c] /\ (c \in hung' <=> c \in hung)
      /\ cur'[c] = cur[c] /\ approved'[c] = approved[c]
      /\ got'[c] = got[c] /\ reply'[c] = reply[c] /\ out'[c] = out[c]
  BY DEF Receive, NeedsMore, docker
<1>8. buf'[c] = b \o first /\ net'[c] = rest
  BY <1>1, <1>2, <1>3, <1>4, <1>5 DEF Typed, WireTyped
<1>9. PICK u \in Part : u = Used(c)
  BY <1>7, UsedIs
<1>10. PICK r \in Part : r = Reached(u, b)
  BY <1>3, <1>9, ReachedIs
<1>11. Continues(asked[c], u, b) /\ Continues(asked[c], r, t)
  BY <1>1, <1>3, <1>7, <1>9, <1>10 DEF Conn, StreamOK
<1>12. Continues(asked[c], r, first)
  BY <1>6, <1>11, Prefix
<1>13. Continues(asked[c], u, b \o first) /\ Reached(u, b \o first) = Reached(r, first)
  BY <1>6, <1>10, <1>11, <1>12, Join
<1>14. Reached(r, first) = t[k]
  <2>1. Len(first) # 0 /\ first[Len(first)] = t[k]
    BY <1>6
  <2>. QED
    BY <2>1, <1>6, ReachedIs
<1>15. Continues(asked[c], t[k], rest) /\ Reached(t[k], rest) = Reached(r, t)
  <2>1. PICK q : q = t[k] /\ q = IF k = 0 THEN r ELSE t[k]
    BY <1>6
  <2>2. /\ rest \in Seq(Part) /\ k \in 0 .. Len(t) /\ Len(rest) = Len(t) - k
        /\ \A i \in 1 .. Len(rest) : rest[i] = t[k + i]
    BY <1>6
  <2>3. PICK a : a = asked[c]
    OBVIOUS
  <2>4. Continues(a, r, t)
    BY <1>11, <2>3
  <2>5. q = IF k = 0 THEN r ELSE t[k]
    BY <2>1
  <2>6. Dropped(r, t, k, q, rest)
    BY <2>2, <2>5 DEF Dropped
  <2>7. Continues(a, q, rest) /\ Reached(q, rest) = Reached(r, t)
    BY <2>2, <2>4, <2>6, Suffix
  <2>. QED
    BY <2>1, <2>3, <2>7
<1>16. Used(c)' = Used(c) /\ Forwarded(c)' = Forwarded(c)
  BY <1>7 DEF Used, Forwarded
<1>17. StreamOK(c)'
  <2>1. Used(c)' = u /\ Reached(Used(c)', buf'[c]) = t[k]
    BY <1>8, <1>9, <1>13, <1>14, <1>16
  <2>2. c \notin hung => Reached(r, t) = EndOf(asked[c], Len(asked[c]))
    BY <1>1, <1>3, <1>7, <1>9, <1>10 DEF Conn, StreamOK
  <2>3. Continues(asked[c], Start, got[c]) /\ Reached(Start, got[c]) = Forwarded(c)
    BY <1>7 DEF Conn, StreamOK
  <2>. QED
    BY <1>7, <1>8, <1>13, <1>15, <1>16, <2>1, <2>2, <2>3 DEF StreamOK
<1>18. CurOK(c)' /\ ApprovedOK(c)' /\ ReplyOK(c)' /\ RepliesOK(c)'
  BY <1>7 DEF Conn, CurOK, ApprovedOK, ReplyOK, RepliesOK, Cut, Asked
<1>19. GotOK(c)'
  BY <1>7, GotStill DEF Conn
<1>. QED
  BY <1>17, <1>18, <1>19 DEF Conn

LEMMA ParseHeadKeeps ==
    ASSUME Typed, NEW c \in Conns, Conn(c), ParseHead(c)
    PROVE  Conn(c)'
<1>1. PICK b \in Seq(Part) : b = buf[c]
  BY TypesAt
<1>2. pc[c] = "head" /\ b # <<>>
  BY <1>1 DEF ParseHead
<1>3. /\ Head(b) = <<cur[c] + 1, 0>> /\ cur[c] + 1 \in DOMAIN asked[c]
      /\ Len(b) \in Nat \ {0} /\ b[1] = <<cur[c] + 1, 0>>
  BY <1>1, <1>2, HeadIs
<1>4. PICK t : t = Tail(b)
  OBVIOUS
<1>5. t \in Seq(Part) /\ Len(t) = Len(b) - 1 /\ \A i \in 1 .. Len(t) : t[i] = b[1 + i]
  BY <1>2, <1>4, HeadTailProperties
<1>6. /\ pc'[c] = "body" /\ cur'[c] = cur[c] + 1 /\ buf'[c] = t
      /\ asked'[c] = asked[c] /\ net'[c] = net[c] /\ (c \in hung' <=> c \in hung)
      /\ approved'[c] = approved[c]
      /\ got'[c] = got[c] /\ reply'[c] = reply[c] /\ out'[c] = out[c]
  BY <1>1, <1>3, <1>4 DEF ParseHead, client, docker, Goto, Typed, WireTyped
<1>7. /\ cur[c] \in Nat /\ cur[c] <= Len(asked[c]) /\ Len(asked[c]) \in Nat
      /\ DOMAIN asked[c] = 1 .. Len(asked[c]) /\ approved[c] \in SUBSET Nat
  BY TypesAt DEF Conn, CurOK
<1>8. PICK u \in Part : u = Used(c)
  BY <1>2, UsedIs
<1>9. Continues(asked[c], u, b)
  BY <1>1, <1>2, <1>8 DEF Conn, StreamOK
<1>10. Dropped(u, b, 1, b[1], t)
  BY <1>3, <1>5 DEF Dropped
<1>11. Continues(asked[c], b[1], t) /\ Reached(b[1], t) = Reached(u, b)
  BY <1>5, <1>9, <1>10, Suffix
<1>12. Used(c)' = b[1] /\ Forwarded(c)' = Forwarded(c)
  <2>1. Used(c)' = b[1]
    BY <1>3, <1>6 DEF Used
  <2>2. cur'[c] - 1 = cur[c]
    BY <1>6, <1>7
  <2>. QED
    BY <1>2, <1>6, <2>1, <2>2 DEF Forwarded
<1>13. StreamOK(c)'
  <2>1. Reached(Used(c)', buf'[c]) = Reached(u, b)
    BY <1>6, <1>11, <1>12
  <2>2. /\ Continues(asked[c], Start, got[c]) /\ Reached(Start, got[c]) = Forwarded(c)
        /\ Continues(asked[c], Reached(u, b), net[c])
        /\ c \notin hung => Reached(Reached(u, b), net[c]) = EndOf(asked[c], Len(asked[c]))
    BY <1>1, <1>2, <1>8 DEF Conn, StreamOK
  <2>. QED
    BY <1>6, <1>11, <1>12, <2>1, <2>2 DEF StreamOK
<1>14. CurOK(c)' /\ ReplyOK(c)'
  BY <1>2, <1>3, <1>6, <1>7 DEF Conn, CurOK, ReplyOK
<1>15. ApprovedOK(c)'
  <2>1. \A n \in approved[c] : n \in 1 .. cur[c] /\ n \in 1 .. cur[c] + 1
    BY <1>7 DEF Conn, ApprovedOK
  <2>. QED
    BY <1>2, <1>6, <2>1 DEF Conn, ApprovedOK, Asked
<1>16. GotOK(c)'
  BY <1>6, GotStill DEF Conn
<1>17. RepliesOK(c)'
  <2>1. cur'[c] - 1 = cur[c]
    BY <1>6, <1>7
  <2>. QED
    BY <1>2, <1>6, <2>1 DEF Conn, RepliesOK, Cut
<1>. QED
  BY <1>13, <1>14, <1>15, <1>16, <1>17 DEF Conn

LEMMA DecideKeeps ==
    ASSUME Typed, NEW c \in Conns, Conn(c), Decide(c)
    PROVE  Conn(c)'
<1>1. PICK b \in Seq(Part) : b = buf[c]
  BY TypesAt
<1>2. PICK l \in 0 .. 1 : l = BodyLength(Asked(c, cur[c]))
  BY LengthIs
<1>3. PICK t : t = SubSeq(b, l + 1, Len(b))
  OBVIOUS
<1>4. pc[c] = "body" /\ Len(b) >= l /\ Len(b) \in Nat
  BY <1>1, <1>2 DEF Decide, Framed, NeedsMore
<1>5. t \in Seq(Part) /\ Len(t) = Len(b) - l /\ \A i \in 1 .. Len(t) : t[i] = b[l + i]
  BY <1>2, <1>3, <1>4
<1>6. /\ pc'[c] \in {"lookup", "forward"} /\ cur'[c] = cur[c] /\ buf'[c] = t
      /\ asked'[c] = asked[c] /\ net'[c] = net[c] /\ (c \in hung' <=> c \in hung)
      /\ got'[c] = got[c] /\ reply'[c] = reply[c] /\ out'[c] = out[c]
      /\ \/ pc'[c] = "lookup" /\ approved'[c] = approved[c]
         \/ /\ pc'[c] = "forward" /\ approved'[c] = approved[c] \cup {cur[c]}
            /\ Asked(c, cur[c]).target = None
  <2>1. buf'[c] = t
    BY <1>1, <1>2, <1>3 DEF Decide, Rest, Typed, WireTyped
  <2>2. CASE Asked(c, cur[c]).target # None
    BY <2>1, <2>2 DEF Decide, client, docker, Goto, Typed, WireTyped
  <2>3. CASE Asked(c, cur[c]).target = None
    BY <2>1, <2>3 DEF Decide, client, docker, Goto, Typed, WireTyped
  <2>. QED
    BY <2>2, <2>3
<1>7. cur[c] \in Nat \ {0} /\ approved[c] \in SUBSET Nat
  BY <1>4, TypesAt DEF Conn, CurOK
<1>8. PICK u \in Part : u = Used(c)
  BY <1>4, UsedIs
<1>9. u = <<cur[c], 0>> /\ Used(c)' = <<cur[c], l>>
  BY <1>2, <1>4, <1>6, <1>7, <1>8 DEF Used, EndOf, Asked
<1>10. Continues(asked[c], u, b)
  BY <1>1, <1>4, <1>8 DEF Conn, StreamOK
<1>11. <<cur[c], l>> = IF l = 0 THEN u ELSE b[l]
  <2>1. CASE l = 0
    BY <2>1, <1>9
  <2>2. CASE l # 0
    <3>1. l = 1 /\ 1 \in DOMAIN b
      BY <2>2, <1>2, <1>4
    <3>2. b[1] = After(asked[c], u)
      BY <3>1, <1>10 DEF Continues
    <3>3. After(asked[c], <<cur[c], 0>>) = <<cur[c], 1>>
      BY <3>1, <1>2, <1>7 DEF After, EndOf, Asked
    <3>. QED
      BY <3>1, <3>2, <3>3, <1>9
  <2>. QED
    BY <2>1, <2>2
<1>12. PICK v : v = <<cur[c], l>>
  OBVIOUS
<1>13. l \in 0 .. Len(b)
  BY <1>2, <1>4
<1>14. Continues(asked[c], v, t) /\ Reached(v, t) = Reached(u, b)
  <2>1. v = IF l = 0 THEN u ELSE b[l]
    BY <1>11, <1>12
  <2>2. Dropped(u, b, l, v, t)
    BY <1>5, <1>13, <2>1 DEF Dropped
  <2>. QED
    BY <1>5, <1>10, <2>2, Suffix
<1>15. Forwarded(c)' = Forwarded(c)
  BY <1>4, <1>6 DEF Forwarded
<1>16. StreamOK(c)'
  <2>1. Used(c)' = v /\ Reached(Used(c)', buf'[c]) = Reached(u, b)
    BY <1>6, <1>9, <1>12, <1>14
  <2>2. /\ Continues(asked[c], Start, got[c]) /\ Reached(Start, got[c]) = Forwarded(c)
        /\ Continues(asked[c], Reached(u, b), net[c])
        /\ c \notin hung => Reached(Reached(u, b), net[c]) = EndOf(asked[c], Len(asked[c]))
    BY <1>1, <1>4, <1>8 DEF Conn, StreamOK
  <2>. QED
    BY <1>6, <1>14, <1>15, <2>1, <2>2 DEF StreamOK
<1>17. CurOK(c)' /\ ReplyOK(c)' /\ RepliesOK(c)'
  BY <1>4, <1>6 DEF Conn, CurOK, ReplyOK, RepliesOK
<1>18. ApprovedOK(c)'
  <2>1. cur[c] \in 1 .. cur[c] /\ None # Gateway
    BY <1>7, ProxyAssumption
  <2>. QED
    BY <1>4, <1>6, <2>1 DEF Conn, ApprovedOK, Asked
<1>19. GotOK(c)'
  BY <1>6, GotStill DEF Conn
<1>. QED
  BY <1>16, <1>17, <1>18, <1>19 DEF Conn

LEMMA ForwardKeeps ==
    ASSUME Typed, NEW c \in Conns, Conn(c), Forward(c)
    PROVE  Conn(c)'
<1>1. PICK g \in Seq(Part) : g = got[c]
  BY TypesAt
<1>2. PICK a \in Seq(Requests) : a = asked[c]
  BY TypesAt
<1>3. PICK n \in 1 .. Len(a) : n = cur[c]
  BY <1>2, TypesAt DEF Conn, CurOK, Forward
<1>4. PICK w \in Seq(Part) : w = Parts(n, a[n])
  BY Whole
<1>5. /\ pc[c] = "forward" /\ pc'[c] = "reply" /\ got'[c] = g \o w
      /\ asked'[c] = asked[c] /\ net'[c] = net[c] /\ (c \in hung' <=> c \in hung)
      /\ buf'[c] = buf[c] /\ cur'[c] = cur[c] /\ approved'[c] = approved[c]
      /\ reply'[c] = reply[c] /\ out'[c] = out[c]
  BY <1>1, <1>2, <1>3, <1>4 DEF Forward, Asked, client, Goto, Typed, WireTyped
<1>6. Start \in Part
  BY DEF Start, Part
<1>7. Continues(a, Start, g) /\ Reached(Start, g) = EndOf(a, n - 1)
  BY <1>1, <1>2, <1>3, <1>5 DEF Conn, StreamOK, Forwarded
<1>8. /\ Continues(a, EndOf(a, n - 1), w) /\ Reached(EndOf(a, n - 1), w) = EndOf(a, n)
  BY <1>4, Whole
<1>9. Continues(a, Start, g \o w) /\ Reached(Start, g \o w) = EndOf(a, n)
  BY <1>6, <1>7, <1>8, Join
<1>10. Used(c)' = Used(c) /\ Forwarded(c)' = EndOf(a, n)
  BY <1>2, <1>3, <1>5 DEF Used, Forwarded
<1>11. StreamOK(c)'
  BY <1>2, <1>5, <1>9, <1>10 DEF Conn, StreamOK
<1>12. CurOK(c)' /\ ApprovedOK(c)' /\ ReplyOK(c)' /\ RepliesOK(c)'
  BY <1>5 DEF Conn, CurOK, ApprovedOK, ReplyOK, RepliesOK, Cut, Asked
<1>13. GotOK(c)'
  <2>1. n \in approved[c]
    BY <1>3, <1>5 DEF Conn, ApprovedOK
  <2>2. \A k \in DOMAIN w : w[k][1] = n
    BY <1>4 DEF Parts
  <2>3. ASSUME NEW k \in DOMAIN (g \o w)
        PROVE  (k \in DOMAIN g /\ (g \o w)[k] = g[k]) \/ (g \o w)[k][1] = n
    <3>1. /\ Len(g) \in Nat /\ Len(w) \in Nat /\ DOMAIN g = 1 .. Len(g) /\ DOMAIN w = 1 .. Len(w)
          /\ k \in 1 .. Len(g) + Len(w)
          /\ (g \o w)[k] = IF k <= Len(g) THEN g[k] ELSE w[k - Len(g)]
      BY <2>3, ConcatProperties
    <3>2. CASE k <= Len(g)
      BY <3>1, <3>2
    <3>3. CASE k > Len(g)
      <4>1. k - Len(g) \in DOMAIN w /\ (g \o w)[k] = w[k - Len(g)]
        BY <3>1, <3>3
      <4>. QED
        BY <2>2, <4>1
    <3>. QED
      BY <3>1, <3>2, <3>3
  <2>4. UpgradedAt(c)' = UpgradedAt(c)
    BY <1>5 DEF UpgradedAt
  <2>. QED
    BY <1>1, <1>5, <2>1, <2>3, <2>4 DEF Conn, GotOK
<1>. QED
  BY <1>11, <1>12, <1>13 DEF Conn

\* What follows on the whole of a request is of a later one.
LEMMA LaterParts ==
    ASSUME NEW asks, NEW p \in Part, NEW s \in Seq(Part), NEW n \in Nat,
           Continues(asks, p, s), p = EndOf(asks, n) \/ p[1] > n,
           p = EndOf(asks, n) => n # 0
    PROVE  /\ \A k \in DOMAIN s : s[k][1] > n
           /\ Reached(p, s) = p \/ Reached(p, s)[1] > n
<1>1. ASSUME NEW k \in DOMAIN s PROVE s[k][1] > n
  <2>1. Before(p, s[k]) /\ s[k][2] <= BodyLength(asks[s[k][1]]) /\ s[k] \in Part
    BY DEF Continues
  <2>2. s[k][1] \in Nat /\ s[k][2] \in Nat /\ p[1] \in Nat /\ p[2] \in Nat
    BY <2>1 DEF Part
  <2>3. CASE p[1] > n
    BY <2>1, <2>2, <2>3 DEF Before
  <2>4. CASE p = EndOf(asks, n)
    <3>1. p[1] = n /\ p[2] = BodyLength(asks[n])
      BY <2>4 DEF EndOf
    <3>2. CASE s[k][1] = n
      <4>1. s[k][2] <= p[2]
        BY <2>1, <3>1, <3>2
      <4>. QED
        BY <2>1, <2>2, <3>1, <3>2, <4>1 DEF Before
    <3>3. CASE s[k][1] # n
      BY <2>1, <2>2, <3>1, <3>3 DEF Before
    <3>. QED
      BY <3>2, <3>3
  <2>. QED
    BY <2>3, <2>4
<1>2. Len(s) \in Nat /\ DOMAIN s = 1 .. Len(s) /\ (Len(s) # 0 => Len(s) \in DOMAIN s)
  OBVIOUS
<1>. QED
  BY <1>1, <1>2, ReachedIs

LEMMA UpgradeKeeps ==
    ASSUME Typed, NEW c \in Conns, Conn(c), Upgrade(c)
    PROVE  Conn(c)'
<1>1. PICK g \in Seq(Part) : g = got[c]
  BY TypesAt
<1>2. PICK a \in Seq(Requests) : a = asked[c]
  BY TypesAt
<1>3. PICK n \in 1 .. Len(a) : n = cur[c]
  BY <1>2, TypesAt DEF Conn, CurOK, Upgrade
<1>4. PICK b \in Seq(Part) : b = buf[c]
  BY TypesAt
<1>5. PICK t \in Seq(Part) : t = net[c]
  BY TypesAt
<1>6. /\ pc[c] = "reply" /\ pc'[c] = "raw" /\ got'[c] = g \o b /\ buf'[c] = <<>>
      /\ asked'[c] = asked[c] /\ net'[c] = net[c] /\ (c \in hung' <=> c \in hung)
      /\ cur'[c] = cur[c] /\ approved'[c] = approved[c] /\ reply'[c] = None
  BY <1>1, <1>4 DEF Upgrade, client, Goto, Typed, WireTyped
<1>7. n \in Nat \ {0} /\ n \in DOMAIN asked[c] /\ EndOf(a, n) \in Part /\ Start \in Part
  BY <1>2, EndIsPart DEF Start, Part
<1>8. /\ Ordered(out'[c]) /\ \A k \in DOMAIN out'[c] : out'[c][k].to \in DOMAIN asked[c]
      /\ ToSet(out[c]) \subseteq ToSet(out'[c])
      /\ [to |-> n, what |-> "101"] \in ToSet(out'[c])
  <2>1. Say(c, n, "101") /\ Replied(out[c], n - 1) /\ ~Cut(c)
    BY <1>3, <1>6, ProxyAssumption DEF Conn, RepliesOK, Upgrade
  <2>. QED
    BY <1>7, <2>1, SaidKeeps
<1>9. /\ Continues(a, Start, g) /\ Reached(Start, g) = EndOf(a, n)
      /\ Continues(a, EndOf(a, n), b)
      /\ Continues(a, Reached(EndOf(a, n), b), t)
      /\ c \notin hung => Reached(Reached(EndOf(a, n), b), t) = EndOf(a, Len(a))
  BY <1>1, <1>2, <1>3, <1>4, <1>5, <1>6 DEF Conn, StreamOK, Forwarded, Used
<1>10. PICK r \in Part : r = Reached(EndOf(a, n), b)
  BY <1>7, ReachedIs
<1>11. Continues(a, Start, g \o b) /\ Reached(Start, g \o b) = r
  BY <1>7, <1>9, <1>10, Join
<1>12. Used(c)' = r /\ Reached(r, <<>>) = r
  BY <1>6, <1>11 DEF Used, Reached
<1>13. Continues(a, r, <<>>)
  BY DEF Continues
<1>14. StreamOK(c)'
  BY <1>2, <1>5, <1>6, <1>9, <1>10, <1>11, <1>12, <1>13 DEF StreamOK
<1>15. CurOK(c)' /\ ReplyOK(c)' /\ ApprovedOK(c)'
  BY <1>6 DEF Conn, CurOK, ReplyOK, ApprovedOK, Asked
<1>16. RepliesOK(c)'
  BY <1>6, <1>8 DEF RepliesOK
<1>17. GotOK(c)'
  <2>1. n \in UpgradedAt(c)' /\ UpgradedAt(c) \subseteq UpgradedAt(c)'
    BY <1>3, <1>6, <1>8 DEF UpgradedAt, Conn, ApprovedOK
  <2>2. /\ \A k \in DOMAIN b : b[k][1] > n
        /\ r = EndOf(a, n) \/ r[1] > n
    BY <1>7, <1>9, <1>10, LaterParts
  <2>3. \A k \in DOMAIN t : t[k][1] > n
    BY <1>7, <1>9, <1>10, <2>2, LaterParts
  <2>4. ASSUME NEW k \in DOMAIN (g \o b)
        PROVE  (k \in DOMAIN g /\ (g \o b)[k] = g[k]) \/ (g \o b)[k][1] > n
    <3>1. /\ Len(g) \in Nat /\ Len(b) \in Nat /\ DOMAIN g = 1 .. Len(g) /\ DOMAIN b = 1 .. Len(b)
          /\ k \in 1 .. Len(g) + Len(b)
          /\ (g \o b)[k] = IF k <= Len(g) THEN g[k] ELSE b[k - Len(g)]
      BY <2>4, ConcatProperties
    <3>2. CASE k <= Len(g)
      BY <3>1, <3>2
    <3>3. CASE k > Len(g)
      <4>1. k - Len(g) \in DOMAIN b /\ (g \o b)[k] = b[k - Len(g)]
        BY <3>1, <3>3
      <4>. QED
        BY <2>2, <4>1
    <3>. QED
      BY <3>1, <3>2, <3>3
  <2>5. \A k \in DOMAIN (g \o b) :
           \/ (g \o b)[k][1] \in approved'[c]
           \/ \E m \in UpgradedAt(c)' : m < (g \o b)[k][1]
    <3>1. \A k \in DOMAIN g : g[k][1] \in approved'[c] \/ \E m \in UpgradedAt(c)' : m < g[k][1]
      BY <1>1, <1>6, <2>1 DEF Conn, GotOK
    <3>2. \A k \in DOMAIN (g \o b) : (g \o b)[k][1] > n => n < (g \o b)[k][1]
      OBVIOUS
    <3>. QED
      BY <2>1, <2>4, <3>1, <3>2
  <2>. QED
    BY <1>3, <1>5, <1>6, <2>1, <2>3, <2>5 DEF GotOK
<1>. QED
  BY <1>14, <1>15, <1>16, <1>17 DEF Conn

LEMMA PumpKeeps ==
    ASSUME Typed, NEW c \in Conns, Conn(c), Pump(c)
    PROVE  Conn(c)'
<1>1. PICK g \in Seq(Part) : g = got[c]
  BY TypesAt
<1>2. PICK t \in Seq(Part) : t = net[c]
  BY TypesAt
<1>3. /\ pc[c] = "raw" /\ pc'[c] = "raw" /\ got'[c] = g \o t /\ net'[c] = <<>>
      /\ asked'[c] = asked[c] /\ buf'[c] = buf[c] /\ (c \in hung' <=> c \in hung)
      /\ cur'[c] = cur[c] /\ approved'[c] = approved[c] /\ reply'[c] = reply[c] /\ out'[c] = out[c]
  BY <1>1, <1>2 DEF Pump, thread, Typed, WireTyped
<1>4. buf[c] = <<>> /\ Start \in Part
  BY <1>3 DEF Conn, GotOK, Start, Part
<1>5. PICK r \in Part : r = Reached(Start, g)
  BY <1>4, ReachedIs
<1>6. /\ Continues(asked[c], Start, g) /\ Continues(asked[c], r, t)
      /\ c \notin hung => Reached(r, t) = EndOf(asked[c], Len(asked[c]))
  BY <1>1, <1>2, <1>3, <1>4, <1>5 DEF Conn, StreamOK, Used, Reached
<1>7. Continues(asked[c], Start, g \o t) /\ Reached(Start, g \o t) = Reached(r, t)
  BY <1>4, <1>5, <1>6, Join
<1>8. PICK v : v = Reached(r, t)
  OBVIOUS
<1>9. Used(c)' = v /\ Reached(v, <<>>) = v
  BY <1>3, <1>7, <1>8 DEF Used, Reached
<1>10. Continues(asked[c], v, <<>>)
  BY DEF Continues
<1>11. StreamOK(c)'
  BY <1>3, <1>4, <1>6, <1>7, <1>8, <1>9, <1>10 DEF StreamOK
<1>12. CurOK(c)' /\ ReplyOK(c)' /\ ApprovedOK(c)' /\ RepliesOK(c)'
  BY <1>3 DEF Conn, CurOK, ReplyOK, ApprovedOK, RepliesOK, Cut, Asked
<1>13. GotOK(c)'
  <2>1. UpgradedAt(c)' = UpgradedAt(c) /\ cur[c] \in UpgradedAt(c)
    BY <1>3 DEF UpgradedAt, Conn, GotOK
  <2>2. \A k \in DOMAIN t : t[k][1] > cur[c]
    BY <1>2, <1>3 DEF Conn, GotOK
  <2>3. ASSUME NEW k \in DOMAIN (g \o t)
        PROVE  (k \in DOMAIN g /\ (g \o t)[k] = g[k]) \/ (g \o t)[k][1] > cur[c]
    <3>1. /\ Len(g) \in Nat /\ Len(t) \in Nat /\ DOMAIN g = 1 .. Len(g) /\ DOMAIN t = 1 .. Len(t)
          /\ k \in 1 .. Len(g) + Len(t)
          /\ (g \o t)[k] = IF k <= Len(g) THEN g[k] ELSE t[k - Len(g)]
      BY <2>3, ConcatProperties
    <3>2. CASE k <= Len(g)
      BY <3>1, <3>2
    <3>3. CASE k > Len(g)
      <4>1. k - Len(g) \in DOMAIN t /\ (g \o t)[k] = t[k - Len(g)]
        BY <3>1, <3>3
      <4>. QED
        BY <2>2, <4>1
    <3>. QED
      BY <3>1, <3>2, <3>3
  <2>4. \A k \in DOMAIN g : g[k][1] \in approved[c] \/ \E m \in UpgradedAt(c) : m < g[k][1]
    BY <1>1 DEF Conn, GotOK
  <2>5. \A k \in DOMAIN (g \o t) :
           \/ (g \o t)[k][1] \in approved[c]
           \/ \E m \in UpgradedAt(c) : m < (g \o t)[k][1]
    <3>1. \A k \in DOMAIN (g \o t) : (g \o t)[k][1] > cur[c] => cur[c] < (g \o t)[k][1]
      OBVIOUS
    <3>. QED
      BY <2>1, <2>3, <2>4, <3>1
  <2>. QED
    BY <1>3, <1>4, <2>1, <2>5 DEF GotOK
<1>. QED
  BY <1>11, <1>12, <1>13 DEF Conn

-----------------------------------------------------------------------------
(***************************************************************************)
(* The whole.                                                              *)
(***************************************************************************)
LEMMA InitProxy == Init => ProxyInv
<1>. SUFFICES ASSUME Init PROVE ProxyInv
  OBVIOUS
<1>1. Typed
  <2>1. \A S : <<>> \in Seq(S)
    OBVIOUS
  <2>. QED
    BY <2>1 DEF Init, Typed, WireTyped, States
<1>2. ASSUME NEW c \in Conns PROVE Conn(c)
  <2>1. /\ asked[c] = <<>> /\ net[c] = <<>> /\ buf[c] = <<>> /\ got[c] = <<>> /\ out[c] = <<>>
        /\ pc[c] = "free" /\ cur[c] = 0 /\ approved[c] = {} /\ reply[c] = None
    BY DEF Init
  <2>2. \A a, p : Continues(a, p, <<>>) /\ Reached(p, <<>>) = p
    BY DEF Continues, Reached
  <2>3. Used(c) = Start /\ Forwarded(c) = Start /\ EndOf(asked[c], Len(asked[c])) = Start
    BY <2>1 DEF Used, Forwarded, EndOf, Start
  <2>4. StreamOK(c)
    BY <2>1, <2>2, <2>3 DEF StreamOK
  <2>5. CurOK(c) /\ ApprovedOK(c) /\ ReplyOK(c)
    BY <2>1 DEF CurOK, ApprovedOK, ReplyOK
  <2>6. GotOK(c)
    BY <2>1 DEF GotOK
  <2>7. RepliesOK(c)
    BY <2>1 DEF RepliesOK, Ordered, Replied, ReachTo, Cut
  <2>. QED
    BY <2>4, <2>5, <2>6, <2>7 DEF Conn
<1>. QED
  BY <1>1, <1>2, InvIs

LEMMA NextProxy ==
    ASSUME Typed, \A c \in Conns : Conn(c), [Next]_vars
    PROVE  Typed' /\ \A c \in Conns : Conn(c)'
<1>1. ASSUME NEW c \in Conns,
             \/ Handle(c) \/ RelayChunk(c) \/ RelayCut(c) \/ UpstreamFails(c) \/ Perform(c)
             \/ HangUp(c) \/ \E q \in Requests : Send(c, q)
      PROVE  Typed' /\ \A d \in Conns : Conn(d)'
  <2>1. \A d \in Conns \ {c} : Conn(d)'
    BY <1>1, TurnIs, ApartKeeps DEF Turn
  <2>2. CASE HangUp(c) \/ \E q \in Requests : Send(c, q)
    BY <2>1, <2>2, ClientTyped, HangUpKeeps, SendKeeps
  <2>3. CASE Accept(c) \/ Receive(c) \/ ParseHead(c) \/ Decide(c) \/ Lookup(c) \/ Forward(c) \/ Pump(c)
    BY <2>1, <2>3, StreamTyped, AcceptKeeps, ReceiveKeeps, ParseHeadKeeps, DecideKeeps, LookupKeeps,
       ForwardKeeps, PumpKeeps
  <2>4. CASE EndOfStream(c) \/ PipeEnds(c) \/ ClientGone(c) \/ UpstreamFails(c) \/ UpstreamGone(c)
    BY <2>1, <2>4, RepliesTyped, QuietEndKeeps
  <2>5. CASE RefuseHead(c) \/ DecideNot(c) \/ LookupNot(c) \/ RelayLast(c)
    BY <2>1, <2>5, RepliesTyped, RefusalKeeps
  <2>6. CASE Relay(c) \/ RelayCut(c) \/ RelayHead(c) \/ RelayChunk(c) \/ Upgrade(c)
    BY <2>1, <2>6, RepliesTyped, RelayKeeps, RelayPartKeeps, UpgradeKeeps
  <2>7. CASE Perform(c)
    BY <2>1, <2>7, DockerTyped, PerformKeeps
  <2>. QED
    BY <1>1, <2>2, <2>3, <2>4, <2>5, <2>6, <2>7 DEF Handle
<1>2. CASE Exit
  <2>1. \A d \in Conns : Apart(d)
    BY <1>2 DEF Exit, client, thread, Apart
  <2>. QED
    BY <1>2, <2>1, DockerTyped, ApartKeeps
<1>3. CASE UNCHANGED vars
  <2>1. \A d \in Conns : Apart(d)
    BY <1>3 DEF vars, Apart
  <2>2. Typed'
    BY <1>3 DEF vars, Typed, WireTyped
  <2>. QED
    BY <2>1, <2>2, ApartKeeps
<1>. QED
  BY <1>1, <1>2, <1>3 DEF Next, Idle

\* The invariant holds of every state of every behaviour.
THEOREM ProxyInvAlways == Spec => []ProxyInv
<1>. DEFINE Each == Typed /\ \A c \in Conns : Conn(c)
<1>1. Init => Each
  BY InitProxy, InvIs
<1>2. Each /\ [Next]_vars => Each'
  BY NextProxy
<1>3. Each => ProxyInv
  BY InvIs
<1>. HIDE DEF Each
<1>. QED
  BY <1>1, <1>2, <1>3, PTL DEF Spec

\* What dockerd is sent on a connection is a beginning of what the client sent,
\* nothing is decided on after an attach, and the replies come in the order of the
\* requests, each one whole before the next, unless dockerd cut it short: then a
\* refusal is all that can follow.
THEOREM StreamInvAlways == Spec => []StreamInv
<1>1. ProxyInv => TypeOK
  BY DEF ProxyInv
<1>2. ProxyInv => SameStream
  BY DEF ProxyInv, StreamOK, Continues, SameStream, Start, EndOf
<1>3. ProxyInv => AttachIsLast
  <2>. SUFFICES ASSUME ProxyInv, NEW c \in Conns, NEW n \in approved[c], NEW k \in approved[c],
                       Asked(c, n).kind = "attach"
                PROVE  k <= n
    BY DEF AttachIsLast
  <2>1. n = cur[c] /\ k \in 1 .. cur[c]
    BY DEF ProxyInv, ApprovedOK
  <2>2. cur[c] \in Nat
    BY DEF ProxyInv, WireTyped
  <2>. QED
    BY <2>1, <2>2
<1>4. ProxyInv => RepliesInOrder
  BY DEF ProxyInv, RepliesOK, Ordered, RepliesInOrder
<1>. QED
  BY <1>1, <1>2, <1>3, <1>4, ProxyInvAlways, PTL DEF StreamInv

\* Every part dockerd is sent is of a request that was found allowed, or comes
\* after an attach that dockerd upgraded.
THEOREM OnlyApprovedAlways == Spec => []OnlyApproved
<1>1. ProxyInv => OnlyApproved
  BY DEF ProxyInv, GotOK, OnlyApproved
<1>. QED
  BY <1>1, ProxyInvAlways, PTL

\* No request that dockerd is sent as approved names a container that is not the
\* mutator.
THEOREM GatewayUntouchedAlways == Spec => []GatewayUntouched
<1>1. ProxyInv => GatewayUntouched
  BY DEF ProxyInv, ApprovedOK, GatewayUntouched
<1>. QED
  BY <1>1, ProxyInvAlways, PTL
=============================================================================
