--------------------------- MODULE RequestProofs ---------------------------
(***************************************************************************)
(* Theorems about what an application learns of a request and what leaves  *)
(* with its answer, as MCStandalone has it: ClientIp (IPS), for every      *)
(* deployment and whatever clients write, Incoming (I) and Outgoing (O),   *)
(* for every order of the middlewares, and Files (FILE!F), for names of    *)
(* any length.  And about the composition itself: what these and the       *)
(* modules it extends prove of the parts holds of it.                      *)
(***************************************************************************)
EXTENDS GuardsProofs, RateLimiterProofs

(* The address of the client. *)

Address == Written \cup Client \cup { Proxies[i] : i \in 1 .. Len(Proxies) }

\* The peers that the proxies have put down, the nearest to the client first.
PeerAt(i) == IF i = 1 THEN client ELSE Proxies[i - 1]

\* The inductive invariant: whatever came before them in the header, its last
\* entries are the peers of the proxies that have passed the request on.
PathInv ==
    /\ deployment \in IPS!Deployments /\ client \in Client /\ hop \in 0 .. deployment.proxies
    /\ xff \in Seq(Address) /\ hop <= Len(xff)
    /\ \A i \in 1 .. hop : xff[Len(xff) - hop + i] = PeerAt(i)
    /\ honest => Len(xff) = hop
    /\ deployment.platform = "edge" /\ hop > 0 => header = client
    /\ ip # Blank => hop = deployment.proxies
    /\ IPS!ClientIsPeer

\* A deployment has no more proxies than there are.
LEMMA Deployed ==
    ASSUME IPS!Options, PathInv
    PROVE  /\ hop \in Nat /\ deployment.proxies \in Nat /\ hop <= deployment.proxies
           /\ deployment.proxies <= Len(Proxies) /\ Len(Proxies) \in Nat
           /\ IPS!Trusted \in Nat /\ IPS!Trusted >= 1
           /\ deployment.platform \in {"generic", "aws-alb", "edge"}
           /\ deployment.platform = "edge" => deployment.proxies > 0
           /\ \A i \in 1 .. hop + 1 : PeerAt(i) \in Address /\ PeerAt(i) # Blank
                                      /\ sanitizeIP[PeerAt(i)] = PeerAt(i)
<1>1. Len(Proxies) \in Nat /\ \A i \in 1 .. Len(Proxies) : Proxies[i] \in IPS!Range(Proxies)
  BY DEF IPS!Options
<1>2. /\ deployment \in [proxies : 0 .. Len(Proxies), platform : {"generic", "aws-alb", "edge"},
                         TrustedProxyCount : 0 .. Len(Proxies)]
      /\ deployment.platform # "generic" => deployment.proxies > 0
  BY DEF PathInv, IPS!Deployments
<1>3. IPS!Trusted \in Nat /\ IPS!Trusted >= 1
  BY <1>1, <1>2 DEF IPS!Trusted
<1>4. hop \in Nat /\ deployment.proxies \in Nat /\ hop <= deployment.proxies
      /\ deployment.proxies <= Len(Proxies)
  BY <1>1, <1>2 DEF PathInv
<1>5. ASSUME NEW i \in 1 .. hop + 1
      PROVE  PeerAt(i) \in Address /\ PeerAt(i) # Blank /\ sanitizeIP[PeerAt(i)] = PeerAt(i)
  <2>1. CASE i = 1
    BY <2>1 DEF PeerAt, Address, PathInv, IPS!Options
  <2>2. CASE i # 1
    <3>1. i - 1 \in 1 .. Len(Proxies)
      BY <1>1, <1>4, <2>2
    <3> QED BY <1>1, <2>2, <3>1 DEF PeerAt, Address, IPS!Options
  <2> QED BY <2>1, <2>2
<1> QED BY <1>1, <1>2, <1>3, <1>4, <1>5

\* Read from the right, the header names the peer of the outermost trusted
\* proxy, however many entries, empty or not, stand to the left of it.
LEMMA ReadFromRight ==
    ASSUME IPS!Options, PathInv, hop >= IPS!Trusted
    PROVE  IPS!parseXFFRightToLeft(xff) = PeerAt(hop - IPS!Trusted + 1)
<1> DEFINE l == Len(xff)
           t == IPS!Trusted
           E == IPS!Entries(xff)
           k == l - t + 1
<1>1. l \in Nat /\ t \in Nat /\ t >= 1 /\ hop \in Nat /\ t <= hop /\ hop <= l
  BY Deployed DEF PathInv
<1>2. DOMAIN xff = 1 .. l
  BY DEF PathInv
<1>3. E \subseteq 1 .. l /\ IsFiniteSet(1 .. l)
  BY <1>1, <1>2, FS_Interval DEF IPS!Entries
<1>4. ASSUME NEW i \in l - hop + 1 .. l
      PROVE  i \in E /\ xff[i] = PeerAt(i - (l - hop))
  <2>1. i - (l - hop) \in 1 .. hop /\ l - hop + (i - (l - hop)) = i
    BY <1>1
  <2>2. xff[i] = PeerAt(i - (l - hop))
    BY <2>1 DEF PathInv
  <2>3. xff[i] # Blank
    BY <1>1, <2>1, <2>2, Deployed
  <2> QED BY <1>1, <1>2, <2>2, <2>3 DEF IPS!Entries
<1>5. k \in Int /\ k \in l - hop + 1 .. l /\ k >= 1
  BY <1>1
<1> DEFINE After(i) == {j \in E : j >= i}
<1>6. \A i : IPS!FromRight(xff, i) = Cardinality(After(i))
  BY DEF IPS!FromRight, IPS!Cardinality, Cardinality
<1> HIDE DEF E, l, t
<1>7. IsFiniteSet(E) /\ Cardinality(E) \in Nat
  BY <1>3, FS_Subset, FS_CardinalityType
<1>8. ASSUME NEW i \in Int
      PROVE  /\ IsFiniteSet(After(i)) /\ Cardinality(After(i)) \in Nat
             /\ Cardinality(After(i)) <= Cardinality(E)
             /\ i <= l => Cardinality(After(i)) <= l - i + 1
  <2>1. After(i) \in SUBSET E
    OBVIOUS
  <2>2. IsFiniteSet(After(i)) /\ Cardinality(After(i)) \in Nat /\ Cardinality(After(i)) <= Cardinality(E)
    <3> HIDE DEF After
    <3> QED BY <1>7, <2>1, FS_Subset, FS_CardinalityType
  <2>3. ASSUME i <= l PROVE Cardinality(After(i)) <= l - i + 1
    <3>1. \A j \in E : j \in 1 .. l
      BY <1>3
    <3>2. \A j \in E : j >= i => j \in i .. l
      BY <1>1, <3>1
    <3>3. After(i) \in SUBSET (i .. l)
      BY <3>2
    <3>4. IsFiniteSet(i .. l) /\ Cardinality(i .. l) = l - i + 1
      BY <1>1, <2>3, FS_Interval
    <3> HIDE DEF After
    <3> QED BY <3>3, <3>4, FS_Subset, ZenonT(60)
  <2> QED BY <2>2, <2>3
<1>9. ASSUME NEW i \in 1 .. k PROVE Cardinality(After(i)) >= t
  <2>1. \A j \in k .. l : j \in E /\ j >= i
    BY <1>1, <1>4, <1>5
  <2>2. k .. l \in SUBSET After(i)
    BY <2>1
  <2>3. Cardinality(k .. l) = t
    BY <1>1, <1>5, FS_Interval
  <2>4. IsFiniteSet(After(i)) /\ Cardinality(After(i)) \in Nat
    BY <1>5, <1>8
  <2> HIDE DEF After, k
  <2>5. Cardinality(k .. l) <= Cardinality(After(i))
    BY <2>2, <2>4, FS_Subset
  <2> QED BY <2>3, <2>5
<1>10. Cardinality(After(k)) = t
  <2>1. k \in 1 .. k /\ k <= l /\ l - k + 1 = t
    BY <1>1, <1>5
  <2>2. Cardinality(After(k)) >= t
    BY <1>9, <2>1
  <2>3. Cardinality(After(k)) <= t /\ Cardinality(After(k)) \in Nat
    <3> HIDE DEF After, k
    <3> QED BY <1>5, <1>8, <2>1
  <2> HIDE DEF After, k
  <2> QED BY <1>1, <2>2, <2>3
\* Further left there are more, further right fewer.
<1>11. ASSUME NEW i \in E, i # k PROVE Cardinality(After(i)) # t
  <2>1. i \in 1 .. l /\ i \in Int
    BY <1>1, <1>3
  <2>2. CASE i < k
    <3>1. \A j \in E : j \in Int /\ (j >= k => j >= i)
      BY <1>1, <1>3, <1>5, <2>1, <2>2
    <3>2. After(k) \in SUBSET After(i) /\ i \in After(i) /\ i \notin After(k)
      <4>1. i >= i /\ ~(i >= k)
        BY <1>1, <1>5, <2>1, <2>2
      <4> HIDE DEF k
      <4> QED BY <1>11, <3>1, <4>1
    <3>3. IsFiniteSet(After(i))
      BY <1>8, <2>1
    <3> HIDE DEF After, k
    <3>4. Cardinality(After(i)) # Cardinality(After(k))
      BY <3>2, <3>3, FS_Subset
    <3> QED BY <1>10, <3>4
  <2>3. CASE i > k
    <3>1. i <= l /\ l - i + 1 < t
      BY <1>1, <1>5, <2>1, <2>3
    <3>2. Cardinality(After(i)) <= l - i + 1 /\ Cardinality(After(i)) \in Nat
      <4> HIDE DEF After
      <4> QED BY <1>8, <2>1, <3>1
    <3> HIDE DEF After
    <3> QED BY <1>1, <2>1, <3>1, <3>2
  <2>4. i < k \/ i > k
    BY <1>5, <1>11, <2>1
  <2> QED BY <2>2, <2>3, <2>4
<1>12. Cardinality(E) >= t
  BY <1>1, <1>5, <1>7, <1>8, <1>10
<1>13. k \in E /\ xff[k] = PeerAt(hop - t + 1)
  BY <1>1, <1>4, <1>5
<1>14. k = CHOOSE i \in E : Cardinality(After(i)) = t
  <2> HIDE DEF After, k
  <2> QED BY <1>10, <1>11, <1>13
<1>15. k = CHOOSE i \in E : IPS!FromRight(xff, i) = IF Cardinality(E) > t THEN t ELSE Cardinality(E)
  <2>1. (IF Cardinality(E) > t THEN t ELSE Cardinality(E)) = t
    BY <1>1, <1>7, <1>12
  <2> HIDE DEF After, k
  <2> QED BY <1>6, <1>14, <2>1
<1>16. sanitizeIP[xff[k]] = xff[k]
  <2>1. hop - t + 1 \in 1 .. hop + 1
    BY <1>1
  <2> QED BY <1>13, <2>1, Deployed
<1>17. IPS!Cardinality(E) = Cardinality(E)
  BY DEF IPS!Cardinality, Cardinality
<1>18. IPS!parseXFFRightToLeft(xff) =
          IF Cardinality(E) = 0 THEN Blank
          ELSE sanitizeIP[xff[CHOOSE i \in E : IPS!FromRight(xff, i) = IF Cardinality(E) > t THEN t ELSE Cardinality(E)]]
  <2>1. IPS!parseXFFRightToLeft(xff) =
          IF IPS!Cardinality(E) = 0 THEN Blank
          ELSE sanitizeIP[xff[CHOOSE i \in E :
                    IPS!FromRight(xff, i) = IF IPS!Cardinality(E) > t THEN t ELSE IPS!Cardinality(E)]]
    BY DEF IPS!parseXFFRightToLeft, E, t
  <2> QED BY <1>17, <2>1
<1> QED
  <2> HIDE DEF k
  <2> QED BY <1>1, <1>7, <1>12, <1>13, <1>15, <1>16, <1>18 DEF t

\* ClientIsPeer of DetectClientIP and GetClientIP: behind at least as many
\* proxies as are trusted the address is that of the peer of the outermost
\* trusted one, whatever the client wrote into the headers.
THEOREM ClientKnown == IPS!Spec => []IPS!ClientIsPeer
<1>0. IPS!Options
  BY StandaloneOptions
<1> USE <1>0
<1>1. IPS!Init => PathInv
  <2> SUFFICES ASSUME IPS!Init PROVE PathInv
    OBVIOUS
  <2>1. xff \in Seq(Address) /\ Len(xff) \in Nat
    <3>0. xff \in IPS!BoundedSeq(Written, MaxWritten)
      BY DEF IPS!Init
    <3>1. PICK n \in 0 .. MaxWritten : xff \in [1 .. n -> Written]
      BY <3>0 DEF IPS!BoundedSeq, IPS!SeqOf
    <3> QED BY <3>1 DEF Address
  <2>2. hop = 0 /\ ip = Blank /\ deployment \in IPS!Deployments /\ client \in Client
    BY DEF IPS!Init
  <2>3. 0 \in 0 .. deployment.proxies
    BY <2>2 DEF IPS!Deployments, IPS!Options
  <2>4. honest => Len(xff) = 0
    <3>1. honest = (xff = <<>> /\ header = Blank /\ realIp = Blank)
      BY DEF IPS!Init
    <3>2. honest => xff = <<>>
      BY <3>1
    <3> QED BY <3>2
  <2> QED BY <2>1, <2>2, <2>3, <2>4 DEF PathInv, IPS!ClientIsPeer
<1>2. PathInv /\ [IPS!Next]_(IPS!vars) => PathInv'
  <2> SUFFICES ASSUME PathInv, [IPS!Next]_(IPS!vars) PROVE PathInv'
    OBVIOUS
  <2> DEFINE n == deployment.proxies
  <2>0. /\ hop \in Nat /\ n \in Nat /\ hop <= n /\ IPS!Trusted \in Nat /\ IPS!Trusted >= 1
        /\ xff \in Seq(Address) /\ Len(xff) \in Nat /\ hop <= Len(xff)
    BY Deployed DEF PathInv
  <2>1. CASE IPS!Forward
    <3>1. /\ hop' = hop + 1 /\ hop < n /\ deployment' = deployment /\ client' = client
          /\ xff' = Append(xff, PeerAt(hop + 1)) /\ honest' = honest /\ ip' = ip /\ simple' = simple
          /\ header' = IF deployment.platform = "edge" /\ hop = 0 THEN client ELSE header
      BY <2>0, <2>1 DEF IPS!Forward, IPS!Peer, PeerAt
    <3>2. PeerAt(hop + 1) \in Address
      <4>1. hop + 1 \in 1 .. hop + 1
        BY <2>0
      <4> QED BY <4>1, Deployed
    <3>3. /\ xff' \in Seq(Address) /\ Len(xff') = Len(xff) + 1
          /\ xff'[Len(xff) + 1] = PeerAt(hop + 1) /\ \A i \in 1 .. Len(xff) : xff'[i] = xff[i]
      <4> HIDE DEF PeerAt
      <4> QED BY <2>0, <3>1, <3>2
    <3>4. ASSUME NEW i \in 1 .. hop' PROVE xff'[Len(xff') - hop' + i] = PeerAt(i)'
      <4>1. PeerAt(i)' = PeerAt(i)
        BY <3>1 DEF PeerAt
      <4>2. Len(xff') - hop' = Len(xff) - hop
        BY <2>0, <3>1, <3>3
      <4>3. CASE i = hop + 1
        BY <2>0, <3>1, <3>3, <4>1, <4>2, <4>3
      <4>4. CASE i # hop + 1
        <5>1. i \in 1 .. hop /\ Len(xff) - hop + i \in 1 .. Len(xff)
          BY <2>0, <3>1, <4>4
        <5> QED BY <3>3, <4>1, <4>2, <5>1 DEF PathInv
      <4> QED BY <4>3, <4>4
    <3>5. ip = Blank
      BY <2>0, <3>1 DEF PathInv
    <3>6. hop' \in 0 .. n /\ hop' <= Len(xff')
      BY <2>0, <3>1, <3>3
    <3>7. honest' => Len(xff') = hop'
      BY <2>0, <3>1, <3>3 DEF PathInv
    <3>8. deployment.platform = "edge" => header' = client
      BY <2>0, <3>1 DEF PathInv
    <3>9. deployment \in IPS!Deployments /\ client \in Client
      BY DEF PathInv
    <3> QED BY <3>1, <3>3, <3>4, <3>5, <3>6, <3>7, <3>8, <3>9 DEF PathInv, IPS!ClientIsPeer
  <2>2. CASE IPS!Arrive
    <3>1. /\ hop = n /\ ip' = IPS!DetectClientIP /\ simple' = IPS!GetClientIP
          /\ deployment' = deployment /\ client' = client /\ honest' = honest /\ hop' = hop
          /\ xff' = xff /\ header' = header /\ realIp' = realIp
      BY <2>2 DEF IPS!Arrive
    <3>2. ASSUME n >= IPS!Trusted
          PROVE  /\ ip' = IF deployment.platform = "edge" THEN client ELSE IPS!Path[n - IPS!Trusted + 1]
                 /\ honest /\ n = IPS!Trusted => simple' = ip'
      <4> DEFINE far == PeerAt(n - IPS!Trusted + 1)
      <4>1. IPS!parseXFFRightToLeft(xff) = far
        BY <3>1, <3>2, ReadFromRight
      <4>2. far # Blank
        <5>1. n - IPS!Trusted + 1 \in 1 .. hop + 1
          BY <2>0, <3>1, <3>2
        <5> QED BY <5>1, Deployed
      <4>3. deployment.platform = "edge" => header = client /\ client # Blank /\ sanitizeIP[header] = client
        <5>1. hop > 0
          BY <2>0, <3>1, <3>2
        <5> QED BY <5>1 DEF PathInv, IPS!Options
      <4>4. ip' = IF deployment.platform = "edge" THEN client ELSE far
        <5> HIDE DEF far
        <5> QED BY <3>1, <4>1, <4>2, <4>3, Deployed DEF IPS!DetectClientIP, IPS!getPlatformIP
      <4>5. far = IPS!Path[n - IPS!Trusted + 1]
        <5>1. n <= Len(Proxies) /\ Len(Proxies) \in Nat /\ Proxies \in Seq(IPS!Range(Proxies))
          BY Deployed DEF IPS!Options
        <5> DEFINE rest == SubSeq(Proxies, 1, n)
                   k == n - IPS!Trusted + 1
        <5>2. /\ Len(rest) = n /\ \A i \in 1 .. n : rest[i] = Proxies[i]
              /\ rest \in Seq(IPS!Range(Proxies))
          BY <2>0, <5>1
        <5>3. IPS!Path = <<client>> \o rest
          BY DEF IPS!Path
        <5>4. k \in 1 .. n /\ k \in Nat
          BY <2>0, <3>2
        <5> HIDE DEF rest, k
        <5>5. CASE k = 1
          <6>1. (<<client>> \o rest)[1] = client
            BY <5>2
          <6> QED BY <5>3, <5>5, <6>1 DEF PeerAt, k
        <5>6. CASE k # 1
          <6>1. (<<client>> \o rest)[k] = rest[k - 1] /\ k - 1 \in 1 .. n
            BY <2>0, <5>2, <5>4, <5>6
          <6> QED BY <5>2, <5>3, <5>6, <6>1 DEF PeerAt, k
        <5> QED BY <5>5, <5>6
      <4>6. ASSUME honest, n = IPS!Trusted PROVE simple' = ip'
        <5>1. Len(xff) = hop /\ hop >= 1
          BY <2>0, <3>1, <4>6 DEF PathInv
        <5>2. xff[Len(xff) - hop + 1] = PeerAt(1)
          <6>1. 1 \in 1 .. hop
            BY <2>0, <5>1
          <6> QED BY <6>1 DEF PathInv
        <5>3. Len(xff) - hop + 1 = 1 /\ n - IPS!Trusted + 1 = 1
          BY <2>0, <4>6, <5>1
        <5>4. Head(xff) = client /\ xff # <<>>
          BY <2>0, <5>1, <5>2, <5>3 DEF PeerAt
        <5>5. far = client
          BY <5>3 DEF PeerAt
        <5> HIDE DEF far
        <5> QED BY <3>1, <4>4, <5>4, <5>5 DEF IPS!GetClientIP
      <4> HIDE DEF far
      <4> QED BY <4>4, <4>5, <4>6
    <3>3. IPS!ClientIsPeer'
      <4>1. IPS!Trusted' = IPS!Trusted /\ IPS!Path' = IPS!Path
        BY <3>1 DEF IPS!Trusted, IPS!Path
      <4> QED BY <3>1, <3>2, <4>1 DEF IPS!ClientIsPeer
    <3> QED BY <3>1, <3>3 DEF PathInv, PeerAt
  <2>3. CASE UNCHANGED IPS!vars
    BY <2>3 DEF IPS!vars, PathInv, PeerAt, IPS!ClientIsPeer, IPS!Path, IPS!Trusted
  <2> QED BY <2>1, <2>2, <2>3 DEF IPS!Next
<1>3. PathInv => IPS!ClientIsPeer
  BY DEF PathInv
<1> QED BY <1>1, <1>2, <1>3, PTL DEF IPS!Spec
-----------------------------------------------------------------------------
(* What the handler reads. *)

Passed(m) == \E i \in 1 .. Len(inner) : i < turn /\ inner[i] = m

\* What HppMiddleware makes of parameters, and of the form's values.
Norm(f) == [p \in Param |-> I!LastWins(p, f[p])]
FormOf(p) == IF Len(sent.body[p]) > 1 /\ p \notin Listed THEN I!LastWins(p, sent.body[p])
             ELSE sent.body[p] \o Norm(sent.query)[p]

\* What has been passed decides what is left of the request: its query, its
\* body, and its form, which nobody but HppMiddleware parses.
Left ==
    /\ incoming.query = IF Passed("hpp") THEN Norm(sent.query) ELSE sent.query
    /\ sent.type = "json" =>
          incoming.body = IF Passed("mass") /\ sent.object THEN <<I!Filtered(sent.body)>> ELSE <<sent.body>>
    /\ sent.type = "form" =>
          IF Passed("hpp")
          THEN incoming.PostForm = <<Norm(sent.body)>> /\ incoming.Form = <<[p \in Param |-> FormOf(p)]>>
          ELSE incoming.body = <<sent.body>> /\ incoming.Form = <<>>

\* What the scan has let pass holds no attack, and nothing that became of it.
Clean ==
    Passed("scan") =>
        /\ ~I!Attacked(incoming.query)
        /\ sent.type = "json" => ~I!Attacked(incoming.body[1])
        /\ sent.type = "form" /\ ~I!Outside("hpp", "scan") => ~I!Attacked(sent.body)

Shaped(r) == r = [query |-> r.query, body |-> r.body, PostForm |-> r.PostForm, Form |-> r.Form]

InputInv ==
    /\ Len(inner) \in Nat /\ turn \in 1 .. Len(inner) + 2
    /\ \A i, j \in 1 .. Len(inner) : inner[i] = inner[j] => i = j
    /\ sent \in I!Sent /\ (sent.object => sent.type = "json")
    /\ Shaped(incoming)
    /\ ~sent.fails /\ turn <= Len(inner) + 1 => Left /\ Clean
    /\ I!InputJudged

LEMMA SentValues ==
    ASSUME sent \in I!Sent
    PROVE  /\ sent.type \in {"form", "multipart", "json"} /\ sent.fails \in BOOLEAN /\ sent.object \in BOOLEAN
           /\ sent.query \in [Param -> I!Values] /\ sent.body \in [Param -> I!Values]
BY DEF I!Sent, I!Params, I!ContentType

\* The last of several values: one value, which was among them.
LEMMA LastOfThem ==
    ASSUME NEW p \in Param, NEW v \in I!Values
    PROVE  /\ Len(v) \in Nat /\ (Len(v) = 0 <=> v = <<>>)
           /\ p \notin Listed => Len(I!LastWins(p, v)) <= 1
           /\ p \in Listed => I!LastWins(p, v) = v
           /\ v = <<>> => I!LastWins(p, v) = <<>>
           /\ p \notin Listed /\ v # <<>> => /\ I!LastWins(p, v) # <<>>
                                          /\ I!LastWins(p, v)[1] = I!Last(v)
           /\ \A i \in DOMAIN I!LastWins(p, v) : \E j \in DOMAIN v : I!LastWins(p, v)[i] = v[j]
<1>1. v = <<>> \/ v = <<"ok">> \/ v = <<"ok", Attack>> \/ v = <<Attack, "ok">>
  BY DEF I!Values
<1>2. CASE v = <<>>
  BY <1>2 DEF I!LastWins
<1>3. CASE v = <<"ok">>
  BY <1>3 DEF I!LastWins, I!Last
<1>4. CASE v = <<"ok", Attack>> \/ v = <<Attack, "ok">>
  <2>1. Len(v) = 2 /\ I!Last(v) = v[2] /\ DOMAIN v = 1 .. 2 /\ v # <<>>
    BY <1>4 DEF I!Last
  <2>2. CASE p \in Listed
    BY <2>1, <2>2 DEF I!LastWins
  <2>3. CASE p \notin Listed
    <3>1. I!LastWins(p, v) = <<v[2]>>
      BY <2>1, <2>3 DEF I!LastWins
    <3> QED BY <2>1, <2>3, <3>1
  <2> QED BY <2>2, <2>3
<1> QED BY <1>1, <1>2, <1>3, <1>4

\* The turn passes to the next middleware.
LEMMA NextTurn ==
    ASSUME InputInv, turn <= Len(inner), turn' = turn + 1, inner' = inner
    PROVE  /\ ~Passed(inner[turn])
           /\ \A m : Passed(m)' <=> (Passed(m) \/ m = inner[turn])
<1>1. turn \in 1 .. Len(inner) /\ Len(inner) \in Nat
  BY DEF InputInv
<1>2. ~Passed(inner[turn])
  BY <1>1 DEF InputInv, Passed
<1>3. ASSUME NEW m PROVE Passed(m)' <=> (Passed(m) \/ m = inner[turn])
  <2>1. \A i \in 1 .. Len(inner) : i < turn + 1 <=> (i < turn \/ i = turn)
    BY <1>1
  <2>2. Passed(m)' <=> \E i \in 1 .. Len(inner) : i < turn + 1 /\ inner[i] = m
    BY DEF Passed
  <2> QED BY <1>1, <2>1, <2>2 DEF Passed
<1> QED BY <1>2, <1>3

LEMMA InputStarts == I!Init => InputInv
<1> SUFFICES ASSUME I!Init PROVE InputInv
  OBVIOUS
<1>1. inner \in I!SeqOf({"hpp", "mass", "scan"}, 3) /\ I!IsInjective(inner)
  BY DEF I!Init
<1>2. PICK n \in 0 .. 3 : inner \in [1 .. n -> {"hpp", "mass", "scan"}]
  BY <1>1 DEF I!SeqOf
<1>3. Len(inner) \in Nat /\ DOMAIN inner = 1 .. Len(inner)
  BY <1>2
<1>4. turn = 1 /\ sent \in I!Sent /\ (sent.object => sent.type = "json") /\ incoming = I!Fresh(sent)
  BY DEF I!Init
<1>5. \A m : ~Passed(m)
  BY <1>3, <1>4 DEF Passed
<1>6. Left /\ Clean
  BY <1>4, <1>5 DEF Left, Clean, I!Fresh
<1>7. I!InputJudged
  BY <1>3, <1>4 DEF I!InputJudged, I!Done
<1> QED BY <1>1, <1>3, <1>4, <1>6, <1>7 DEF InputInv, Shaped, I!Fresh, I!IsInjective

\* HppMiddleware, as long as the form can be read: the first to parse it.
LEMMA HppMade ==
    ASSUME InputInv, I!Hpp
    PROVE  /\ Shaped(incoming') /\ turn' = turn + 1 /\ UNCHANGED <<inner, sent>>
           /\ turn <= Len(inner) /\ inner[turn] = "hpp"
           /\ ~sent.fails =>
                 /\ incoming'.query = Norm(sent.query)
                 /\ sent.type = "json" => incoming'.body = incoming.body
                 /\ sent.type = "form" => /\ incoming'.PostForm = <<Norm(sent.body)>>
                                          /\ incoming'.Form = <<[p \in Param |-> FormOf(p)]>>
<1> DEFINE q == [query |-> Norm(incoming.query), body |-> incoming.body,
                 PostForm |-> incoming.PostForm, Form |-> incoming.Form]
           f == I!ParseForm(q)
<1>1. turn <= Len(inner) /\ inner[turn] = "hpp" /\ turn' = turn + 1 /\ UNCHANGED <<inner, sent>>
  BY DEF I!Hpp, I!Turn, I!Pass
<1>2. [incoming EXCEPT !.query = [p \in Param |-> I!LastWins(p, @[p])]] = q
  BY DEF InputInv, Shaped, Norm
<1>3. incoming' = IF sent.type = "json" THEN q
                  ELSE IF sent.type = "form" /\ sent.fails THEN f ELSE I!Normalized(f)
  BY <1>2 DEF I!Hpp, I!Pass
<1>4. Shaped(q) /\ q.query = Norm(incoming.query)
  BY DEF Shaped
<1>5. Shaped(f) /\ f.query = q.query
  BY DEF I!ParseForm, Shaped
<1>6. ASSUME NEW r, Shaped(r)
      PROVE  I!Normalized(r) =
                [query |-> r.query, body |-> r.body,
                 PostForm |-> <<[p \in Param |-> I!LastWins(p, r.PostForm[1][p])]>>,
                 Form |-> <<[p \in Param |-> IF Len(r.PostForm[1][p]) > 1 /\ p \notin Listed
                                             THEN I!LastWins(p, r.PostForm[1][p]) ELSE r.Form[1][p]]>>]
  <2> DEFINE post == <<[p \in Param |-> I!LastWins(p, r.PostForm[1][p])]>>
             form == <<[p \in Param |-> IF Len(r.PostForm[1][p]) > 1 /\ p \notin Listed
                                        THEN I!LastWins(p, r.PostForm[1][p]) ELSE r.Form[1][p]]>>
  <2>1. I!Normalized(r) = [r EXCEPT !.PostForm = post, !.Form = form]
    BY <1>6 DEF I!Normalized, Shaped
  <2> HIDE DEF post, form
  <2> QED BY <1>6, <2>1 DEF Shaped, post, form
<1>7. Shaped(incoming')
  <2> HIDE DEF f, q
  <2>1. Shaped(I!Normalized(f))
    BY <1>5, <1>6 DEF Shaped
  <2> QED BY <1>3, <1>4, <1>5, <2>1
<1>8. ASSUME ~sent.fails
      PROVE  /\ incoming'.query = Norm(sent.query)
             /\ sent.type = "json" => incoming'.body = incoming.body
             /\ sent.type = "form" => /\ incoming'.PostForm = <<Norm(sent.body)>>
                                      /\ incoming'.Form = <<[p \in Param |-> FormOf(p)]>>
  <2>1. ~Passed("hpp")
    BY <1>1, NextTurn
  <2>2. Left
    BY <1>1, <1>8 DEF InputInv
  <2>3. incoming.query = sent.query
    BY <2>1, <2>2 DEF Left
  <2>4. incoming'.query = Norm(sent.query)
    <3> HIDE DEF f, q
    <3> QED BY <1>3, <1>4, <1>5, <1>6, <2>3
  <2>5. ASSUME sent.type = "form"
        PROVE  /\ incoming'.PostForm = <<Norm(sent.body)>>
               /\ incoming'.Form = <<[p \in Param |-> FormOf(p)]>>
    <3>1. incoming.body = <<sent.body>> /\ incoming.Form = <<>>
      BY <2>1, <2>2, <2>5 DEF Left
    <3>2. f.PostForm = <<sent.body>> /\ f.Form = <<I!Joined(sent.body, Norm(sent.query))>>
      BY <2>3, <2>5, <3>1 DEF I!ParseForm
    <3>3. incoming' = I!Normalized(f)
      BY <1>3, <1>8, <2>5
    <3> HIDE DEF f, q
    <3>4. incoming'.PostForm = <<[p \in Param |-> I!LastWins(p, sent.body[p])]>>
      BY <1>5, <1>6, <3>2, <3>3
    <3>5. incoming'.Form = <<[p \in Param |-> IF Len(sent.body[p]) > 1 /\ p \notin Listed
                                              THEN I!LastWins(p, sent.body[p])
                                              ELSE I!Joined(sent.body, Norm(sent.query))[p]]>>
      BY <1>5, <1>6, <3>2, <3>3
    <3> QED BY <3>4, <3>5 DEF Norm, FormOf, I!Joined
  <2> QED BY <1>3, <2>4, <2>5
<1> QED BY <1>1, <1>7, <1>8

\* While middlewares are left the property asks for nothing yet.
LEMMA NotDone ==
    ASSUME InputInv, turn <= Len(inner), turn' = turn + 1 \/ turn' = turn, inner' = inner
    PROVE  I!InputJudged' /\ turn' \in 1 .. Len(inner) + 2 /\ turn' <= Len(inner) + 1
BY DEF InputInv, I!InputJudged, I!Done

LEMMA HppKeeps == ASSUME InputInv, I!Hpp PROVE InputInv'
<1>1. /\ Shaped(incoming') /\ turn' = turn + 1 /\ UNCHANGED <<inner, sent>>
      /\ turn <= Len(inner) /\ inner[turn] = "hpp"
  BY HppMade
<1>2. ~Passed("hpp") /\ \A m : Passed(m)' <=> (Passed(m) \/ m = "hpp")
  BY <1>1, NextTurn
<1>3. ASSUME ~sent.fails PROVE Left' /\ Clean'
  <2>1. Left /\ Clean
    BY <1>1, <1>3 DEF InputInv
  <2>2. /\ incoming'.query = Norm(sent.query)
        /\ sent.type = "json" => incoming'.body = incoming.body
        /\ sent.type = "form" => /\ incoming'.PostForm = <<Norm(sent.body)>>
                                 /\ incoming'.Form = <<[p \in Param |-> FormOf(p)]>>
    BY <1>3, HppMade
  <2>3. Norm(sent.query)' = Norm(sent.query) /\ Norm(sent.body)' = Norm(sent.body)
        /\ \A p : FormOf(p)' = FormOf(p)
    BY <1>1 DEF Norm, FormOf, I!LastWins
  <2>4. Passed("mass")' <=> Passed("mass")
    BY <1>2
  <2>5. Passed("hpp")' /\ incoming.query = sent.query
    BY <1>2, <2>1 DEF Left
  <2>6. [p \in Param |-> FormOf(p)]' = [p \in Param |-> FormOf(p)] /\ I!Filtered(sent.body)' = I!Filtered(sent.body)
    BY <1>1, <2>3 DEF I!Filtered, I!Disallowed
  <2>7. Left'
    BY <1>1, <2>1, <2>2, <2>3, <2>4, <2>5, <2>6 DEF Left
  <2>8. Clean'
    <3>1. Passed("scan")' => Passed("scan")
      BY <1>2
    <3>2. ~I!Attacked(sent.query) => ~I!Attacked(Norm(sent.query))
      <4> SUFFICES ASSUME NEW p \in Param, NEW i \in DOMAIN Norm(sent.query)[p], Norm(sent.query)[p][i] = Attack
                   PROVE  I!Attacked(sent.query)
        BY DEF I!Attacked
      <4>1. sent.query[p] \in I!Values
        BY SentValues DEF InputInv
      <4>2. Norm(sent.query)[p] = I!LastWins(p, sent.query[p])
        BY DEF Norm
      <4>3. \E j \in DOMAIN sent.query[p] : sent.query[p][j] = Attack
        BY <4>1, <4>2, LastOfThem
      <4> QED BY <4>3 DEF I!Attacked
    <3>3. I!Outside("hpp", "scan")' <=> I!Outside("hpp", "scan")
      BY <1>1 DEF I!Outside
    <3>4. \A f : I!Attacked(f)' <=> I!Attacked(f)
      BY DEF I!Attacked
    <3> QED BY <1>1, <2>1, <2>2, <2>5, <3>1, <3>2, <3>3, <3>4 DEF Clean, I!Attacked
  <2> QED BY <2>7, <2>8
<1> QED BY <1>1, <1>3, NotDone DEF InputInv, Shaped

\* MassAssign: it leaves the keys of a JSON object that are allowed, or answers
\* itself.
LEMMA MassKeeps == ASSUME InputInv, I!Mass PROVE InputInv'
<1>1. turn <= Len(inner) /\ inner[turn] = "mass" /\ UNCHANGED <<inner, sent>>
  BY DEF I!Mass, I!Turn, I!Pass, I!Refuse
<1>2. CASE I!Refuse
  BY <1>1, <1>2, NotDone, ZenonT(60) DEF I!Refuse, InputInv, Left, Clean, Passed, Norm, FormOf, I!LastWins,
     I!Filtered, I!Disallowed, I!Attacked, I!Outside, Shaped
<1>3. CASE ~I!Refuse
  <2>1. turn' = turn + 1
    BY <1>3 DEF I!Mass, I!Pass
  <2>2. ~Passed("mass") /\ \A m : Passed(m)' <=> (Passed(m) \/ m = "mass")
    BY <1>1, <2>1, NextTurn
  <2>3. Shaped(incoming')
    <3>1. incoming' = incoming \/ incoming' = [incoming EXCEPT !.body = <<>>]
          \/ incoming' = [incoming EXCEPT !.body = <<I!Filtered(@[1])>>]
      BY <1>3 DEF I!Mass, I!Pass
    <3> QED BY <3>1 DEF InputInv, Shaped
  <2>4. ASSUME ~sent.fails PROVE Left' /\ Clean'
    <3>1. Left /\ Clean
      BY <1>1, <2>4 DEF InputInv
    <3>2. sent.type = "json" => incoming.body = <<sent.body>>
      BY <2>2, <3>1 DEF Left
    <3>3. IF sent.type = "json" /\ sent.object
          THEN incoming' = [incoming EXCEPT !.body = <<I!Filtered(sent.body)>>] ELSE incoming' = incoming
      <4>1. CASE sent.type = "json"
        BY <1>3, <2>4, <3>2, <4>1 DEF I!Mass, I!Pass
      <4>2. CASE sent.type # "json"
        BY <1>3, <4>2 DEF I!Mass, I!Pass
      <4> QED BY <4>1, <4>2
    <3>4. /\ incoming'.query = incoming.query /\ incoming'.PostForm = incoming.PostForm
          /\ incoming'.Form = incoming.Form
          /\ IF sent.type = "json" /\ sent.object THEN incoming'.body = <<I!Filtered(sent.body)>>
             ELSE incoming'.body = incoming.body
      BY <3>3 DEF InputInv, Shaped
    <3>5. Norm(sent.query)' = Norm(sent.query) /\ Norm(sent.body)' = Norm(sent.body)
          /\ [p \in Param |-> FormOf(p)]' = [p \in Param |-> FormOf(p)]
          /\ I!Filtered(sent.body)' = I!Filtered(sent.body)
      BY <1>1 DEF Norm, FormOf, I!LastWins, I!Filtered, I!Disallowed
    <3>6. (Passed("hpp")' <=> Passed("hpp")) /\ (Passed("scan")' <=> Passed("scan")) /\ Passed("mass")'
      BY <2>2
    <3>7. Left'
      BY <1>1, <3>1, <3>2, <3>4, <3>5, <3>6 DEF Left
    <3>8. ~I!Attacked(sent.body) => ~I!Attacked(I!Filtered(sent.body))
      BY DEF I!Attacked, I!Filtered
    <3>9. I!Outside("hpp", "scan")' <=> I!Outside("hpp", "scan")
      BY <1>1 DEF I!Outside
    <3>10. Clean'
      <4>1. sent.type = "json" /\ Passed("scan") => ~I!Attacked(sent.body)
        BY <3>1, <3>2 DEF Clean
      <4>2. sent.type = "json" => incoming'.body[1] = sent.body \/ incoming'.body[1] = I!Filtered(sent.body)
        BY <3>2, <3>4
      <4> QED BY <1>1, <3>1, <3>4, <3>6, <3>8, <3>9, <4>1, <4>2 DEF Clean, I!Attacked
    <3> QED BY <3>7, <3>10
  <2> QED BY <1>1, <2>1, <2>3, <2>4, NotDone DEF InputInv, Shaped
<1> QED BY <1>2, <1>3

\* The scan: a request goes on as it is, if the scan has seen no attack in it.
LEMMA ScanKeeps == ASSUME InputInv, I!Scan PROVE InputInv'
<1>1. turn <= Len(inner) /\ inner[turn] = "scan" /\ UNCHANGED <<inner, sent>>
  BY DEF I!Scan, I!Turn, I!Pass, I!Refuse
<1>2. CASE I!Scanned(incoming)
  <2>1. I!Refuse
    BY <1>2 DEF I!Scan
  <2> QED BY <1>1, <2>1, NotDone, ZenonT(60) DEF I!Refuse, InputInv, Left, Clean, Passed, Norm, FormOf, I!LastWins,
     I!Filtered, I!Disallowed, I!Attacked, I!Outside, Shaped
<1>3. CASE ~I!Scanned(incoming)
  <2>1. turn' = turn + 1
        /\ incoming' = IF sent.type \in {"json", "form"} /\ sent.fails
                       THEN [incoming EXCEPT !.body = <<>>] ELSE incoming
    BY <1>3 DEF I!Scan, I!Pass
  <2>2. ~Passed("scan") /\ \A m : Passed(m)' <=> (Passed(m) \/ m = "scan")
    BY <1>1, <2>1, NextTurn
  <2>3. Shaped(incoming')
    BY <2>1 DEF InputInv, Shaped
  <2>4. ASSUME ~sent.fails PROVE Left' /\ Clean'
    <3>1. Left /\ incoming' = incoming
      BY <1>1, <2>1, <2>4 DEF InputInv
    <3>2. Norm(sent.query)' = Norm(sent.query) /\ Norm(sent.body)' = Norm(sent.body)
          /\ [p \in Param |-> FormOf(p)]' = [p \in Param |-> FormOf(p)]
          /\ I!Filtered(sent.body)' = I!Filtered(sent.body)
      BY <1>1 DEF Norm, FormOf, I!LastWins, I!Filtered, I!Disallowed
    <3>3. (Passed("hpp")' <=> Passed("hpp")) /\ (Passed("mass")' <=> Passed("mass"))
      BY <2>2
    <3>4. Left'
      BY <1>1, <3>1, <3>2, <3>3 DEF Left
    <3>5. ~I!Attacked(incoming.query)
          /\ (sent.type \in {"json", "form"} /\ incoming.body # <<>> => ~I!Attacked(incoming.body[1]))
      BY <1>3, <2>4 DEF I!Scanned
    <3>6. sent.type = "json" => incoming.body # <<>>
      BY <3>1 DEF Left
    <3>7. sent.type = "form" /\ ~Passed("hpp") => incoming.body = <<sent.body>>
      BY <3>1 DEF Left
    <3>8. Passed("hpp") => I!Outside("hpp", "scan")
      <4>1. turn \in 1 .. Len(inner)
        BY <1>1 DEF InputInv
      <4> QED BY <1>1, <4>1 DEF Passed, I!Outside
    <3>9. I!Outside("hpp", "scan")' <=> I!Outside("hpp", "scan")
      BY <1>1 DEF I!Outside
    <3>10. sent.type = "form" /\ ~I!Outside("hpp", "scan") => ~I!Attacked(sent.body)
      BY <3>5, <3>7, <3>8
    <3>11. Clean'
      BY <1>1, <3>1, <3>5, <3>6, <3>9, <3>10 DEF Clean, I!Attacked
    <3> QED BY <3>4, <3>11
  <2> QED BY <1>1, <2>1, <2>3, <2>4, NotDone DEF InputInv, Shaped
<1> QED BY <1>2, <1>3

\* What a handler gets of a parameter that is not whitelisted: the last value
\* of the body, or the last of the query.
LEMMA ValueRead ==
    ASSUME sent \in I!Sent, NEW p \in Param, p \notin Listed
    PROVE  LET form == FormOf(p)
           IN  (IF form = <<>> THEN <<>> ELSE <<Head(form)>>) = I!LastSent(p)
<1> DEFINE b == sent.body[p]
           q == sent.query[p]
<1>1. b \in I!Values /\ q \in I!Values
  BY SentValues
<1>2. Norm(sent.query)[p] = I!LastWins(p, q)
  BY DEF Norm
<1>3. FormOf(p) = IF Len(b) > 1 THEN I!LastWins(p, b) ELSE b \o I!LastWins(p, q)
  BY <1>2 DEF FormOf
<1>4. I!LastSent(p) = IF b # <<>> THEN <<I!Last(b)>> ELSE IF q # <<>> THEN <<I!Last(q)>> ELSE <<>>
  BY DEF I!LastSent
<1> HIDE DEF b, q
<1>5. ASSUME NEW v \in I!Values
      PROVE  IF v = <<>> THEN I!LastWins(p, v) = <<>> ELSE I!LastWins(p, v) = <<I!Last(v)>>
  <2>1. v = <<>> \/ v = <<"ok">> \/ v = <<"ok", Attack>> \/ v = <<Attack, "ok">>
    BY <1>5 DEF I!Values
  <2>2. CASE v = <<>>
    BY <2>2 DEF I!LastWins
  <2>3. CASE v = <<"ok">>
    BY <2>3 DEF I!LastWins, I!Last
  <2>4. CASE v = <<"ok", Attack>> \/ v = <<Attack, "ok">>
    <3>1. Len(v) = 2 /\ v # <<>>
      BY <2>4
    <3> QED BY <3>1 DEF I!LastWins
  <2> QED BY <2>1, <2>2, <2>3, <2>4
<1>6. b = <<>> \/ b = <<"ok">> \/ b = <<"ok", Attack>> \/ b = <<Attack, "ok">>
  BY <1>1 DEF I!Values
<1>7. CASE b = <<>>
  <2>1. \/ q = <<>> /\ I!LastWins(p, q) = <<>>
        \/ q # <<>> /\ I!LastWins(p, q) = <<I!Last(q)>>
    BY <1>1, <1>5
  <2>2. FormOf(p) = I!LastWins(p, q)
    <3>1. \/ I!LastWins(p, q) = <<>>
          \/ I!LastWins(p, q) = <<I!Last(q)>>
      BY <2>1
    <3>2. <<>> \o <<>> = <<>> /\ <<>> \o <<I!Last(q)>> = <<I!Last(q)>>
      OBVIOUS
    <3> QED BY <1>3, <1>7, <3>1, <3>2
  <2>3. Head(<<I!Last(q)>>) = I!Last(q) /\ <<I!Last(q)>> # <<>>
    OBVIOUS
  <2> QED BY <1>4, <1>7, <2>1, <2>2, <2>3
<1>8. CASE b = <<"ok">>
  <2>1. I!LastWins(p, q) = <<>> \/ I!LastWins(p, q) = <<I!Last(q)>>
    BY <1>1, <1>5
  <2>2. Head(<<"ok">> \o <<>>) = "ok" /\ <<"ok">> \o <<>> # <<>>
    OBVIOUS
  <2>3. ASSUME NEW y PROVE Head(<<"ok">> \o <<y>>) = "ok" /\ <<"ok">> \o <<y>> # <<>>
    <3>1. <<"ok">> \in Seq({"ok", y}) /\ <<y>> \in Seq({"ok", y})
      OBVIOUS
    <3>2. Len(<<"ok">> \o <<y>>) = 2 /\ (<<"ok">> \o <<y>>)[1] = "ok"
      BY <3>1
    <3> QED BY <3>1, <3>2
  <2>4. Head(FormOf(p)) = "ok" /\ FormOf(p) # <<>>
    BY <1>3, <1>8, <2>1, <2>2, <2>3
  <2>5. I!Last(b) = "ok" /\ b # <<>>
    BY <1>8 DEF I!Last
  <2> QED BY <1>4, <2>4, <2>5
<1>9. CASE b = <<"ok", Attack>> \/ b = <<Attack, "ok">>
  <2>1. Len(b) = 2 /\ b # <<>>
    BY <1>9
  <2>2. FormOf(p) = <<I!Last(b)>> /\ I!LastSent(p) = <<I!Last(b)>>
    BY <1>1, <1>3, <1>4, <1>5, <2>1
  <2> QED BY <2>2
<1> QED BY <1>6, <1>7, <1>8, <1>9

\* The handler parses what is left and returns.
LEMMA HandleKeeps == ASSUME InputInv, I!Handle PROVE InputInv'
<1>1. turn = Len(inner) + 1 /\ turn' = turn + 1 /\ UNCHANGED <<inner, sent>>
      /\ incoming' = IF sent.type = "json" THEN incoming ELSE I!ParseMultipartForm(incoming)
  BY DEF I!Handle, I!Handled
<1>2. turn' \in 1 .. Len(inner) + 2 /\ ~(turn' <= Len(inner) + 1) /\ Len(inner) \in Nat
  BY <1>1 DEF InputInv
<1>3. \A m : I!Mounted(m) <=> Passed(m)
  BY <1>1, <1>2 DEF I!Mounted, Passed
<1>4. Shaped(incoming') /\ incoming'.query = incoming.query
  <2>1. Shaped(I!ParseForm(incoming)) /\ I!ParseForm(incoming).query = incoming.query
    BY DEF I!ParseForm, InputInv, Shaped
  <2>2. Shaped(I!ParseMultipartForm(incoming)) /\ I!ParseMultipartForm(incoming).query = incoming.query
    <3> DEFINE f == I!ParseForm(incoming)
    <3>1. \/ I!ParseMultipartForm(incoming) = f
          \/ I!ParseMultipartForm(incoming) =
                [f EXCEPT !.PostForm = <<I!Joined(@[1], incoming.body[1])>>,
                          !.Form = <<I!Joined(@[1], incoming.body[1])>>,
                          !.body = <<>>]
      BY DEF I!ParseMultipartForm
    <3> HIDE DEF f
    <3>2. Shaped(f) /\ f.query = incoming.query
      BY <2>1 DEF f
    <3> QED BY <3>1, <3>2 DEF Shaped
  <2> QED BY <1>1, <2>1, <2>2 DEF InputInv
<1>5. ASSUME ~sent.fails PROVE I!InputJudged'
  <2>1. Left /\ Clean /\ sent \in I!Sent /\ (sent.object => sent.type = "json")
    BY <1>1, <1>2, <1>5 DEF InputInv
  <2>2. sent.type = "json" => incoming' = incoming
    BY <1>1
  <2>3. ASSUME sent.type = "form"
        PROVE  IF Passed("hpp")
               THEN incoming'.PostForm = <<Norm(sent.body)>> /\ incoming'.Form = <<[p \in Param |-> FormOf(p)]>>
               ELSE incoming'.PostForm = <<sent.body>>
    <3>1. incoming' = I!ParseForm(incoming)
      BY <1>1, <2>3 DEF I!ParseMultipartForm
    <3>2. CASE Passed("hpp")
      <4>1. incoming.Form # <<>>
        <5>1. \A z : <<z>> # <<>>
          OBVIOUS
        <5> QED BY <2>1, <2>3, <3>2, <5>1 DEF Left
      <4>2. incoming' = incoming
        BY <3>1, <4>1 DEF I!ParseForm
      <4> QED BY <2>1, <2>3, <3>2, <4>2 DEF Left
    <3>3. CASE ~Passed("hpp")
      <4>1. incoming.body = <<sent.body>> /\ incoming.Form = <<>>
        BY <2>1, <2>3, <3>3 DEF Left
      <4> QED BY <2>3, <3>1, <3>3, <4>1 DEF I!ParseForm, InputInv, Shaped
    <3> QED BY <3>2, <3>3
  <2>4. ASSUME Passed("scan")
        PROVE  /\ ~I!Attacked(incoming'.query)
               /\ sent.type = "form" /\ ~I!Outside("hpp", "scan") => ~I!Attacked(incoming'.PostForm[1])
               /\ sent.type = "json" => ~I!Attacked(incoming'.body[1])
    <3>1. ~I!Attacked(sent.body) => ~I!Attacked(Norm(sent.body))
      <4> SUFFICES ASSUME NEW p \in Param, NEW i \in DOMAIN Norm(sent.body)[p], Norm(sent.body)[p][i] = Attack
                   PROVE  I!Attacked(sent.body)
        BY DEF I!Attacked
      <4>1. sent.body[p] \in I!Values
        BY <2>1, SentValues
      <4>2. Norm(sent.body)[p] = I!LastWins(p, sent.body[p])
        BY DEF Norm
      <4>3. \E j \in DOMAIN sent.body[p] : sent.body[p][j] = Attack
        BY <4>1, <4>2, LastOfThem
      <4> QED BY <4>3 DEF I!Attacked
    <3>2. sent.type = "form" => incoming'.PostForm[1] = sent.body \/ incoming'.PostForm[1] = Norm(sent.body)
      BY <2>3
    <3>3. /\ ~I!Attacked(incoming.query)
          /\ sent.type = "json" => ~I!Attacked(incoming.body[1])
          /\ sent.type = "form" /\ ~I!Outside("hpp", "scan") => ~I!Attacked(sent.body)
      BY <2>1, <2>4 DEF Clean
    <3> QED BY <1>4, <2>2, <3>1, <3>2, <3>3
  <2>5. ASSUME Passed("hpp"), NEW p \in Param \ Listed
        PROVE  /\ Len(incoming'.query[p]) <= 1
               /\ sent.type = "form" => /\ Len(incoming'.PostForm[1][p]) <= 1
                                        /\ I!FormValue(p)' = I!LastSent(p)
    <3>1. sent.query[p] \in I!Values /\ sent.body[p] \in I!Values /\ p \in Param /\ p \notin Listed
      BY <2>1, SentValues
    <3>2. incoming'.query[p] = I!LastWins(p, sent.query[p])
      BY <1>4, <2>1, <2>5 DEF Left, Norm
    <3>3. Len(incoming'.query[p]) <= 1
      BY <3>1, <3>2, LastOfThem
    <3>4. ASSUME sent.type = "form"
          PROVE  Len(incoming'.PostForm[1][p]) <= 1 /\ I!FormValue(p)' = I!LastSent(p)
      <4>1. incoming'.PostForm[1][p] = I!LastWins(p, sent.body[p]) /\ incoming'.Form[1][p] = FormOf(p)
        BY <2>3, <2>5, <3>1, <3>4 DEF Norm
      <4>2. I!FormValue(p)' = IF FormOf(p) = <<>> THEN <<>> ELSE <<Head(FormOf(p))>>
        BY <4>1 DEF I!FormValue
      <4> QED BY <2>1, <3>1, <4>1, <4>2, LastOfThem, ValueRead
    <3> QED BY <3>3, <3>4
  <2>6. ASSUME Passed("hpp"), sent.type = "form", NEW p \in Listed, p \in Param
        PROVE  incoming'.PostForm[1][p] = sent.body[p]
    <3>1. sent.body[p] \in I!Values
      BY <2>1, <2>6, SentValues
    <3>2. incoming'.PostForm[1][p] = I!LastWins(p, sent.body[p])
      BY <2>3, <2>6 DEF Norm
    <3> QED BY <2>6, <3>1, <3>2, LastOfThem
  <2>7. ASSUME Passed("mass"), sent.object PROVE incoming'.body = <<I!Filtered(sent.body)>>
    BY <2>1, <2>2, <2>7 DEF Left
  <2>8. /\ Passed("scan") => I!NothingUnscanned'
        /\ Passed("hpp") => I!OneValueEach'
        /\ Passed("mass") => I!AllowedOnly'
    <3>1. \A f : I!Attacked(f)' <=> I!Attacked(f)
      BY DEF I!Attacked
    <3>2. I!Outside("hpp", "scan")' <=> I!Outside("hpp", "scan")
      BY <1>1 DEF I!Outside
    <3>3. Passed("scan") => I!NothingUnscanned'
      BY <1>1, <2>4, <3>2 DEF I!NothingUnscanned, I!Attacked
    <3>4. Passed("hpp") => I!OneValueEach'
      <4>1. \A p : I!LastSent(p)' = I!LastSent(p)
        BY <1>1 DEF I!LastSent
      <4> QED BY <1>1, <2>5, <2>6, <4>1, StandaloneOptions DEF I!OneValueEach, I!Options
    <3>5. Passed("mass") => I!AllowedOnly'
      BY <1>1, <2>7 DEF I!AllowedOnly, I!Filtered, I!Disallowed
    <3> QED BY <3>3, <3>4, <3>5
  <2>9. \A m : I!Mounted(m)' <=> Passed(m)
    BY <1>1, <1>3 DEF I!Mounted
  <2> QED BY <2>8, <2>9 DEF I!InputJudged
<1>6. sent.fails => I!InputJudged'
  BY <1>1 DEF I!InputJudged
<1> QED BY <1>1, <1>2, <1>4, <1>5, <1>6 DEF InputInv, Shaped

LEMMA InputStep == InputInv /\ [I!Next]_I!vars => InputInv'
<1>1. ASSUME InputInv, UNCHANGED I!vars PROVE InputInv'
  BY <1>1, ZenonT(60) DEF I!vars, InputInv, Left, Clean, Passed, Norm, FormOf, Shaped, I!LastWins, I!Filtered, I!Disallowed,
     I!Attacked, I!Outside, I!InputJudged, I!Done, I!Mounted, I!NothingUnscanned, I!OneValueEach,
     I!AllowedOnly, I!FormValue, I!LastSent
<1>2. ASSUME I!Over PROVE UNCHANGED I!vars
  BY <1>2 DEF I!Over, I!vars
<1> QED BY <1>1, <1>2, HppKeeps, MassKeeps, ScanKeeps, HandleKeeps DEF I!Next

\* Whatever is mounted in whatever order, the handler reads what the middlewares
\* in front of it promise: nothing of the request the scan has not seen, the
\* last value of each parameter, the allowed keys.
THEOREM HandlerReadsJudged == I!Spec => []InputJudged
<1>1. InputInv => InputJudged
  BY DEF InputInv, InputJudged
<1> QED BY <1>1, InputStarts, InputStep, PTL DEF I!Spec

-----------------------------------------------------------------------------
(* What leaves with the answer. *)

Value == [secure : BOOLEAN, dirty : BOOLEAN]

HeaderShape(h) ==
    /\ h = [cookie |-> h.cookie, plain |-> h.plain, allow |-> h.allow, vary |-> h.vary]
    /\ h.cookie \in Seq(Value) /\ h.plain \in Seq(Value)

WriterShape(w) ==
    /\ w = [header |-> w.header, status |-> w.status, headerWritten |-> w.headerWritten,
            rejected |-> w.rejected, wire |-> w.wire, body |-> w.body, hinted |-> w.hinted,
            silent |-> w.silent]
    /\ HeaderShape(w.header)
    /\ w.headerWritten \in BOOLEAN /\ w.rejected \in BOOLEAN

Secured(h) == \A i \in DOMAIN h.cookie : h.cookie[i].secure
NoneDirty(h) == /\ \A i \in DOMAIN h.cookie : ~h.cookie[i].dirty
             /\ \A i \in DOMAIN h.plain : ~h.plain[i].dirty
Bare(h) == h.cookie = <<>> /\ h.plain = <<>>

\* What has become of the writer w when a call has passed the wrappers M.
Passing(w, v, M) ==
    /\ WriterShape(v) /\ v.wire = w.wire /\ v.hinted = w.hinted /\ v.silent = w.silent
    /\ "cookies" \in M => Secured(v.header)
    /\ "splitting" \in M => v.headerWritten
    /\ "splitting" \in M /\ ~w.headerWritten => NoneDirty(v.header)
    /\ "splitting" \notin M => v.headerWritten = w.headerWritten
    /\ Bare(w.header) => Bare(v.header)
    /\ \/ /\ v.rejected = w.rejected /\ v.status = w.status /\ v.body = w.body
          /\ v.header.allow = w.header.allow /\ v.header.vary = w.header.vary
       \/ /\ "splitting" \in M /\ ~w.headerWritten /\ v.rejected /\ v.status = 500
          /\ v.header = O!NoHeader /\ v.body = <<"refusal">>

LEMMA EmptyList == /\ <<>> \in Seq(Value) /\ DOMAIN <<>> = {} /\ Len(<<>>) = 0
                   /\ \A s \in Seq(Value) : Len(s) = 0 => s = <<>>
OBVIOUS

LEMMA ListOf ==
    ASSUME NEW s \in Seq(Value), NEW d, d = [i \in DOMAIN s |-> d[i]], \A i \in DOMAIN s : d[i] \in Value
    PROVE  d \in Seq(Value) /\ Len(d) = Len(s) /\ DOMAIN d = DOMAIN s /\ (s = <<>> => d = <<>>)
<1>1. Len(s) \in Nat /\ DOMAIN s = 1 .. Len(s)
  OBVIOUS
<1>2. d \in [1 .. Len(s) -> Value]
  BY <1>1
<1>3. d \in Seq(Value) /\ Len(d) = Len(s)
  BY <1>1, <1>2
<1> QED BY <1>1, <1>2, <1>3, EmptyList

\* secureCookieWriter adds attributes, and nothing else.
LEMMA EnforceDoes ==
    ASSUME NEW v, WriterShape(v)
    PROVE  LET e == O!Enforce(v)
           IN  /\ WriterShape(e) /\ Secured(e.header)
               /\ NoneDirty(v.header) => NoneDirty(e.header)
               /\ Bare(v.header) => Bare(e.header)
               /\ v.header = O!NoHeader => e.header = O!NoHeader
               /\ e.header.allow = v.header.allow /\ e.header.vary = v.header.vary
               /\ e.wire = v.wire /\ e.hinted = v.hinted /\ e.silent = v.silent /\ e.body = v.body
               /\ e.status = v.status /\ e.rejected = v.rejected /\ e.headerWritten = v.headerWritten
<1> DEFINE c == v.header.cookie
           d == [i \in DOMAIN c |-> [c[i] EXCEPT !.secure = TRUE]]
<1>1. c \in Seq(Value) /\ v.header.plain \in Seq(Value) /\ HeaderShape(v.header)
  BY DEF WriterShape, HeaderShape
<1>2. Len(c) \in Nat /\ DOMAIN c = 1 .. Len(c) /\ \A i \in DOMAIN c : c[i] \in Value
  BY <1>1
<1>3. \A i \in DOMAIN c : d[i] \in Value /\ d[i].secure = TRUE /\ d[i].dirty = c[i].dirty
  BY <1>2 DEF Value
<1>4. d \in Seq(Value) /\ DOMAIN d = DOMAIN c /\ (c = <<>> => d = <<>>)
  <2>1. d = [i \in DOMAIN c |-> d[i]]
    OBVIOUS
  <2> HIDE DEF d, c
  <2> QED BY <1>1, <1>3, <2>1, ListOf DEF c
<1>5. O!Enforce(v) = [v EXCEPT !.header = [v.header EXCEPT !.cookie = d]]
  BY DEF O!Enforce
<1> HIDE DEF d
<1>6. [v.header EXCEPT !.cookie = d]
         = [cookie |-> d, plain |-> v.header.plain, allow |-> v.header.allow, vary |-> v.header.vary]
  BY <1>1 DEF HeaderShape
<1> DEFINE h == [cookie |-> d, plain |-> v.header.plain, allow |-> v.header.allow, vary |-> v.header.vary]
<1>7. O!Enforce(v) =
         [header |-> h, status |-> v.status, headerWritten |-> v.headerWritten,
          rejected |-> v.rejected, wire |-> v.wire, body |-> v.body, hinted |-> v.hinted,
          silent |-> v.silent]
  <2> HIDE DEF h
  <2>1. O!Enforce(v) = [v EXCEPT !.header = h]
    BY <1>5, <1>6 DEF h
  <2> QED BY <2>1 DEF WriterShape
<1>8. HeaderShape(h) /\ Secured(h)
  BY <1>1, <1>3, <1>4 DEF HeaderShape, Secured
<1>9. (NoneDirty(v.header) => NoneDirty(h)) /\ (Bare(v.header) => Bare(h))
  BY <1>3, <1>4 DEF NoneDirty, Bare
<1>10. v.header = O!NoHeader => h = O!NoHeader
  BY <1>4 DEF O!NoHeader
<1>11. h.allow = v.header.allow /\ h.vary = v.header.vary
  OBVIOUS
<1> HIDE DEF h
<1> QED BY <1>7, <1>8, <1>9, <1>10, <1>11 DEF WriterShape

LEMMA DirtyMeans ==
    ASSUME NEW h
    PROVE  ~O!Dirty(h) <=> NoneDirty(h)
BY DEF O!Dirty, O!Range, NoneDirty

\* responseSplittingWriter looks at the headers once, and cleans or refuses.
LEMMA GuardDoes ==
    ASSUME NEW v, WriterShape(v)
    PROVE  LET g == O!Guard(v)
           IN  /\ WriterShape(g) /\ g.headerWritten
               /\ g.wire = v.wire /\ g.hinted = v.hinted /\ g.silent = v.silent
               /\ v.headerWritten => g = v
               /\ ~v.headerWritten =>
                     /\ NoneDirty(g.header) /\ (Secured(v.header) => Secured(g.header))
                     /\ Bare(v.header) => Bare(g.header)
                     /\ \/ /\ g.rejected = v.rejected /\ g.status = v.status /\ g.body = v.body
                           /\ g.header.allow = v.header.allow /\ g.header.vary = v.header.vary
                        \/ /\ g.rejected /\ g.status = 500
                           /\ g.header = O!NoHeader /\ g.body = <<"refusal">>
<1>1. CASE v.headerWritten
  BY <1>1 DEF O!Guard
<1>2. CASE ~v.headerWritten /\ mode = "reject" /\ O!Dirty(v.header)
  <2> DEFINE g == [header |-> O!NoHeader, status |-> 500, headerWritten |-> TRUE, rejected |-> TRUE,
                   wire |-> v.wire, body |-> <<"refusal">>, hinted |-> v.hinted, silent |-> v.silent]
  <2>1. O!Guard(v) = [v EXCEPT !.headerWritten = TRUE, !.rejected = TRUE, !.header = O!NoHeader,
                               !.status = 500, !.body = <<"refusal">>]
    BY <1>2 DEF O!Guard
  <2>2. O!Guard(v) = g
    <3> DEFINE n == O!NoHeader
               b == <<"refusal">>
               s == 500
               y == TRUE
               t == [v EXCEPT !.headerWritten = y, !.rejected = y, !.header = n, !.status = s, !.body = b]
    <3>1. v = [header |-> v.header, status |-> v.status, headerWritten |-> v.headerWritten,
               rejected |-> v.rejected, wire |-> v.wire, body |-> v.body,
               hinted |-> v.hinted, silent |-> v.silent]
      BY DEF WriterShape
    <3>2. DOMAIN v = {"header", "status", "headerWritten", "rejected", "wire", "body", "hinted", "silent"}
      BY <3>1
    <3> HIDE DEF n, b, s, y, g
    <3>3. DOMAIN t = DOMAIN v
      OBVIOUS
    <3>4. t = [i \in DOMAIN t |-> t[i]]
      BY Zenon
    <3>5. t.header = n /\ t.status = s /\ t.headerWritten = y /\ t.rejected = y
      BY <3>2
    <3>6. t.wire = v.wire /\ t.body = b /\ t.hinted = v.hinted /\ t.silent = v.silent
      BY <3>2
    <3> HIDE DEF t
    <3>7. t = [header |-> t.header, status |-> t.status, headerWritten |-> t.headerWritten,
               rejected |-> t.rejected, wire |-> t.wire, body |-> t.body,
               hinted |-> t.hinted, silent |-> t.silent]
      BY <3>2, <3>3, <3>4
    <3>8. t = [header |-> n, status |-> s, headerWritten |-> y, rejected |-> y,
               wire |-> v.wire, body |-> b, hinted |-> v.hinted, silent |-> v.silent]
      BY <3>5, <3>6, <3>7
    <3>9. t = g
      BY <3>8 DEF g, n, b, s, y
    <3>10. O!Guard(v) = t
      BY <2>1 DEF t, n, b, s, y
    <3> QED BY <3>9, <3>10
  <2>3. HeaderShape(O!NoHeader) /\ NoneDirty(O!NoHeader) /\ Secured(O!NoHeader) /\ Bare(O!NoHeader)
    BY EmptyList DEF HeaderShape, NoneDirty, Secured, Bare, O!NoHeader
  <2>4. WriterShape(g)
    BY <2>3 DEF WriterShape
  <2>5. /\ g.headerWritten /\ g.wire = v.wire /\ g.hinted = v.hinted /\ g.silent = v.silent
        /\ g.rejected /\ g.status = 500 /\ g.header = O!NoHeader /\ g.body = <<"refusal">>
    OBVIOUS
  <2> HIDE DEF g
  <2> QED BY <1>2, <2>2, <2>3, <2>4, <2>5
<1>3. CASE ~v.headerWritten /\ ~(mode = "reject" /\ O!Dirty(v.header))
  <2> DEFINE c == O!Stripped(v.header.cookie)
             p == O!Stripped(v.header.plain)
             h == [cookie |-> c, plain |-> p, allow |-> v.header.allow, vary |-> v.header.vary]
  <2>1. HeaderShape(v.header)
    BY DEF WriterShape
  <2>2. ASSUME NEW s \in Seq(Value)
        PROVE  /\ O!Stripped(s) \in Seq(Value) /\ DOMAIN O!Stripped(s) = DOMAIN s
               /\ \A i \in DOMAIN s : ~O!Stripped(s)[i].dirty /\ O!Stripped(s)[i].secure = s[i].secure
               /\ s = <<>> => O!Stripped(s) = <<>>
    <3> DEFINE t == [i \in DOMAIN s |-> [s[i] EXCEPT !.dirty = FALSE]]
    <3>1. Len(s) \in Nat /\ DOMAIN s = 1 .. Len(s) /\ \A i \in DOMAIN s : s[i] \in Value
      BY <2>2
    <3>2. \A i \in DOMAIN s : t[i] \in Value /\ ~t[i].dirty /\ t[i].secure = s[i].secure
      BY <3>1 DEF Value
    <3>3. t \in Seq(Value) /\ Len(t) = Len(s) /\ DOMAIN t = DOMAIN s
      BY <3>1, <3>2
    <3>4. O!Stripped(s) = t
      BY DEF O!Stripped, O!SanitizeHeaderValue
    <3> HIDE DEF t
    <3> QED BY <3>2, <3>3, <3>4, EmptyList
  <2>3. HeaderShape(h) /\ NoneDirty(h) /\ (Secured(v.header) => Secured(h)) /\ (Bare(v.header) => Bare(h))
    BY <2>1, <2>2 DEF HeaderShape, NoneDirty, Secured, Bare
  <2>4. O!Guard(v) = [header |-> h, status |-> v.status, headerWritten |-> TRUE, rejected |-> v.rejected,
                      wire |-> v.wire, body |-> v.body, hinted |-> v.hinted, silent |-> v.silent]
    <3>1. O!Guard(v) = [v EXCEPT !.headerWritten = TRUE, !.header.cookie = c, !.header.plain = p]
      BY <1>3 DEF O!Guard
    <3> HIDE DEF c, p
    <3>2. O!Guard(v) = [v EXCEPT !.headerWritten = TRUE,
                                 !.header = [v.header EXCEPT !.cookie = c, !.plain = p]]
      BY <3>1, ZenonT(60) DEF WriterShape, HeaderShape
    <3>3. [v.header EXCEPT !.cookie = c, !.plain = p] = h
      <4>1. ASSUME NEW u, u = [cookie |-> u.cookie, plain |-> u.plain, allow |-> u.allow, vary |-> u.vary]
            PROVE  [u EXCEPT !.cookie = c, !.plain = p]
                      = [cookie |-> c, plain |-> p, allow |-> u.allow, vary |-> u.vary]
        <5>1. [u EXCEPT !.cookie = c] = [cookie |-> c, plain |-> u.plain, allow |-> u.allow, vary |-> u.vary]
          BY <4>1
        <5>2. ASSUME NEW t, t = [cookie |-> c, plain |-> u.plain, allow |-> u.allow, vary |-> u.vary]
              PROVE  [t EXCEPT !.plain = p] = [cookie |-> c, plain |-> p, allow |-> u.allow, vary |-> u.vary]
          BY <5>2
        <5> QED BY <5>1, <5>2, ZenonT(60)
      <4> QED BY <2>1, <4>1 DEF HeaderShape
    <3> HIDE DEF h
    <3> QED BY <3>2, <3>3, ZenonT(60) DEF WriterShape
  <2>5. h.allow = v.header.allow /\ h.vary = v.header.vary
    OBVIOUS
  <2> HIDE DEF h
  <2> QED BY <1>3, <2>3, <2>4, <2>5 DEF WriterShape
<1> QED BY <1>1, <1>2, <1>3

\* One wrapper more.
LEMMA ThroughOne ==
    ASSUME NEW w, NEW v, NEW M, NEW m, Passing(w, v, M)
    PROVE  Passing(w, O!Through(m, v), M \cup {m})
<1>1. WriterShape(v)
  BY DEF Passing
<1>2. CASE m = "cookies"
  <2>1. O!Through(m, v) = O!Enforce(v)
    BY <1>2 DEF O!Through
  <2>2. ("splitting" \in M \cup {m}) <=> ("splitting" \in M)
    BY <1>2
  <2> DEFINE e == O!Enforce(v)
  <2>3. /\ WriterShape(e) /\ Secured(e.header)
        /\ NoneDirty(v.header) => NoneDirty(e.header)
        /\ Bare(v.header) => Bare(e.header)
        /\ v.header = O!NoHeader => e.header = O!NoHeader
        /\ e.header.allow = v.header.allow /\ e.header.vary = v.header.vary
        /\ e.wire = v.wire /\ e.hinted = v.hinted /\ e.silent = v.silent /\ e.body = v.body
        /\ e.status = v.status /\ e.rejected = v.rejected /\ e.headerWritten = v.headerWritten
    BY <1>1, EnforceDoes
  <2> HIDE DEF e
  <2>4. Passing(w, e, M \cup {m})
    BY <2>2, <2>3 DEF Passing
  <2> QED BY <2>1, <2>4 DEF e
<1>3. CASE m = "splitting"
  <2>1. O!Through(m, v) = O!Guard(v)
    BY <1>3 DEF O!Through
  <2>2. ("cookies" \in M \cup {m}) <=> ("cookies" \in M)
    BY <1>3
  <2> DEFINE g == O!Guard(v)
  <2>3. /\ WriterShape(g) /\ g.headerWritten
        /\ g.wire = v.wire /\ g.hinted = v.hinted /\ g.silent = v.silent
        /\ v.headerWritten => g = v
        /\ ~v.headerWritten =>
              /\ NoneDirty(g.header) /\ (Secured(v.header) => Secured(g.header))
              /\ Bare(v.header) => Bare(g.header)
              /\ \/ /\ g.rejected = v.rejected /\ g.status = v.status /\ g.body = v.body
                    /\ g.header.allow = v.header.allow /\ g.header.vary = v.header.vary
                 \/ /\ g.rejected /\ g.status = 500
                    /\ g.header = O!NoHeader /\ g.body = <<"refusal">>
    BY <1>1, GuardDoes
  <2> HIDE DEF g
  <2>4. Passing(w, g, M \cup {m})
    <3>1. CASE v.headerWritten
      <4>1. g = v
        BY <2>3, <3>1
      <4>2. "splitting" \in M \/ w.headerWritten
        BY <3>1, ZenonT(60) DEF Passing
      <4>3. "splitting" \in M \cup {m}
        BY <1>3
      <4> QED BY <2>2, <3>1, <4>1, <4>2, <4>3 DEF Passing
    <3>2. CASE ~v.headerWritten
      <4>1. "splitting" \notin M /\ ~w.headerWritten
        BY <3>2 DEF Passing, WriterShape
      <4> QED BY <1>3, <2>2, <2>3, <3>2, <4>1 DEF Passing
    <3> QED BY <3>1, <3>2
  <2> QED BY <2>1, <2>4 DEF g
<1>4. CASE m # "cookies" /\ m # "splitting"
  <2>1. O!Through(m, v) = v
    BY <1>4 DEF O!Through
  <2> QED BY <1>4, <2>1 DEF Passing
<1> QED BY <1>2, <1>3, <1>4

\* The wrappers of the middlewares c.
Wrappers(c) == { c[i] : i \in { j \in 1 .. 3 : j <= Len(c) } }

\* WriteHeader passes all of them, and then net/http commits, unless it has.
LEMMA WriteHeaderDoes ==
    ASSUME NEW w, WriterShape(w), NEW c, NEW st
    PROVE  \E v : /\ Passing([w EXCEPT !.status = st], v, Wrappers(c))
                  /\ O!WriteHeader(w, st, c) = O!Commit(v)
<1> DEFINE u == [w EXCEPT !.status = st]
           In(i, v) == IF i <= Len(c) THEN O!Through(c[i], v) ELSE v
           v3 == In(3, u)
           v2 == In(2, v3)
           v1 == In(1, v2)
           M(k) == { c[i] : i \in { j \in k .. 3 : j <= Len(c) } }
<1>1. Passing(u, u, {})
  <2>1. u = [header |-> w.header, status |-> st, headerWritten |-> w.headerWritten,
             rejected |-> w.rejected, wire |-> w.wire, body |-> w.body, hinted |-> w.hinted,
             silent |-> w.silent]
    BY DEF WriterShape
  <2>2. WriterShape(u)
    BY <2>1 DEF WriterShape
  <2> HIDE DEF u
  <2> QED BY <2>2 DEF Passing
<1>2. ASSUME NEW k \in {1, 2, 3}, NEW v, NEW seen, Passing(u, v, seen), NEW all,
             all = seen \cup { c[i] : i \in { j \in {k} : j <= Len(c) } }
      PROVE  Passing(u, In(k, v), all)
  <2> HIDE DEF u
  <2>1. CASE k <= Len(c)
    <3>1. all = seen \cup {c[k]} /\ In(k, v) = O!Through(c[k], v)
      BY <1>2, <2>1
    <3> QED BY <1>2, <3>1, ThroughOne
  <2>2. CASE ~(k <= Len(c))
    <3>1. all = seen /\ In(k, v) = v
      BY <1>2, <2>2
    <3> QED BY <1>2, <3>1
  <2> QED BY <2>1, <2>2
<1>3. /\ M(3) = {} \cup { c[i] : i \in { j \in {3} : j <= Len(c) } }
      /\ M(2) = M(3) \cup { c[i] : i \in { j \in {2} : j <= Len(c) } }
      /\ M(1) = M(2) \cup { c[i] : i \in { j \in {1} : j <= Len(c) } }
  <2>1. 3 .. 3 = {3} /\ 2 .. 3 = {2, 3} /\ 1 .. 3 = {1, 2, 3}
    OBVIOUS
  <2> QED BY <2>1
<1> HIDE DEF u
<1>4. Passing(u, v3, M(3))
  BY <1>1, <1>2, <1>3
<1>5. Passing(u, v2, M(2))
  <2> HIDE DEF v3, M, In
  <2> QED BY <1>2, <1>3, <1>4
<1>6. Passing(u, v1, M(1))
  <2> HIDE DEF v2, M, In
  <2> QED BY <1>2, <1>3, <1>5
<1>7. O!WriteHeader(w, st, c) = O!Commit(v1)
  BY DEF O!WriteHeader, u
<1>8. M(1) = Wrappers(c)
  BY DEF Wrappers
<1> HIDE DEF v1
<1> QED BY <1>6, <1>7, <1>8 DEF u

\* What the origin o is told.
Expected(o) == IF o # "" /\ O!isOriginAllowed(o) THEN o ELSE O!None
AllowsOwn(h, o) == h.vary = TRUE /\ h.allow = Expected(o)

\* A writer that keeps the promises, and has kept them on the wire.
Good(w) ==
    /\ WriterShape(w)
    /\ ~O!Sent(w) => ~w.rejected /\ ~w.silent /\ (~w.hinted => ~w.headerWritten)
    /\ O!Sent(w) =>
          /\ O!Mounted("cookies") /\ ~w.silent => Secured(w.wire[1].header)
          /\ O!Mounted("splitting") /\ ~w.silent /\ ~w.hinted => NoneDirty(w.wire[1].header)
          /\ w.rejected => /\ w.wire[1] = [status |-> 500, header |-> O!NoHeader]
                           /\ w.body = <<"refusal">>

Own(w, o) ==
    IF O!Sent(w) THEN w.rejected \/ AllowsOwn(w.wire[1].header, o) ELSE AllowsOwn(w.header, o)

\* The inductive invariant.
AnswerInv ==
    /\ Len(chain) \in 0 .. 3
    /\ Good(writer)
    /\ exchange # O!NoRequest =>
          /\ O!Mounted("cors") => Own(writer, exchange.origin)
          /\ O!Sent(writer) /\ O!Mounted("splitting") /\ ops # MaxOps => writer.headerWritten
    /\ cache # <<>> /\ O!Mounted("cors") =>
          cache[1].vary = TRUE /\ cache[1].allow = Expected(cache[1].origin)
    /\ O!EachOriginItsOwn

\* What WriteHeader makes of a writer that keeps them.
LEMMA HeaderWritten ==
    ASSUME NEW w, WriterShape(w), NEW c, NEW st, ~O!Sent(w) => ~w.rejected
    PROVE  LET x == O!WriteHeader(w, st, c)
           IN  /\ WriterShape(x) /\ x.hinted = w.hinted /\ x.silent = w.silent
               /\ "splitting" \in Wrappers(c) => x.headerWritten
               /\ O!Sent(w) => x.wire = w.wire
               /\ w.headerWritten \/ "splitting" \notin Wrappers(c) => x.rejected = w.rejected /\ x.body = w.body
               /\ ~O!Sent(w) =>
                     /\ "cookies" \in Wrappers(c) => Secured(x.header)
                     /\ "splitting" \in Wrappers(c) /\ ~w.headerWritten => NoneDirty(x.header)
                     /\ Bare(w.header) => Bare(x.header)
                     /\ \/ /\ ~x.rejected /\ x.body = w.body
                           /\ x.header.allow = w.header.allow /\ x.header.vary = w.header.vary
                           /\ IF st = O!Info THEN x.wire = <<>>
                              ELSE x.wire = <<[status |-> st, header |-> x.header]>>
                        \/ /\ x.rejected /\ x.header = O!NoHeader /\ x.body = <<"refusal">>
                           /\ x.wire = <<[status |-> 500, header |-> O!NoHeader]>>
<1> DEFINE x == O!WriteHeader(w, st, c)
           u == [w EXCEPT !.status = st]
<1>1. u = [header |-> w.header, status |-> st, headerWritten |-> w.headerWritten,
           rejected |-> w.rejected, wire |-> w.wire, body |-> w.body, hinted |-> w.hinted,
           silent |-> w.silent]
  BY DEF WriterShape
<1>2. PICK v : Passing(u, v, Wrappers(c)) /\ x = O!Commit(v)
  BY WriteHeaderDoes
<1>3. /\ u.header = w.header /\ u.status = st /\ u.headerWritten = w.headerWritten
      /\ u.rejected = w.rejected /\ u.wire = w.wire /\ u.body = w.body /\ u.hinted = w.hinted
      /\ u.silent = w.silent
  BY <1>1
<1> HIDE DEF u, x
<1>4. v.wire = w.wire /\ WriterShape(v)
  BY <1>2, <1>3 DEF Passing
<1> DEFINE out == <<[status |-> v.status, header |-> v.header]>>
<1>5. CASE O!Sent(w) \/ v.status = O!Info
  <2>1. x = v
    BY <1>2, <1>4, <1>5 DEF O!Commit, O!Sent
  <2>2. v.status = O!Info => v.status = u.status /\ v.status # 500
    BY <1>2 DEF Passing, O!Info
  <2>3. CASE O!Sent(w)
    BY <1>2, <1>3, <2>1, <2>3 DEF Passing, x
  <2>4. CASE ~O!Sent(w)
    BY <1>2, <1>3, <1>5, <2>1, <2>2, <2>4 DEF Passing, O!Sent, x
  <2> QED BY <2>3, <2>4 DEF x
<1>6. CASE ~O!Sent(w) /\ v.status # O!Info
  <2>1. x = [v EXCEPT !.wire = out]
    BY <1>2, <1>4, <1>6 DEF O!Commit, O!Sent
  <2> HIDE DEF out
  <2>2. x = [header |-> v.header, status |-> v.status, headerWritten |-> v.headerWritten,
             rejected |-> v.rejected, wire |-> out, body |-> v.body, hinted |-> v.hinted,
             silent |-> v.silent]
    BY <1>4, <2>1 DEF WriterShape
  <2>3. WriterShape(x)
    BY <1>4, <2>2 DEF WriterShape
  <2>4. /\ x.header = v.header /\ x.headerWritten = v.headerWritten /\ x.rejected = v.rejected
        /\ x.wire = out /\ x.body = v.body /\ x.hinted = v.hinted /\ x.silent = v.silent
    BY <2>2
  <2>5. \/ ~v.rejected /\ v.body = w.body /\ v.status = st
           /\ v.header.allow = w.header.allow /\ v.header.vary = w.header.vary
        \/ v.rejected /\ v.status = 500 /\ v.header = O!NoHeader /\ v.body = <<"refusal">>
    BY <1>2, <1>3, <1>6 DEF Passing
  <2>6. \/ out = <<[status |-> st, header |-> x.header]>> /\ st # O!Info /\ ~x.rejected /\ x.body = w.body
           /\ x.header.allow = w.header.allow /\ x.header.vary = w.header.vary
        \/ out = <<[status |-> 500, header |-> O!NoHeader]>> /\ x.rejected /\ x.header = O!NoHeader
           /\ x.body = <<"refusal">>
    BY <1>6, <2>4, <2>5 DEF out
  <2>7. /\ "cookies" \in Wrappers(c) => Secured(v.header)
        /\ "splitting" \in Wrappers(c) => v.headerWritten
        /\ "splitting" \in Wrappers(c) /\ ~w.headerWritten => NoneDirty(v.header)
        /\ Bare(w.header) => Bare(v.header)
        /\ v.hinted = w.hinted /\ v.silent = w.silent
        /\ w.headerWritten \/ "splitting" \notin Wrappers(c) => v.rejected = w.rejected /\ v.body = w.body
    BY <1>2, <1>3 DEF Passing
  <2> QED BY <1>6, <2>3, <2>4, <2>6, <2>7 DEF x
<1> QED BY <1>5, <1>6

LEMMA MountedWraps ==
    ASSUME Len(chain) \in 0 .. 3, NEW m
    PROVE  O!Mounted(m) <=> m \in Wrappers(chain)
BY DEF O!Mounted, Wrappers

\* Written to by the handler, a writer goes on keeping the promises.
LEMMA WriteKeeps ==
    ASSUME Len(chain) \in 0 .. 3, NEW w, Good(w), NEW st \in {200, O!Info},
           O!Sent(w) /\ O!Mounted("splitting") => w.headerWritten
    PROVE  LET x == O!WriteHeader(w, st, chain)
           IN  /\ Good(IF st = O!Info THEN [x EXCEPT !.hinted = TRUE] ELSE x)
               /\ O!Mounted("splitting") => x.headerWritten
               /\ \A o : Own(w, o) => Own(x, o)
               /\ st # O!Info => O!Sent(x)
<1> DEFINE x == O!WriteHeader(w, st, chain)
<1>1. WriterShape(w) /\ (~O!Sent(w) => ~w.rejected /\ ~w.silent /\ (~w.hinted => ~w.headerWritten))
  BY DEF Good
<1>2. /\ WriterShape(x) /\ x.hinted = w.hinted /\ x.silent = w.silent
      /\ O!Mounted("splitting") => x.headerWritten
      /\ O!Sent(w) => x.wire = w.wire
      /\ w.headerWritten \/ ~O!Mounted("splitting") => x.rejected = w.rejected /\ x.body = w.body
      /\ ~O!Sent(w) =>
            /\ O!Mounted("cookies") => Secured(x.header)
            /\ O!Mounted("splitting") /\ ~w.headerWritten => NoneDirty(x.header)
            /\ \/ /\ ~x.rejected /\ x.body = w.body
                  /\ x.header.allow = w.header.allow /\ x.header.vary = w.header.vary
                  /\ IF st = O!Info THEN x.wire = <<>>
                     ELSE x.wire = <<[status |-> st, header |-> x.header]>>
               \/ /\ x.rejected /\ x.header = O!NoHeader /\ x.body = <<"refusal">>
                  /\ x.wire = <<[status |-> 500, header |-> O!NoHeader]>>
  BY <1>1, HeaderWritten, MountedWraps
<1> HIDE DEF x
<1>3. /\ \A z : <<z>> # <<>> /\ <<z>>[1] = z
      /\ Secured(O!NoHeader) /\ NoneDirty(O!NoHeader)
  BY EmptyList DEF O!NoHeader, Secured, NoneDirty
<1>4. /\ WriterShape(x)
      /\ ~O!Sent(w) =>
            IF x.rejected
            THEN x.body = <<"refusal">> /\ x.wire = <<[status |-> 500, header |-> O!NoHeader]>>
            ELSE /\ x.header.allow = w.header.allow /\ x.header.vary = w.header.vary
                 /\ IF st = O!Info THEN x.wire = <<>>
                    ELSE x.wire = <<[status |-> st, header |-> x.header]>>
  BY <1>2
<1>5. /\ O!Sent(x) /\ O!Mounted("cookies") /\ ~x.silent => Secured(x.wire[1].header)
      /\ O!Sent(x) /\ O!Mounted("splitting") /\ ~x.silent /\ ~x.hinted => NoneDirty(x.wire[1].header)
      /\ O!Sent(x) /\ x.rejected => /\ x.wire[1] = [status |-> 500, header |-> O!NoHeader]
                                    /\ x.body = <<"refusal">>
      /\ ~O!Sent(x) => ~O!Sent(w) /\ ~x.rejected /\ ~x.silent /\ st = O!Info
  <2>1. CASE O!Sent(w)
    BY <1>2, <2>1 DEF Good, O!Sent
  <2>2. CASE ~O!Sent(w) /\ ~x.rejected
    <3>1. CASE st = O!Info
      BY <1>1, <1>2, <1>4, <2>2, <3>1 DEF O!Sent
    <3>2. CASE st # O!Info
      <4>1. x.wire[1].header = x.header /\ O!Sent(x)
        BY <1>3, <1>4, <2>2, <3>2 DEF O!Sent
      <4> QED BY <1>1, <1>2, <2>2, <4>1
    <3> QED BY <3>1, <3>2
  <2>3. CASE ~O!Sent(w) /\ x.rejected
    <3>1. /\ x.wire[1] = [status |-> 500, header |-> O!NoHeader] /\ x.body = <<"refusal">>
          /\ O!Sent(x)
      BY <1>3, <1>4, <2>3, SMTT(60) DEF O!Sent
    <3>2. x.wire[1].header = O!NoHeader
      BY <3>1
    <3> QED BY <1>3, <3>1, <3>2
  <2> QED BY <2>1, <2>2, <2>3
<1>6. ASSUME st = O!Info
      PROVE  Good([x EXCEPT !.hinted = TRUE])
  <2> DEFINE y == [x EXCEPT !.hinted = TRUE]
  <2>1. y = [header |-> x.header, status |-> x.status, headerWritten |-> x.headerWritten,
             rejected |-> x.rejected, wire |-> x.wire, body |-> x.body, hinted |-> TRUE,
             silent |-> x.silent]
    <3>1. ASSUME NEW z, WriterShape(z), NEW b
          PROVE  [z EXCEPT !.hinted = b]
                    = [header |-> z.header, status |-> z.status, headerWritten |-> z.headerWritten,
                       rejected |-> z.rejected, wire |-> z.wire, body |-> z.body, hinted |-> b,
                       silent |-> z.silent]
      BY <3>1 DEF WriterShape
    <3> QED BY <1>4, <3>1
  <2> HIDE DEF y
  <2>2. WriterShape(y)
    BY <1>2, <2>1 DEF WriterShape
  <2>3. Good(y)
    BY <1>5, <2>1, <2>2 DEF Good, O!Sent
  <2> QED BY <2>3 DEF y
<1>7. st # O!Info => Good(x) /\ O!Sent(x)
  BY <1>2, <1>5 DEF Good
<1>8. ASSUME NEW o, Own(w, o) PROVE Own(x, o)
  <2>1. CASE O!Sent(w)
    <3>1. x.wire = w.wire /\ O!Sent(x) /\ x.rejected = w.rejected
      BY <1>2, <2>1 DEF O!Sent
    <3> QED BY <1>8, <2>1, <3>1 DEF Own
  <2>2. CASE ~O!Sent(w)
    <3>1. AllowsOwn(w.header, o)
      BY <1>8, <2>2 DEF Own
    <3>2. CASE x.rejected
      BY <1>3, <1>4, <2>2, <3>2, SMTT(60) DEF Own, O!Sent
    <3>3. CASE ~x.rejected /\ st = O!Info
      BY <1>4, <2>2, <3>1, <3>3 DEF Own, AllowsOwn, O!Sent
    <3>4. CASE ~x.rejected /\ st # O!Info
      <4>1. x.wire[1].header = x.header /\ O!Sent(x)
        BY <1>3, <1>4, <2>2, <3>4 DEF O!Sent
      <4> QED BY <1>4, <2>2, <3>1, <3>4, <4>1 DEF Own, AllowsOwn
    <3> QED BY <3>2, <3>3, <3>4
  <2> QED BY <2>1, <2>2
<1> QED BY <1>2, <1>6, <1>7, <1>8 DEF x

\* A step of the handler keeps the invariant if what it makes of the writer does.
LEMMA HandlerKeeps ==
    ASSUME AnswerInv, NEW w, O!Handler(w), Good(w),
           exchange # O!NoRequest =>
              /\ \A o : Own(writer, o) => Own(w, o)
              /\ O!Sent(w) /\ O!Mounted("splitting") => w.headerWritten
    PROVE  AnswerInv'
<1>1. writer' = w /\ UNCHANGED <<chain, mode, policy, exchange, cache, received>>
  BY DEF O!Handler
<1>2. /\ \A m : O!Mounted(m)' <=> O!Mounted(m)
      /\ \A o : Expected(o)' = Expected(o)
  BY <1>1 DEF O!Mounted, Expected, O!isOriginAllowed
<1>3. Good(writer)'
  BY <1>1, <1>2 DEF Good, WriterShape, HeaderShape, O!Sent, Secured, NoneDirty
<1>4. \A o : Own(writer, o)' <=> Own(w, o)
  BY <1>1, <1>2 DEF Own, AllowsOwn, O!Sent
<1>5. O!EachOriginItsOwn'
  BY <1>1 DEF AnswerInv, O!EachOriginItsOwn, O!Mounted, O!isOriginAllowed
<1>6. O!Mounted("cors") /\ exchange # O!NoRequest => Own(w, exchange.origin)
  BY DEF AnswerInv
<1>7. exchange # O!NoRequest /\ O!Sent(w) /\ O!Mounted("splitting") => w.headerWritten
  OBVIOUS
<1>8. /\ (exchange # O!NoRequest)' <=> exchange # O!NoRequest
      /\ O!Sent(writer)' <=> O!Sent(w)
  BY <1>1 DEF O!Sent
<1>9. exchange'.origin = exchange.origin
  BY <1>1
<1>10. (exchange # O!NoRequest => /\ O!Mounted("cors") => Own(writer, exchange.origin)
                                  /\ O!Sent(writer) /\ O!Mounted("splitting") /\ ops # MaxOps => writer.headerWritten)'
  BY <1>1, <1>2, <1>4, <1>6, <1>7, <1>8, <1>9
<1> QED BY <1>1, <1>2, <1>3, <1>5, <1>10 DEF AnswerInv

LEMMA FreshGood == Good(O!Fresh) /\ O!Fresh.header = O!NoHeader /\ ~O!Sent(O!Fresh)
<1>1. HeaderShape(O!NoHeader)
  BY EmptyList DEF HeaderShape, O!NoHeader
<1>2. WriterShape(O!Fresh)
  BY <1>1 DEF O!Fresh, WriterShape
<1>3. /\ O!Fresh.header = O!NoHeader /\ O!Fresh.wire = <<>> /\ ~O!Fresh.rejected
      /\ ~O!Fresh.silent /\ ~O!Fresh.headerWritten
  BY DEF O!Fresh
<1> QED BY <1>2, <1>3 DEF Good, O!Sent

LEMMA AnswerStarts == O!Init => AnswerInv
<1> SUFFICES ASSUME O!Init PROVE AnswerInv
  OBVIOUS
<1>1. chain \in O!SeqOf({"cors", "cookies", "splitting"}, 3)
  BY DEF O!Init
<1>2. PICK n \in 0 .. 3 : chain \in [1 .. n -> {"cors", "cookies", "splitting"}]
  BY <1>1 DEF O!SeqOf
<1>3. Len(chain) \in 0 .. 3
  BY <1>2
<1>4. writer = O!Fresh /\ exchange = O!NoRequest /\ cache = <<>> /\ received = O!NoAnswer
  BY DEF O!Init
<1>5. Good(O!Fresh)
  BY FreshGood
<1>6. O!EachOriginItsOwn
  BY <1>4 DEF O!EachOriginItsOwn, O!NoAnswer
<1> QED BY <1>3, <1>4, <1>5, <1>6 DEF AnswerInv

\* SafeCors sets its headers on the way in, and may answer itself.
LEMMA ReceiveKeeps == ASSUME StandaloneOptions, AnswerInv, O!Receive PROVE AnswerInv'
<1>1. UNCHANGED <<chain, mode, policy, cache>> /\ received' = O!NoAnswer
  BY DEF O!Receive
<1>2. /\ \A m : O!Mounted(m)' <=> O!Mounted(m)
      /\ \A o : Expected(o)' = Expected(o)
  BY <1>1 DEF O!Mounted, Expected, O!isOriginAllowed
<1> DEFINE W(o) == IF O!Mounted("cors") THEN [O!Fresh EXCEPT !.header = O!GetHeaders(@, o)] ELSE O!Fresh
<1>3. PICK o, p, c :
         LET r == [origin |-> o, preflight |-> p]
         IN  /\ exchange' = r
             /\ IF O!Preflight(W(o), r)
                THEN writer' = O!WriteHeader(W(o), 204, c) /\ ops' = MaxOps
                ELSE writer' = W(o) /\ ops' = 0
  BY DEF O!Receive
<1> DEFINE w == W(o)
<1>4. /\ WriterShape(w) /\ w.wire = <<>> /\ ~w.rejected /\ ~w.silent /\ ~w.headerWritten
      /\ Bare(w.header)
      /\ O!Mounted("cors") => AllowsOwn(w.header, o)
  <2>1. HeaderShape(O!NoHeader) /\ Bare(O!NoHeader)
    BY EmptyList DEF HeaderShape, Bare, O!NoHeader
  <2>2. CASE ~O!Mounted("cors")
    <3>1. w = O!Fresh
      BY <2>2
    <3> QED BY <2>1, <2>2, <3>1 DEF O!Fresh, WriterShape
  <2>3. CASE O!Mounted("cors")
    <3> DEFINE h == [cookie |-> <<>>, plain |-> <<>>, allow |-> Expected(o), vary |-> TRUE]
    <3>1. O!GetHeaders(O!NoHeader, o) = h
      <4> DEFINE a == Expected(o)
      <4>1. O!GetHeaders(O!NoHeader, o) = [O!NoHeader EXCEPT !.vary = TRUE, !.allow = a]
        BY DEF O!GetHeaders, Expected, O!NoHeader
      <4> HIDE DEF a
      <4>2. ASSUME NEW u, u = [cookie |-> u.cookie, plain |-> u.plain, allow |-> u.allow, vary |-> u.vary], NEW b
            PROVE  [u EXCEPT !.vary = b, !.allow = a]
                      = [cookie |-> u.cookie, plain |-> u.plain, allow |-> a, vary |-> b]
        <5>1. [u EXCEPT !.vary = b] = [cookie |-> u.cookie, plain |-> u.plain, allow |-> u.allow, vary |-> b]
          BY <4>2
        <5>2. ASSUME NEW t, t = [cookie |-> u.cookie, plain |-> u.plain, allow |-> u.allow, vary |-> b]
              PROVE  [t EXCEPT !.allow = a] = [cookie |-> u.cookie, plain |-> u.plain, allow |-> a, vary |-> b]
          BY <5>2
        <5> QED BY <5>1, <5>2
      <4>3. O!NoHeader.cookie = <<>> /\ O!NoHeader.plain = <<>>
        BY DEF O!NoHeader
      <4> QED BY <2>1, <4>1, <4>2, <4>3 DEF a, HeaderShape
    <3>2. HeaderShape(h) /\ Bare(h) /\ AllowsOwn(h, o)
      BY EmptyList DEF HeaderShape, Bare, AllowsOwn
    <3> HIDE DEF h
    <3>3. w = [O!Fresh EXCEPT !.header = h]
      BY <2>3, <3>1 DEF O!Fresh
    <3>4. w = [header |-> h, status |-> 0, headerWritten |-> FALSE, rejected |-> FALSE,
               wire |-> <<>>, body |-> <<>>, hinted |-> FALSE, silent |-> FALSE]
      BY <3>3 DEF O!Fresh
    <3> HIDE DEF w
    <3> QED BY <3>2, <3>4 DEF WriterShape
  <2> QED BY <2>2, <2>3
<1> HIDE DEF W, w
<1>5. exchange'.origin = o
  BY <1>3
<1>6. /\ \A h : (Secured(h)' <=> Secured(h)) /\ (NoneDirty(h)' <=> NoneDirty(h))
      /\ \A v, q : Own(v, q)' <=> Own(v, q)
      /\ \A v : Good(v)' <=> Good(v)
  BY <1>2 DEF Own, AllowsOwn, O!Sent, Good, WriterShape, HeaderShape, Secured, NoneDirty
<1>7. /\ Good(writer') /\ (O!Mounted("cors") => Own(writer', o))
      /\ writer'.wire # <<>> => ops' = MaxOps
  <2>1. CASE writer' = w
    <3>1. ~O!Sent(w)
      BY <1>4 DEF O!Sent
    <3> QED BY <1>4, <2>1, <3>1 DEF Good, Own, O!Sent
  <2>2. CASE writer' # w
    <3> DEFINE x == writer'
    <3>1. x = O!WriteHeader(w, 204, c) /\ ops' = MaxOps
      BY <1>3, <2>2 DEF w
    <3>2. ~O!Sent(w)
      BY <1>4 DEF O!Sent
    <3>3. /\ WriterShape(x) /\ x.silent = w.silent /\ Bare(x.header)
          /\ \/ /\ ~x.rejected
                /\ x.header.allow = w.header.allow /\ x.header.vary = w.header.vary
                /\ x.wire = <<[status |-> 204, header |-> x.header]>>
             \/ /\ x.rejected /\ x.body = <<"refusal">>
                /\ x.wire = <<[status |-> 500, header |-> O!NoHeader]>>
      BY <1>4, <3>1, <3>2, HeaderWritten DEF O!Info
    <3> HIDE DEF x
    <3>4. /\ \A z : <<z>> # <<>> /\ <<z>>[1] = z
          /\ Secured(O!NoHeader) /\ NoneDirty(O!NoHeader)
      BY EmptyList DEF O!NoHeader, Secured, NoneDirty
    <3>5. Secured(x.header) /\ NoneDirty(x.header)
      BY <3>3, EmptyList DEF Bare, Secured, NoneDirty
    <3>6. CASE ~x.rejected
      <4>1. x.wire[1].header = x.header /\ O!Sent(x)
        BY <3>3, <3>4, <3>6 DEF O!Sent
      <4>2. O!Mounted("cors") => AllowsOwn(x.header, o)
        BY <1>4, <3>3, <3>6 DEF AllowsOwn
      <4>3. Good(x) /\ (O!Mounted("cors") => Own(x, o))
        BY <1>4, <3>3, <3>5, <3>6, <4>1, <4>2 DEF Good, Own
      <4> QED BY <3>1, <4>3 DEF x
    <3>7. CASE x.rejected
      <4>1. x.wire[1] = [status |-> 500, header |-> O!NoHeader] /\ O!Sent(x) /\ x.body = <<"refusal">>
        <5>1. x.wire = <<[status |-> 500, header |-> O!NoHeader]>> /\ x.body = <<"refusal">>
          BY <3>3, <3>7
        <5> QED BY <3>4, <5>1 DEF O!Sent
      <4>2. x.wire[1].header = O!NoHeader
        BY <4>1
      <4>3. Good(x) /\ Own(x, o)
        BY <3>3, <3>4, <3>7, <4>1, <4>2 DEF Good, Own
      <4> QED BY <3>1, <4>3 DEF x
    <3> QED BY <3>6, <3>7
  <2> QED BY <2>1, <2>2
<1>8. O!EachOriginItsOwn'
  BY <1>1 DEF O!EachOriginItsOwn, O!NoAnswer
<1>9. /\ Good(writer)' /\ (O!Mounted("cors") => Own(writer, exchange.origin))'
      /\ (O!Sent(writer))' => ops' = MaxOps
  BY <1>2, <1>5, <1>6, <1>7 DEF O!Sent
<1>10. Len(chain') \in 0 .. 3
      /\ (cache # <<>> /\ O!Mounted("cors") =>
            cache[1].vary = TRUE /\ cache[1].allow = Expected(cache[1].origin))'
  BY <1>1, <1>2 DEF AnswerInv
<1> QED BY <1>1, <1>8, <1>9, <1>10 DEF AnswerInv

\* The handler's steps.
LEMMA SetHeaderKeeps == ASSUME AnswerInv, O!SetHeader PROVE AnswerInv'
<1>1. PICK d \in BOOLEAN :
         \/ O!Handler([writer EXCEPT !.header.cookie = Append(@, [secure |-> FALSE, dirty |-> d])])
         \/ O!Handler([writer EXCEPT !.header.plain = Append(@, [secure |-> FALSE, dirty |-> d])])
  BY DEF O!SetHeader
<1> DEFINE v == [secure |-> FALSE, dirty |-> d]
           c == Append(writer.header.cookie, v)
           p == Append(writer.header.plain, v)
           h == writer.header
<1>2. Good(writer) /\ WriterShape(writer) /\ HeaderShape(h) /\ ~O!Sent(writer)
  BY DEF AnswerInv, Good, WriterShape, O!SetHeader
<1>3. c \in Seq(Value) /\ p \in Seq(Value)
  BY <1>2 DEF HeaderShape, Value
<1> HIDE DEF c, p
<1>4. PICK w, g : /\ O!Handler(w) /\ w = [writer EXCEPT !.header = g]
                  /\ HeaderShape(g) /\ g.allow = h.allow /\ g.vary = h.vary
  <2>1. ASSUME NEW g, NEW a, NEW b, g = [cookie |-> a, plain |-> b, allow |-> h.allow, vary |-> h.vary],
               a \in Seq(Value), b \in Seq(Value)
        PROVE  HeaderShape(g) /\ g.allow = h.allow /\ g.vary = h.vary
    BY <2>1 DEF HeaderShape
  <2>2. CASE O!Handler([writer EXCEPT !.header.cookie = c])
    <3>1. [writer EXCEPT !.header.cookie = c] = [writer EXCEPT !.header = [h EXCEPT !.cookie = c]]
      OBVIOUS
    <3>2. [h EXCEPT !.cookie = c] = [cookie |-> c, plain |-> h.plain, allow |-> h.allow, vary |-> h.vary]
      BY <1>2 DEF HeaderShape
    <3> HIDE DEF h
    <3>3. HeaderShape([h EXCEPT !.cookie = c]) /\ [h EXCEPT !.cookie = c].allow = h.allow
          /\ [h EXCEPT !.cookie = c].vary = h.vary
      BY <1>2, <1>3, <2>1, <3>2 DEF HeaderShape
    <3> QED BY <2>2, <3>1, <3>3
  <2>3. CASE O!Handler([writer EXCEPT !.header.plain = p])
    <3>1. [writer EXCEPT !.header.plain = p] = [writer EXCEPT !.header = [h EXCEPT !.plain = p]]
      OBVIOUS
    <3>2. [h EXCEPT !.plain = p] = [cookie |-> h.cookie, plain |-> p, allow |-> h.allow, vary |-> h.vary]
      BY <1>2 DEF HeaderShape
    <3> HIDE DEF h
    <3>3. HeaderShape([h EXCEPT !.plain = p]) /\ [h EXCEPT !.plain = p].allow = h.allow
          /\ [h EXCEPT !.plain = p].vary = h.vary
      BY <1>2, <1>3, <2>1, <3>2 DEF HeaderShape
    <3> QED BY <2>3, <3>1, <3>3
  <2> QED BY <1>1, <2>2, <2>3 DEF c, p
<1>5. w = [header |-> g, status |-> writer.status, headerWritten |-> writer.headerWritten,
           rejected |-> writer.rejected, wire |-> writer.wire, body |-> writer.body,
           hinted |-> writer.hinted, silent |-> writer.silent]
  BY <1>2, <1>4 DEF WriterShape
<1>6. WriterShape(w)
  BY <1>2, <1>4, <1>5 DEF WriterShape
<1>7. ~O!Sent(w) /\ Good(w)
  BY <1>2, <1>5, <1>6 DEF Good, O!Sent
<1>8. \A o : Own(writer, o) => Own(w, o)
  BY <1>2, <1>4, <1>5, <1>7 DEF Own, AllowsOwn
<1> QED BY <1>4, <1>7, <1>8, HandlerKeeps

LEMMA WritesKeep == ASSUME StandaloneOptions, AnswerInv, O!Writes PROVE AnswerInv'
<1> DEFINE x(st) == O!WriteHeader(writer, st, chain)
           y == O!Write(writer, chain)
           z == [x(O!Info) EXCEPT !.hinted = TRUE]
<1>1. Len(chain) \in 0 .. 3 /\ Good(writer)
  BY DEF AnswerInv
<1>2. \/ O!Handler(x(200))
      \/ ~O!Sent(writer) /\ O!Handler(z)
      \/ O!Handler(y)
  BY DEF O!Writes
<1>3. exchange # O!NoRequest /\ ops < MaxOps
  BY <1>2 DEF O!Handler
<1>4. O!Sent(writer) /\ O!Mounted("splitting") => writer.headerWritten
  <2>1. ops # MaxOps
    BY <1>3, StandaloneOptions DEF StandaloneOptions, O!Options
  <2> QED BY <1>3, <2>1 DEF AnswerInv
<1>5. 200 # O!Info
  BY DEF O!Info
<1>6. /\ Good(x(200)) /\ O!Sent(x(200)) /\ (O!Mounted("splitting") => x(200).headerWritten)
      /\ \A o : Own(writer, o) => Own(x(200), o)
  BY <1>1, <1>4, <1>5, WriteKeeps, ZenonT(60)
<1>7. /\ Good(z) /\ (O!Mounted("splitting") => x(O!Info).headerWritten)
      /\ \A o : Own(writer, o) => Own(x(O!Info), o)
  BY <1>1, <1>4, WriteKeeps, ZenonT(60)
<1>8. WriterShape(x(O!Info))
  <2>1. WriterShape(writer) /\ (~O!Sent(writer) => ~writer.rejected)
    BY <1>1 DEF Good
  <2> QED BY <2>1, HeaderWritten, ZenonT(60)
<1> HIDE DEF x
<1>9. CASE O!Handler(x(200))
  BY <1>6, <1>9, HandlerKeeps
<1>10. CASE O!Handler(z)
  <2> DEFINE w == x(O!Info)
  <2>1. ASSUME NEW w1, WriterShape(w1), NEW b
        PROVE  [w1 EXCEPT !.hinted = b]
                  = [header |-> w1.header, status |-> w1.status, headerWritten |-> w1.headerWritten,
                     rejected |-> w1.rejected, wire |-> w1.wire, body |-> w1.body, hinted |-> b,
                     silent |-> w1.silent]
    BY <2>1 DEF WriterShape
  <2>2. /\ z.header = w.header /\ z.headerWritten = w.headerWritten /\ z.rejected = w.rejected
        /\ z.wire = w.wire
    BY <1>8, <2>1
  <2> HIDE DEF z, w
  <2>3. \A o : Own(w, o) => Own(z, o)
    BY <2>2 DEF Own, O!Sent
  <2>4. \A o : Own(writer, o) => Own(z, o)
    BY <1>7, <2>3 DEF w
  <2>5. O!Mounted("splitting") => z.headerWritten
    BY <1>7, <2>2 DEF w
  <2> QED BY <1>7, <1>10, <2>4, <2>5, HandlerKeeps
<1>11. CASE O!Handler(y)
  <2> DEFINE w == x(200)
  <2>1. y = IF w.rejected THEN w ELSE [w EXCEPT !.body = Append(@, "content")]
    BY DEF O!Write, x
  <2> HIDE DEF y, w
  <2>2. Good(w) /\ O!Sent(w) /\ (O!Mounted("splitting") => w.headerWritten)
        /\ \A o : Own(writer, o) => Own(w, o)
    BY <1>6 DEF w
  <2>3. CASE w.rejected
    BY <1>11, <2>1, <2>2, <2>3, HandlerKeeps
  <2>4. CASE ~w.rejected
    <3>1. PICK b : y = [w EXCEPT !.body = b]
      BY <2>1, <2>4
    <3>2. y = [header |-> w.header, status |-> w.status, headerWritten |-> w.headerWritten,
               rejected |-> w.rejected, wire |-> w.wire, body |-> b, hinted |-> w.hinted,
               silent |-> w.silent]
      <4>1. ASSUME NEW u, WriterShape(u)
            PROVE  [u EXCEPT !.body = b]
                      = [header |-> u.header, status |-> u.status, headerWritten |-> u.headerWritten,
                         rejected |-> u.rejected, wire |-> u.wire, body |-> b, hinted |-> u.hinted,
                         silent |-> u.silent]
        BY <4>1 DEF WriterShape
      <4> QED BY <2>2, <3>1, <4>1 DEF Good
    <3>3. WriterShape(y)
      BY <2>2, <3>2 DEF Good, WriterShape
    <3>4. /\ y.header = w.header /\ y.headerWritten = w.headerWritten /\ y.rejected = w.rejected
          /\ y.wire = w.wire /\ y.hinted = w.hinted /\ y.silent = w.silent
      BY <3>2
    <3>5. Good(y) /\ O!Sent(y)
      BY <2>2, <2>4, <3>3, <3>4 DEF Good, O!Sent
    <3>6. \A o : Own(writer, o) => Own(y, o)
      BY <2>2, <3>4 DEF Own, O!Sent
    <3> QED BY <1>11, <2>2, <3>4, <3>5, <3>6, HandlerKeeps
  <2> QED BY <2>3, <2>4
<1> QED BY <1>2, <1>9, <1>10, <1>11

\* The handler returns: what is on the wire, or goes there past the wrappers,
\* is the answer, and what a cache may keep.
LEMMA FinishKeeps == ASSUME AnswerInv, O!Finish PROVE AnswerInv'
<1> DEFINE silent == [writer EXCEPT !.status = 200, !.silent = TRUE]
           w == IF O!Sent(writer) THEN writer ELSE O!Commit(silent)
           h == w.wire[1].header
<1>1. /\ exchange # O!NoRequest /\ UNCHANGED <<chain, mode, policy>>
      /\ writer' = w /\ exchange' = O!NoRequest
      /\ received' = [origin |-> exchange.origin, allow |-> h.allow, status |-> w.wire[1].status]
      /\ \/ cache' = cache
         \/ /\ w.wire[1].status = 200
            /\ cache' = <<[vary |-> h.vary, origin |-> exchange.origin, allow |-> h.allow]>>
  BY DEF O!Finish
<1>2. /\ \A m : O!Mounted(m)' <=> O!Mounted(m)
      /\ \A o : Expected(o)' = Expected(o)
  BY <1>1 DEF O!Mounted, Expected, O!isOriginAllowed
<1>3. Good(writer) /\ (O!Mounted("cors") => Own(writer, exchange.origin))
  BY <1>1 DEF AnswerInv
<1>4. /\ Good(w) /\ O!Sent(w)
      /\ O!Mounted("cors") => w.rejected \/ AllowsOwn(h, exchange.origin)
  <2>1. CASE O!Sent(writer)
    <3>1. w = writer
      BY <2>1
    <3> QED BY <1>3, <2>1, <3>1 DEF Own
  <2>2. CASE ~O!Sent(writer)
    <3>1. silent = [header |-> writer.header, status |-> 200, headerWritten |-> writer.headerWritten,
                    rejected |-> writer.rejected, wire |-> writer.wire, body |-> writer.body,
                    hinted |-> writer.hinted, silent |-> TRUE]
      <4>1. ASSUME NEW u, WriterShape(u), NEW s, NEW b
            PROVE  [u EXCEPT !.status = s, !.silent = b]
                      = [header |-> u.header, status |-> s, headerWritten |-> u.headerWritten,
                         rejected |-> u.rejected, wire |-> u.wire, body |-> u.body,
                         hinted |-> u.hinted, silent |-> b]
        <5>1. [u EXCEPT !.status = s]
                 = [header |-> u.header, status |-> s, headerWritten |-> u.headerWritten,
                    rejected |-> u.rejected, wire |-> u.wire, body |-> u.body,
                    hinted |-> u.hinted, silent |-> u.silent]
          BY <4>1 DEF WriterShape
        <5>2. ASSUME NEW t, t = [header |-> u.header, status |-> s, headerWritten |-> u.headerWritten,
                                 rejected |-> u.rejected, wire |-> u.wire, body |-> u.body,
                                 hinted |-> u.hinted, silent |-> u.silent]
              PROVE  [t EXCEPT !.silent = b]
                        = [header |-> u.header, status |-> s, headerWritten |-> u.headerWritten,
                           rejected |-> u.rejected, wire |-> u.wire, body |-> u.body,
                           hinted |-> u.hinted, silent |-> b]
          BY <5>2
        <5> QED BY <5>1, <5>2
      <4> QED BY <1>3, <4>1 DEF Good
    <3> HIDE DEF silent
    <3> DEFINE out == <<[status |-> 200, header |-> writer.header]>>
    <3>2. w = [silent EXCEPT !.wire = out]
      BY <2>2, <3>1 DEF O!Commit, O!Sent, O!Info
    <3> HIDE DEF w, out
    <3>3. w = [header |-> writer.header, status |-> 200, headerWritten |-> writer.headerWritten,
               rejected |-> writer.rejected, wire |-> out, body |-> writer.body,
               hinted |-> writer.hinted, silent |-> TRUE]
      <4>1. ASSUME NEW u, NEW b, u = [header |-> writer.header, status |-> 200, headerWritten |-> writer.headerWritten,
                              rejected |-> writer.rejected, wire |-> writer.wire, body |-> writer.body,
                              hinted |-> writer.hinted, silent |-> b], NEW o
            PROVE  [u EXCEPT !.wire = o]
                      = [header |-> writer.header, status |-> 200, headerWritten |-> writer.headerWritten,
                         rejected |-> writer.rejected, wire |-> o, body |-> writer.body,
                         hinted |-> writer.hinted, silent |-> b]
        BY <4>1
      <4> QED BY <3>1, <3>2, <4>1, ZenonT(60)
    <3>4. WriterShape(w)
      BY <1>3, <3>3 DEF Good, WriterShape
    <3>5. out[1].header = writer.header /\ out # <<>>
      <4>1. \A q : <<q>> # <<>> /\ <<q>>[1] = q
        OBVIOUS
      <4> QED BY <4>1 DEF out
    <3>6. w.wire = out /\ w.silent = TRUE /\ w.rejected = writer.rejected
      BY <3>3
    <3>7. ~writer.rejected
      BY <1>3, <2>2 DEF Good
    <3>8. Good(w) /\ O!Sent(w)
      BY <3>4, <3>5, <3>6, <3>7 DEF Good, O!Sent
    <3>9. O!Mounted("cors") => AllowsOwn(h, exchange.origin)
      BY <1>3, <2>2, <3>5, <3>6 DEF Own
    <3> QED BY <3>8, <3>9
  <2> QED BY <2>1, <2>2
<1> HIDE DEF w
<1>5. w.rejected => w.wire[1].status = 500
  <2>1. w.rejected => w.wire[1] = [status |-> 500, header |-> O!NoHeader]
    BY <1>4 DEF Good
  <2> QED BY <2>1
<1>6. Good(writer)'
  BY <1>1, <1>2, <1>4 DEF Good, WriterShape, HeaderShape, O!Sent, Secured, NoneDirty
<1>7. O!Mounted("cors") /\ w.wire[1].status \in {200, 204} => AllowsOwn(h, exchange.origin)
  BY <1>4, <1>5
<1>8. O!EachOriginItsOwn'
  <2>1. /\ received'.origin = exchange.origin /\ received'.allow = h.allow
        /\ received'.status = w.wire[1].status
    BY <1>1
  <2>2. O!Mounted("cors") /\ received'.status \in {200, 204} =>
           received'.allow = Expected(received'.origin)
    BY <1>7, <2>1 DEF AllowsOwn
  <2> QED BY <1>1, <1>2, <2>2 DEF O!EachOriginItsOwn, Expected, O!isOriginAllowed
<1>9. (cache # <<>> /\ O!Mounted("cors") =>
          cache[1].vary = TRUE /\ cache[1].allow = Expected(cache[1].origin))'
  <2>1. CASE cache' = cache
    BY <1>2, <2>1 DEF AnswerInv
  <2>2. CASE cache' # cache
    <3> DEFINE e == [vary |-> h.vary, origin |-> exchange.origin, allow |-> h.allow]
    <3>1. w.wire[1].status = 200 /\ cache' = <<e>>
      BY <1>1, <2>2
    <3>2. cache'[1] = e
      BY <3>1
    <3>3. e.vary = h.vary /\ e.allow = h.allow /\ e.origin = exchange.origin
      OBVIOUS
    <3> HIDE DEF e
    <3>4. O!Mounted("cors") => h.vary = TRUE /\ h.allow = Expected(exchange.origin)
      BY <1>7, <3>1 DEF AllowsOwn
    <3> QED BY <1>2, <3>2, <3>3, <3>4
  <2> QED BY <2>1, <2>2
<1> QED BY <1>1, <1>6, <1>8, <1>9 DEF AnswerInv

\* The cache answers.
LEMMA CachedKeeps == ASSUME AnswerInv, O!Cached PROVE AnswerInv'
<1>1. UNCHANGED <<chain, mode, policy, exchange, ops, cache>> /\ writer' = O!Fresh
      /\ exchange = O!NoRequest /\ cache # <<>>
  BY DEF O!Cached
<1>2. PICK o : /\ cache[1].vary => o = cache[1].origin
               /\ received' = [origin |-> o, allow |-> cache[1].allow, status |-> 200]
  BY DEF O!Cached
<1>3. O!EachOriginItsOwn'
  <2>1. received'.origin = o /\ received'.allow = cache[1].allow
    BY <1>2
  <2>2. O!Mounted("cors") => received'.allow = Expected(received'.origin)
    BY <1>1, <1>2, <2>1 DEF AnswerInv
  <2>3. O!Mounted("cors")' <=> O!Mounted("cors")
    BY <1>1 DEF O!Mounted
  <2> QED BY <1>1, <2>2, <2>3 DEF O!EachOriginItsOwn, Expected, O!isOriginAllowed
<1>4. Good(writer)'
  BY <1>1, FreshGood DEF Good, WriterShape, HeaderShape, O!Sent, Secured, NoneDirty, O!Mounted
<1>5. \A q : Expected(q)' = Expected(q)
  BY <1>1 DEF Expected, O!isOriginAllowed
<1>6. O!Mounted("cors")' <=> O!Mounted("cors")
  BY <1>1 DEF O!Mounted
<1> QED BY <1>1, <1>3, <1>4, <1>5, <1>6 DEF AnswerInv

LEMMA AnswerStep == StandaloneOptions /\ AnswerInv /\ [O!Next]_O!vars => AnswerInv'
<1>1. ASSUME AnswerInv, UNCHANGED O!vars PROVE AnswerInv'
  <2>1. UNCHANGED <<chain, mode, policy, exchange, ops, writer, cache, received>>
    BY <1>1 DEF O!vars
  <2>2. /\ \A m : O!Mounted(m)' <=> O!Mounted(m)
        /\ \A o : Expected(o)' = Expected(o)
    BY <2>1 DEF O!Mounted, Expected, O!isOriginAllowed
  <2>3. Good(writer)' <=> Good(writer)
    BY <2>1, <2>2 DEF Good, WriterShape, HeaderShape, O!Sent, Secured, NoneDirty
  <2>4. \A o : Own(writer, o)' <=> Own(writer, o)
    BY <2>1, <2>2 DEF Own, AllowsOwn, O!Sent
  <2>5. O!Sent(writer)' <=> O!Sent(writer)
    BY <2>1 DEF O!Sent
  <2>6. O!EachOriginItsOwn'
    BY <1>1, <2>1 DEF AnswerInv, O!EachOriginItsOwn, O!Mounted, O!isOriginAllowed
  <2>7. Own(writer, exchange.origin)' <=> Own(writer, exchange.origin)
    BY <2>1, <2>2 DEF Own, AllowsOwn, O!Sent
  <2> QED BY <1>1, <2>1, <2>2, <2>3, <2>5, <2>6, <2>7 DEF AnswerInv
<1> QED BY <1>1, ReceiveKeeps, SetHeaderKeeps, WritesKeep, FinishKeeps, CachedKeeps DEF O!Next

LEMMA PromisesKept == AnswerInv => AnswersKept
<1> SUFFICES ASSUME AnswerInv PROVE O!WireKept /\ O!EachOriginItsOwn
  BY DEF AnswersKept, O!AnswersKept
<1>1. \A h : ~O!Dirty(h) <=> NoneDirty(h)
  BY DirtyMeans
<1>2. \A s : O!CookiesSecured(s) <=> Secured(s.header)
  BY DEF O!CookiesSecured, O!Range, Secured
<1> QED BY <1>1, <1>2 DEF AnswerInv, Good, O!WireKept, O!RefusedWhole

\* In whatever order the writers are wrapped and whatever the handler writes
\* when, the cookies on the wire are secured, no header splits the response, a
\* refusal is whole, and no origin is told of another's permission, by the
\* server or by a cache.
THEOREM AnswersKeptAlways == O!Spec => []AnswersKept
<1>1. StandaloneOptions
  BY StandaloneOptions
<1> QED BY <1>1, AnswerStarts, AnswerStep, PromisesKept, PTL DEF O!Spec

-----------------------------------------------------------------------------
(* The names of uploads. *)

\* Places lists what the set holds.
LEMMA Placed ==
    ASSUME NEW n \in Nat, NEW J, J \subseteq 1 .. n
    PROVE  /\ Cardinality(J) \in Nat /\ DOMAIN FILE!F!Places(J) = 1 .. Cardinality(J)
           /\ FILE!F!Places(J) \in [1 .. Cardinality(J) -> J]
<1> DEFINE Below(i) == {j \in J : j <= i}
           c(i) == Cardinality(Below(i))
<1>0. IsFiniteSet(J) /\ Cardinality(J) \in Nat
  <2>1. IsFiniteSet(1 .. n)
    BY FS_Interval
  <2>2. IsFiniteSet(J)
    BY <2>1, FS_Subset
  <2> QED BY <2>2, FS_CardinalityType
<1>1. ASSUME NEW i \in 0 .. n PROVE IsFiniteSet(Below(i)) /\ c(i) \in Nat
  <2>1. Below(i) \subseteq J
    OBVIOUS
  <2>2. IsFiniteSet(Below(i))
    BY <1>0, <2>1, FS_Subset
  <2> QED BY <2>2, FS_CardinalityType
<1>a. \A j \in J : j \in Nat /\ 1 <= j /\ j <= n
  OBVIOUS
<1>2. Below(n) = J /\ Below(0) = {}
  <2>1. \A j \in J : j <= n /\ ~(j <= 0)
    BY <1>a
  <2> QED BY <2>1
<1>3. c(n) = Cardinality(J) /\ c(0) = 0
  BY <1>2, FS_EmptySet
<1>4. ASSUME NEW i \in 1 .. n PROVE /\ i \in J => c(i) = c(i - 1) + 1
                                    /\ i \notin J => c(i) = c(i - 1)
  <2>1. i - 1 \in 0 .. n
    BY <1>4
  <2>2. \A j \in J : j <= i <=> j <= i - 1 \/ j = i
    BY <1>4, <1>a
  <2>2a. ~(i <= i - 1)
    BY <1>4
  <2>3. /\ i \in J => Below(i) = Below(i - 1) \cup {i} /\ i \notin Below(i - 1)
        /\ i \notin J => Below(i) = Below(i - 1)
    BY <2>2, <2>2a
  <2> HIDE DEF Below
  <2>4. IsFiniteSet(Below(i - 1))
    BY <1>1, <2>1
  <2>5. i \notin Below(i - 1) => Cardinality(Below(i - 1) \cup {i}) = Cardinality(Below(i - 1)) + 1
    BY <2>4, FS_AddElement
  <2> QED BY <2>3, <2>5
<1> HIDE DEF c
<1>5. ASSUME NEW k \in 1 .. Cardinality(J) PROVE \E i \in J : c(i) = k
  <2> DEFINE Reached == {i \in 0 .. n : c(i) >= k}
  <2>1. n \in Reached
    BY <1>0, <1>3, <1>5
  <2>2. PICK m \in Reached : \A i \in Reached : m <= i
    <3>1. Reached \subseteq Nat
      OBVIOUS
    <3> HIDE DEF Reached
    <3> QED BY <2>1, <3>1, Least
  <2>3. m # 0
    BY <1>3, <2>2
  <2>4. m \in 1 .. n /\ m - 1 \in 0 .. n /\ m - 1 \notin Reached
    BY <2>2, <2>3
  <2>5. c(m - 1) \in Nat /\ c(m) \in Nat /\ c(m) >= k /\ ~(c(m - 1) >= k)
    BY <1>1, <2>2, <2>4
  <2>6. m \in J /\ c(m) = k
    BY <1>4, <2>4, <2>5
  <2> QED BY <2>6
<1> DEFINE list == [k \in 1 .. Cardinality(J) |-> CHOOSE i \in J : Cardinality({j \in J : j <= i}) = k]
<1>6. \A k \in 1 .. Cardinality(J) : (CHOOSE i \in J : Cardinality({j \in J : j <= i}) = k) \in J
  BY <1>5 DEF c
<1>7. list \in [1 .. Cardinality(J) -> J] /\ DOMAIN list = 1 .. Cardinality(J)
  BY <1>6
<1>8. FILE!F!Places(J) = list
  BY DEF FILE!F!Places, FILE!F!Cardinality, Cardinality
<1> HIDE DEF list
<1> QED BY <1>0, <1>7, <1>8

\* What is kept is what was at the places kept.
LEMMA KeptHas ==
    ASSUME NEW D, NEW s \in Seq(D), NEW J, J \subseteq 1 .. Len(s), NEW E, \A i \in J : s[i] \in E
    PROVE  FILE!F!Kept(s, J) \in Seq(E)
<1> DEFINE list == FILE!F!Places(J)
           n == Cardinality(J)
<1>1. n \in Nat /\ list \in [1 .. n -> J] /\ DOMAIN list = 1 .. n
  <2>1. Len(s) \in Nat
    OBVIOUS
  <2> QED BY <2>1, Placed
<1>2. FILE!F!Kept(s, J) = [k \in DOMAIN list |-> s[list[k]]]
  BY DEF FILE!F!Kept
<1> HIDE DEF list, n
<1>3. \A k \in 1 .. n : s[list[k]] \in E
  BY <1>1
<1>4. [k \in 1 .. n |-> s[list[k]]] \in [1 .. n -> E]
  BY <1>3
<1>5. FILE!F!Kept(s, J) \in [1 .. n -> E]
  BY <1>1, <1>2, <1>4
<1> QED BY <1>1, <1>5

LEMMA LeadingGone ==
    ASSUME NEW D, NEW s \in Seq(D), NEW c
    PROVE  FILE!F!WithoutLeading(c, s) \in Seq(D)
<1> DEFINE J == {i \in 1 .. Len(s) : s[i] # c}
           n == FILE!F!SelectInSeq(s, LAMBDA x : x # c)
<1>1. n = IF J # {} THEN FILE!F!Min(J) ELSE 0
  BY DEF FILE!F!SelectInSeq
<1>2. n \in 0 .. Len(s)
  <2>1. CASE J = {}
    BY <1>1, <2>1
  <2>2. CASE J # {}
    <3>1. PICK m \in J : \A k \in J : m <= k
      <4>1. J \subseteq Nat
        OBVIOUS
      <4> HIDE DEF J
      <4> QED BY <2>2, <4>1, Least
    <3>2. FILE!F!Min(J) \in J
      <4> HIDE DEF J
      <4> QED BY <3>1 DEF FILE!F!Min
    <3> QED BY <1>1, <2>2, <3>2
  <2> QED BY <2>1, <2>2
<1>3. FILE!F!WithoutLeading(c, s) = IF n = 0 THEN <<>> ELSE SubSeq(s, n, Len(s))
  BY DEF FILE!F!WithoutLeading
<1> HIDE DEF n
<1>4. n # 0 => SubSeq(s, n, Len(s)) \in Seq(D)
  <2>1. Len(s) \in Int /\ n \in Int /\ (n # 0 => \A i \in n .. Len(s) : s[i] \in D)
    BY <1>2
  <2> QED BY <2>1, SubSeqProperties
<1> QED BY <1>3, <1>4

LEMMA ReverseType ==
    ASSUME NEW D, NEW s \in Seq(D)
    PROVE  /\ FILE!F!Reverse(s) \in Seq(D) /\ Len(FILE!F!Reverse(s)) = Len(s)
           /\ \A i \in 1 .. Len(s) : FILE!F!Reverse(s)[i] = s[(Len(s) - i) + 1]
<1>1. \A i \in 1 .. Len(s) : (Len(s) - i) + 1 \in 1 .. Len(s)
  OBVIOUS
<1>2. \A i \in 1 .. Len(s) : s[(Len(s) - i) + 1] \in D
  BY <1>1
<1>3. FILE!F!Reverse(s) \in [1 .. Len(s) -> D]
  BY <1>2 DEF FILE!F!Reverse
<1> QED BY <1>3 DEF FILE!F!Reverse

\* What SanitizeFilename makes of a name has none of the unsafe characters.
LEMMA Sanitized ==
    ASSUME NEW D, NEW s \in Seq(D)
    PROVE  /\ FILE!F!SanitizeFilename(s) # <<>>
           /\ FILE!F!SanitizeFilename(s) \in Seq((D \cup {"_", "unnamed"}) \ {"/", "newline", "<", " "})
<1> DEFINE E == D \ {"/", "newline", "<"}
           G1 == (E \ {" "}) \cup {"_"}
           path == FILE!F!WithoutPath(s)
           safe == FILE!F!Cleaned(path)
           under == FILE!F!Underscored(safe)
           undotted == FILE!F!WithoutLeading(".", under)
           once == FILE!F!Collapsed("_", undotted)
           single == FILE!F!Collapsed(".", once)
           before == FILE!F!TrimmedBeforeDots(single)
           trimmed == FILE!F!WithoutEdges(before)
<1>1. path \in Seq(D)
  <2> DEFINE Is1 == FILE!F!Separators(s)
             i == CHOOSE i \in Is1 : \A j \in Is1 : j <= i
  <2>1. Is1 \subseteq 1 .. Len(s)
    BY DEF FILE!F!Separators
  <2>2. CASE Is1 = {}
    BY <2>2 DEF FILE!F!WithoutPath
  <2>3. CASE Is1 # {}
    <3>1. \E m \in Is1 : \A j \in Is1 : j <= m
      <4> DEFINE Back == {k \in 0 .. Len(s) : Len(s) - k \in Is1}
      <4>0. PICK e \in Is1 : TRUE
        BY <2>3
      <4>1. Len(s) - e \in Back /\ Back \subseteq Nat
        BY <2>1
      <4>2. PICK k \in Back : \A j \in Back : k <= j
        <5> HIDE DEF Back
        <5> QED BY <4>1, Least
      <4>3. ASSUME NEW j \in Is1 PROVE j <= Len(s) - k
        <5>1. j \in 1 .. Len(s) /\ Len(s) - j \in 0 .. Len(s) /\ Len(s) - (Len(s) - j) = j
          BY <2>1
        <5>2. Len(s) - j \in Back
          BY <5>1
        <5>3. k <= Len(s) - j
          BY <4>2, <5>2
        <5>4. k \in 0 .. Len(s) /\ Len(s) \in Nat
          BY <4>2
        <5> QED BY <5>1, <5>3, <5>4
      <4> QED BY <4>2, <4>3
    <3>2. i \in Is1
      BY <3>1
    <3>3. path = SubSeq(s, i + 1, Len(s))
      BY <2>3 DEF FILE!F!WithoutPath
    <3> HIDE DEF i
    <3>4. i + 1 \in Int /\ Len(s) \in Int /\ \A j \in i + 1 .. Len(s) : s[j] \in D
      BY <2>1, <3>2
    <3>5. SubSeq(s, i + 1, Len(s)) \in Seq(D)
      BY <3>4, SubSeqProperties
    <3> QED BY <3>3, <3>5
  <2> QED BY <2>2, <2>3
<1> HIDE DEF path
<1>2. safe \in Seq(E)
  <2> DEFINE J == {i \in 1 .. Len(path) : path[i] \notin {"/", "newline", "<"}}
  <2>1. \A i \in J : path[i] \in E
    BY <1>1
  <2>2. safe = FILE!F!Kept(path, J)
    <3>1. DOMAIN path = 1 .. Len(path)
      BY <1>1
    <3> QED BY <3>1 DEF FILE!F!Cleaned
  <2>3. J \subseteq 1 .. Len(path)
    OBVIOUS
  <2> HIDE DEF J, E
  <2> QED BY <1>1, <2>1, <2>2, <2>3, KeptHas
<1> HIDE DEF safe
<1>3. under \in Seq(G1)
  <2>1. Len(safe) \in Nat /\ DOMAIN safe = 1 .. Len(safe)
    BY <1>2
  <2>2. \A i \in 1 .. Len(safe) : (IF safe[i] = " " THEN "_" ELSE safe[i]) \in G1
    <3>1. \A i \in 1 .. Len(safe) : safe[i] \in E
      BY <1>2
    <3> QED BY <3>1
  <2>3. under = [i \in 1 .. Len(safe) |-> IF safe[i] = " " THEN "_" ELSE safe[i]]
    BY <2>1 DEF FILE!F!Underscored
  <2> HIDE DEF under, G1
  <2>4. under \in [1 .. Len(safe) -> G1]
    BY <2>2, <2>3
  <2> QED BY <2>1, <2>4
<1> HIDE DEF under, G1
<1>4. undotted \in Seq(G1)
  BY <1>3, LeadingGone
<1> HIDE DEF undotted
<1>5. ASSUME NEW c, NEW x \in Seq(G1) PROVE FILE!F!Collapsed(c, x) \in Seq(G1)
  <2> DEFINE J == {i \in 1 .. Len(x) : x[i] # c \/ i = 1 \/ x[i - 1] # c}
  <2>1. FILE!F!Collapsed(c, x) = FILE!F!Kept(x, J)
    <3>1. DOMAIN x = 1 .. Len(x)
      OBVIOUS
    <3> QED BY <3>1 DEF FILE!F!Collapsed
  <2>2. J \subseteq 1 .. Len(x) /\ \A i \in J : x[i] \in G1
    OBVIOUS
  <2> HIDE DEF J
  <2> QED BY <2>1, <2>2, KeptHas
<1>6. once \in Seq(G1) /\ single \in Seq(G1)
  BY <1>4, <1>5
<1> HIDE DEF once, single
<1>7. before \in Seq(G1)
  <2> DEFINE J == {i \in 1 .. Len(single) : single[i] # "_" \/ i = Len(single) \/ single[i + 1] # "."}
  <2>1. before = FILE!F!Kept(single, J)
    <3>1. DOMAIN single = 1 .. Len(single)
      BY <1>6
    <3> QED BY <3>1 DEF FILE!F!TrimmedBeforeDots
  <2>2. J \subseteq 1 .. Len(single) /\ \A i \in J : single[i] \in G1
    <3>1. \A i \in 1 .. Len(single) : single[i] \in G1
      BY <1>6
    <3> QED BY <3>1
  <2> HIDE DEF J
  <2> QED BY <1>6, <2>1, <2>2, KeptHas
<1> HIDE DEF before
<1>8. trimmed \in Seq(G1)
  <2>1. FILE!F!WithoutLeading("_", before) \in Seq(G1)
    BY <1>7, LeadingGone
  <2>2. FILE!F!Reverse(FILE!F!WithoutLeading("_", before)) \in Seq(G1)
    BY <2>1, ReverseType
  <2>3. FILE!F!WithoutLeading("_", FILE!F!Reverse(FILE!F!WithoutLeading("_", before))) \in Seq(G1)
    BY <2>2, LeadingGone
  <2>4. FILE!F!Reverse(FILE!F!WithoutLeading("_", FILE!F!Reverse(FILE!F!WithoutLeading("_", before)))) \in Seq(G1)
    BY <2>3, ReverseType
  <2> QED BY <2>4 DEF FILE!F!WithoutEdges
<1>9. FILE!F!SanitizeFilename(s) = IF trimmed \in {<<>>, <<".">>} THEN <<"unnamed">> ELSE trimmed
  BY DEF FILE!F!SanitizeFilename, path, safe, under, undotted, once, single, before
<1> HIDE DEF trimmed
<1> DEFINE Safe == (D \cup {"_", "unnamed"}) \ {"/", "newline", "<", " "}
<1>10. "unnamed" \in Safe /\ G1 \subseteq Safe
  BY DEF G1
<1>11. trimmed \in Seq(Safe)
  <2> HIDE DEF Safe
  <2> QED BY <1>8, <1>10, SeqMonotonic
<1> HIDE DEF Safe
<1>12. <<"unnamed">> \in Seq(Safe) /\ <<"unnamed">> # <<>>
  BY <1>10
<1>13. FILE!F!SanitizeFilename(s) # <<>> /\ FILE!F!SanitizeFilename(s) \in Seq(Safe)
  BY <1>9, <1>11, <1>12
<1> QED BY <1>13 DEF Safe

\* The parts after the first are what is between a dot and the next, or the end.
LEMMA Divided ==
    ASSUME NEW D, NEW s \in Seq(D)
    PROVE  LET ps == FILE!F!Parts(s) IN
           /\ Len(ps) \in Nat /\ Len(ps) > 0
           /\ Len(ps) > 1 => \E i \in 1 .. Len(s) : s[i] = "." /\ FILE!F!Last(ps) = SubSeq(s, i + 1, Len(s))
<1> DEFINE J == {i \in 1 .. Len(s) : s[i] = "."}
           list == FILE!F!Places(J)
           n == Cardinality(J)
           e == Len(s) + 1
           cuts == <<0>> \o list \o <<e>>
           ps == FILE!F!Parts(s)
<1>1. n \in Nat /\ list \in [1 .. n -> J] /\ DOMAIN list = 1 .. n
  <2>1. Len(s) \in Nat /\ J \subseteq 1 .. Len(s)
    OBVIOUS
  <2> HIDE DEF J
  <2> QED BY <2>1, Placed
<1>2. J \subseteq Nat /\ e \in Nat
  OBVIOUS
<1>3. ps = [k \in 1 .. Len(cuts) - 1 |-> SubSeq(s, cuts[k] + 1, cuts[k + 1] - 1)]
  <2>1. DOMAIN s = 1 .. Len(s)
    OBVIOUS
  <2> QED BY <2>1 DEF FILE!F!Parts
<1>a. \A i \in J : i \in 1 .. Len(s) /\ s[i] = "."
  OBVIOUS
<1> HIDE DEF list, n, J
<1>4. list \in Seq(Nat) /\ Len(list) = n
  <2>1. list \in [1 .. n -> Nat]
    BY <1>1, <1>2
  <2> QED BY <1>1, <2>1
<1> HIDE DEF e
<1>5. /\ Len(cuts) = n + 2 /\ cuts[n + 2] = e
      /\ n > 0 => cuts[n + 1] = list[n]
  BY <1>1, <1>2, <1>4
<1> HIDE DEF cuts, ps
<1>6. Len(ps) = n + 1 /\ ps[n + 1] = SubSeq(s, cuts[n + 1] + 1, cuts[n + 2] - 1)
  <2>1. n + 1 \in 1 .. n + 1 /\ n + 1 \in Nat /\ Len(cuts) - 1 = n + 1 /\ n + 1 + 1 = n + 2
    BY <1>1, <1>5
  <2>2. ps = [k \in 1 .. n + 1 |-> SubSeq(s, cuts[k] + 1, cuts[k + 1] - 1)]
    BY <1>3, <2>1, Zenon
  <2> DEFINE q == n + 1
  <2>3. q \in 1 .. q /\ q \in Nat /\ q + 1 = n + 2
    BY <2>1
  <2> DEFINE Cut(k) == SubSeq(s, cuts[k] + 1, cuts[k + 1] - 1)
  <2>4. ps = [k \in 1 .. q |-> Cut(k)]
    BY <2>2
  <2> HIDE DEF q, Cut
  <2>a. Len(ps) = q /\ ps[q] = Cut(q)
    BY <2>3, <2>4
  <2>5. Len(ps) = q /\ ps[q] = SubSeq(s, cuts[q] + 1, cuts[q + 1] - 1)
    BY <2>a DEF Cut
  <2> QED BY <2>3, <2>5, Zenon DEF q
<1>7. ASSUME n > 0 PROVE s[list[n]] = "." /\ list[n] \in 1 .. Len(s)
                         /\ FILE!F!Last(ps) = SubSeq(s, list[n] + 1, Len(s))
  <2>1. n \in 1 .. n
    BY <1>1, <1>7
  <2>2. list[n] \in J
    BY <1>1, <2>1
  <2>3. e - 1 = Len(s)
    BY DEF e
  <2>4. FILE!F!Last(ps) = ps[n + 1]
    BY <1>6 DEF FILE!F!Last
  <2> QED BY <1>5, <1>6, <1>7, <1>a, <2>2, <2>3, <2>4
<1>8. Len(ps) > 1 => n > 0
  BY <1>1, <1>6
<1>9. Len(ps) \in Nat /\ Len(ps) > 0
  BY <1>1, <1>6
<1> QED BY <1>7, <1>8, <1>9 DEF ps

\* A name ends in its extension.
LEMMA ExtensionEnds ==
    ASSUME NEW D, NEW s \in Seq(D), FILE!F!getFileExtension(s) # FILE!F!NoExtension
    PROVE  /\ FILE!F!IsSuffix(FILE!F!getFileExtension(s), s)
           /\ Tail(FILE!F!getFileExtension(s)) = FILE!F!Last(FILE!F!Parts(s))
           /\ Len(FILE!F!Parts(s)) \in Nat
<1> DEFINE ps == FILE!F!Parts(s)
           u == FILE!F!Last(ps)
           ext == <<".">> \o u
           n == Len(s)
           all == D \cup {"."}
<1>1. /\ Len(ps) \in Nat /\ Len(ps) > 0
      /\ Len(ps) > 1 => \E i \in 1 .. n : s[i] = "." /\ u = SubSeq(s, i + 1, n)
  BY Divided
<1>2. Len(ps) # 1 /\ FILE!F!getFileExtension(s) = ext
  BY DEF FILE!F!getFileExtension
<1>b. FILE!F!Last(ps) = u
  OBVIOUS
<1> HIDE DEF ps, u
<1> DEFINE l == Len(ps)
<1>3a. l > 1
  <2>1. l \in Nat /\ l > 0
    BY <1>1
  <2>2. l # 1
    BY <1>2
  <2> HIDE DEF l
  <2> QED BY <2>1, <2>2
<1>3. PICK i \in 1 .. n : s[i] = "." /\ u = SubSeq(s, i + 1, n)
  BY <1>1, <1>3a
<1>4. n \in Nat /\ s \in Seq(all) /\ \A k \in 1 .. n : s[k] \in all
  OBVIOUS
<1> HIDE DEF n
<1>5. u \in Seq(all) /\ Len(u) = n - i /\ \A k \in 1 .. n - i : u[k] = s[i + k]
  <2>1. i + 1 \in Int /\ n \in Int /\ \A k \in i + 1 .. n : s[k] \in all
    BY <1>3, <1>4
  <2>2. /\ SubSeq(s, i + 1, n) \in Seq(all)
        /\ Len(SubSeq(s, i + 1, n)) = IF i + 1 <= n THEN n - (i + 1) + 1 ELSE 0
        /\ \A k \in 1 .. n - (i + 1) + 1 : SubSeq(s, i + 1, n)[k] = s[i + 1 + k - 1]
    BY <2>1, SubSeqProperties
  <2> QED BY <1>3, <1>4, <2>2
<1>6. /\ ext \in Seq(all) /\ Len(ext) = n - i + 1 /\ Tail(ext) = u
      /\ \A k \in 1 .. n - i + 1 : ext[k] = s[i + k - 1]
  <2>1. <<".">> \in Seq(all) /\ Len(<<".">>) = 1 /\ \A z : <<z>>[1] = z
    OBVIOUS
  <2>2. /\ ext \in Seq(all) /\ Len(ext) = 1 + Len(u)
        /\ \A k \in 1 .. 1 + Len(u) : ext[k] = IF k <= 1 THEN <<".">>[k] ELSE u[k - 1]
    BY <1>5, <2>1, ConcatProperties
  <2>3. ASSUME NEW k \in 1 .. n - i + 1 PROVE ext[k] = s[i + k - 1]
    <3>1. CASE k = 1
      <4>1. ext[1] = "." /\ i + 1 - 1 = i
        BY <1>3, <1>4, <1>5, <2>1, <2>2
      <4> QED BY <1>3, <3>1, <4>1
    <3>2. CASE k # 1
      <4>1. k - 1 \in 1 .. n - i /\ i + (k - 1) = i + k - 1
        BY <1>3, <1>4, <2>3, <3>2
      <4>2. ext[k] = u[k - 1]
        BY <1>3, <1>4, <1>5, <2>2, <2>3, <3>2
      <4> QED BY <1>5, <4>1, <4>2
    <3> QED BY <3>1, <3>2
  <2>4. Tail(ext) = u
    <3>1. ext # <<>>
      BY <1>5, <2>2
    <3>2. /\ Tail(ext) \in Seq(all) /\ Len(Tail(ext)) = Len(ext) - 1
          /\ \A k \in 1 .. Len(Tail(ext)) : Tail(ext)[k] = ext[k + 1]
      <4> HIDE DEF ext
      <4> QED BY <2>2, <3>1, HeadTailProperties
    <3>3. Len(Tail(ext)) = Len(u) /\ Len(u) \in Nat
      BY <1>5, <2>2, <3>2
    <3>4. ASSUME NEW k \in 1 .. Len(u) PROVE Tail(ext)[k] = u[k]
      <4>1. k + 1 \in 1 .. 1 + Len(u) /\ ~(k + 1 <= 1) /\ k + 1 - 1 = k
        BY <3>3, <3>4
      <4>2. ext[k + 1] = u[k + 1 - 1]
        BY <2>2, <4>1
      <4> QED BY <3>2, <3>3, <4>1, <4>2
    <3> DEFINE v == Tail(ext)
    <3>5. v \in Seq(all) /\ Len(v) = Len(u) /\ \A k \in 1 .. Len(v) : v[k] = u[k]
      BY <3>2, <3>3, <3>4
    <3> HIDE DEF v
    <3>6. v = u
      BY <1>5, <3>5, SeqEqual
    <3> QED BY <3>6 DEF v
  <2> HIDE DEF ext
  <2>5. Len(ext) = n - i + 1
    BY <1>3, <1>4, <1>5, <2>2
  <2> QED BY <2>2, <2>3, <2>4, <2>5
<1> HIDE DEF ext
<1>7. FILE!F!IsSuffix(ext, s)
  <2> DEFINE a == FILE!F!Reverse(ext)
             b == FILE!F!Reverse(s)
             m == n - i + 1
  <2>0. m \in 0 .. n /\ n \in Nat /\ i \in Nat
    BY <1>3, <1>4
  <2>a. /\ a \in Seq(all) /\ Len(a) = Len(ext)
        /\ \A k \in 1 .. Len(ext) : a[k] = ext[(Len(ext) - k) + 1]
    BY <1>6, ReverseType
  <2>b. Len(ext) = m
    BY <1>6
  <2> HIDE DEF a, m
  <2>1. /\ a \in Seq(all) /\ Len(a) = m /\ \A k \in 1 .. m : a[k] = ext[(m - k) + 1]
    BY <2>a, <2>b
  <2> USE DEF m
  <2>2. /\ b \in Seq(all) /\ Len(b) = n /\ \A k \in 1 .. n : b[k] = s[(n - k) + 1]
    BY <1>4, ReverseType DEF n
  <2> HIDE DEF a, b
  <2>3. ASSUME NEW k \in 1 .. m PROVE a[k] = b[k]
    <3>1. (m - k) + 1 \in 1 .. n - i + 1 /\ k \in 1 .. n /\ i + ((m - k) + 1) - 1 = (n - k) + 1
      BY <2>0, <2>3
    <3>2. ext[(m - k) + 1] = s[i + ((m - k) + 1) - 1]
      BY <1>6, <3>1
    <3> QED BY <2>1, <2>2, <3>1, <3>2
  <2> HIDE DEF m
  <2>4. SubSeq(a, 1, m) = SubSeq(b, 1, m)
    <3> DEFINE x == SubSeq(a, 1, m)
               y == SubSeq(b, 1, m)
    <3>1. m \in Int /\ 1 \in Int /\ \A k \in 1 .. m : a[k] \in all /\ b[k] \in all
      BY <2>0, <2>1, <2>2, ElementOfSeq
    <3>2. /\ x \in Seq(all) /\ Len(x) = (IF 1 <= m THEN m - 1 + 1 ELSE 0)
          /\ \A k \in 1 .. m - 1 + 1 : x[k] = a[1 + k - 1]
      BY <3>1, SubSeqProperties
    <3>3. /\ y \in Seq(all) /\ Len(y) = (IF 1 <= m THEN m - 1 + 1 ELSE 0)
          /\ \A k \in 1 .. m - 1 + 1 : y[k] = b[1 + k - 1]
      BY <3>1, SubSeqProperties
    <3> HIDE DEF x, y
    <3>4. \A k \in 1 .. Len(x) : x[k] = y[k]
      <4> SUFFICES ASSUME NEW k \in 1 .. Len(x) PROVE x[k] = y[k]
        OBVIOUS
      <4>1. k \in 1 .. m - 1 + 1 /\ k \in 1 .. m /\ 1 + k - 1 = k
        BY <2>0, <3>2
      <4> QED BY <2>3, <3>2, <3>3, <4>1
    <3>5. x = y
      BY <3>2, <3>3, <3>4, SeqEqual
    <3> QED BY <3>5 DEF x, y
  <2>5. Len(a) <= Len(b)
    BY <2>0, <2>1, <2>2
  <2> QED BY <2>1, <2>4, <2>5 DEF FILE!F!IsSuffix, FILE!F!IsPrefix, a, b
<1> QED BY <1>1, <1>2, <1>6, <1>7 DEF ps, u

\* What is stored is what SanitizeFilename and ValidateFile make of an upload.
FileAnswered ==
    /\ file \in FILE!Uploads
    /\ result # FILE!F!Pending =>
          result = [valid |-> FILE!F!Errors(file, options) = {}, errors |-> FILE!F!Errors(file, options),
                    name |-> FILE!F!SanitizeFilename(file.name)]

\* A stored name is never empty and holds no separator, control or blank; and
\* when it is valid under the default switches it ends in an extension that is
\* allowed, and none of its extensions is dangerous: for names of any length,
\* however the unsafe characters, dots and underscores are nested.
THEOREM StoredNamesSafe == FILE!Spec => []StoredSafely
<1>1. FILE!F!Init => FileAnswered
  BY DEF FILE!F!Init, FileAnswered
<1>2. FileAnswered /\ [FILE!F!Next]_(FILE!F!vars) => FileAnswered'
  <2> SUFFICES ASSUME FileAnswered, [FILE!F!Next]_(FILE!F!vars) PROVE FileAnswered'
    OBVIOUS
  <2>1. CASE FILE!F!ValidateFile
    BY <2>1 DEF FILE!F!ValidateFile, FileAnswered
  <2>2. CASE UNCHANGED FILE!F!vars
    BY <2>2 DEF FILE!F!vars, FileAnswered
  <2> QED BY <2>1, <2>2 DEF FILE!F!Next
<1>3. FileAnswered => StoredSafely
  <2> SUFFICES ASSUME FileAnswered, result # FILE!F!Pending
               PROVE  /\ result.name # <<>> /\ \A i \in DOMAIN result.name : result.name[i] \notin {"/", "newline", "<"} \cup {" "}
                      /\ result.valid /\ options.BlockNoExtension /\ options.BlockExecutables /\ options.BlockDoubleExtensions =>
                            /\ \A i \in 2 .. Len(FILE!F!Parts(result.name)) : ~FILE!F!Dangerous(FILE!F!Parts(result.name)[i])
                            /\ options.AllowedExtensions # {} =>
                                  \E ext \in options.AllowedExtensions : FILE!F!IsSuffix(ext, result.name)
    BY DEF StoredSafely, FILE!StoredSafely, FILE!F!StoredSafely, FILE!F!Stored
  <2> DEFINE D == Character \cup {"a", ".", "jpg"}
             E == (D \cup {"_", "unnamed"}) \ {"/", "newline", "<", " "}
             name == FILE!F!SanitizeFilename(file.name)
  <2>0. result = [valid |-> FILE!F!Errors(file, options) = {}, errors |-> FILE!F!Errors(file, options), name |-> name]
    BY DEF FileAnswered
  <2>1. file.name \in Seq(D)
    <3>1. CASE file \in { FILE!Upload(x, 1, "image/jpeg", "none") : x \in FILE!BoundedSeq(Character, MaxLength) }
      <4>1. PICK x \in FILE!BoundedSeq(Character, MaxLength) : file = FILE!Upload(x, 1, "image/jpeg", "none")
        BY <3>1
      <4>2. file.name = x
        BY <4>1 DEF FILE!Upload
      <4>3. PICK m \in 0 .. MaxLength : x \in [1 .. m -> Character]
        BY <4>1 DEF FILE!BoundedSeq, FILE!SeqOf
      <4>4. x \in Seq(D)
        BY <4>3
      <4> QED BY <4>2, <4>4
    <3>2. CASE file \in { FILE!Upload(<<"a", ".", "jpg">>, size, type, content) :
             size \in 0 .. 3, type \in {"image/jpeg", "image/png"}, content \in {"none", "jpeg", "png"} }
      <4>1. PICK size \in 0 .. 3, type \in {"image/jpeg", "image/png"}, content \in {"none", "jpeg", "png"} :
                file = FILE!Upload(<<"a", ".", "jpg">>, size, type, content)
        BY <3>2
      <4>2. file.name = <<"a", ".", "jpg">>
        BY <4>1 DEF FILE!Upload
      <4> QED BY <4>2
    <3> QED BY <3>1, <3>2 DEF FileAnswered, FILE!Uploads
  <2> HIDE DEF D
  <2>2. name # <<>> /\ name \in Seq(E)
    BY <2>1, Sanitized
  <2>3. /\ result.name = name /\ (result.valid => FILE!F!Errors(file, options) = {})
    <3> DEFINE b == FILE!F!Errors(file, options)
    <3>1. result = [valid |-> b = {}, errors |-> b, name |-> name]
      BY <2>0
    <3> HIDE DEF b, name
    <3>2. result.name = name /\ result.valid = (b = {})
      BY <3>1
    <3> QED BY <3>2 DEF b
  <2> HIDE DEF name
  <2>4. \A i \in DOMAIN name : name[i] \notin {"/", "newline", "<"} \cup {" "}
    <3>1. \A i \in DOMAIN name : name[i] \in E
      <4> HIDE DEF E
      <4>1. DOMAIN name = 1 .. Len(name)
        BY <2>2
      <4> QED BY <2>2, <4>1, ElementOfSeq
    <3> QED BY <3>1
  <2>5. ASSUME FILE!F!Errors(file, options) = {}, options.BlockNoExtension, options.BlockExecutables, options.BlockDoubleExtensions
        PROVE  /\ \A i \in 2 .. Len(FILE!F!Parts(name)) : ~FILE!F!Dangerous(FILE!F!Parts(name)[i])
               /\ options.AllowedExtensions # {} =>
                      \E ext \in options.AllowedExtensions : FILE!F!IsSuffix(ext, name)
    <3> DEFINE ext == FILE!F!getFileExtension(name)
               ps == FILE!F!Parts(name)
    <3>1. /\ ext # FILE!F!NoExtension /\ ~FILE!F!Dangerous(Tail(ext))
          /\ ~FILE!F!hasDoubleExtension(name)
          /\ options.AllowedExtensions # {} => ext \in options.AllowedExtensions
      BY <2>5 DEF FILE!F!Errors, name
    <3>2. FILE!F!IsSuffix(ext, name) /\ Tail(ext) = FILE!F!Last(ps) /\ Len(ps) \in Nat
      <4> HIDE DEF E
      <4> QED BY <2>2, <3>1, ExtensionEnds
    <3> HIDE DEF ext
    <3>3. \A i \in 2 .. Len(ps) : ~FILE!F!Dangerous(ps[i])
      <4>1. ~FILE!F!Dangerous(ps[Len(ps)])
        BY <3>1, <3>2 DEF FILE!F!Last
      <4>2. \A i \in 2 .. Len(ps) - 1 : ~FILE!F!Dangerous(ps[i])
        BY <3>1 DEF FILE!F!hasDoubleExtension
      <4>3. \A i \in 2 .. Len(ps) : i = Len(ps) \/ i \in 2 .. Len(ps) - 1
        BY <3>2
      <4> QED BY <4>1, <4>2, <4>3
    <3> QED BY <3>1, <3>2, <3>3
  <2> QED BY <2>2, <2>3, <2>4, <2>5
<1> QED BY <1>1, <1>2, <1>3, PTL DEF FILE!Spec, FILE!F!Spec

-----------------------------------------------------------------------------
(* The protections side by side. *)

\* Every variable of the composition.
standaloneVars == <<part, vars, firstVars, otherVars>>

LEMMA StandaloneStarts ==
    StandaloneInit => /\ Init /\ S!Init /\ B!Init /\ G!Init /\ Q!Init /\ C!Init /\ O!Init /\ I!Init
                      /\ Is("ClientIp") => IPS!Init
                      /\ Is("Protections") => P!Init
                      /\ Is("Pii") => PII!P!Init
                      /\ Is("Files") => FILE!F!Init
BY DEF StandaloneInit

LEMMA StandaloneStep ==
    ASSUME [StandaloneNext]_standaloneVars
    PROVE  /\ [Q!Next]_(Q!vars) /\ [C!Next]_(C!vars) /\ [O!Next]_(O!vars) /\ [I!Next]_(I!vars)
           /\ Is("RateLimiter") => [Next]_vars
           /\ Is("SlidingWindow") => [S!Next]_(S!vars)
           /\ Is("TokenBucket") => [B!Next]_(B!vars)
           /\ Is("Guards") => [G!Next]_(G!vars)
           /\ Is("ClientIp") => [IPS!Next]_(IPS!vars)
           /\ Is("Protections") => [P!Next]_(P!vars)
           /\ Is("Pii") => [PII!P!Next]_(PII!P!vars)
           /\ Is("Files") => [FILE!F!Next]_(FILE!F!vars)
           /\ part' = part
<1>1. CASE UNCHANGED standaloneVars
  BY <1>1 DEF standaloneVars, vars, firstVars, otherVars, slidingVars, bucketVars, guardVars, graphqlVars, csrfVars,
     outgoingVars, incomingVars, piiVars, ipVars, fileVars, protectionVars,
     Q!vars, C!vars, O!vars, I!vars, S!vars, B!vars, G!vars, IPS!vars, P!vars, P!limiterVars, PII!P!vars,
     FILE!F!vars
<1>2. CASE StandaloneNext
  <2>1. part' = part
    BY <1>2 DEF StandaloneNext
  <2>2. Q!Next \/ UNCHANGED graphqlVars
    BY <1>2 DEF StandaloneNext, firstVars
  <2>3. C!Next \/ UNCHANGED csrfVars
    BY <1>2 DEF StandaloneNext, firstVars
  <2>4. O!Next \/ UNCHANGED outgoingVars
    BY <1>2 DEF StandaloneNext, firstVars
  <2>5. I!Next \/ UNCHANGED incomingVars
    BY <1>2 DEF StandaloneNext, firstVars
  <2>6. /\ Is("RateLimiter") => Next
        /\ Is("SlidingWindow") => S!Next
        /\ Is("TokenBucket") => B!Next
        /\ Is("Guards") => G!Next
        /\ Is("ClientIp") => IPS!Next
        /\ Is("Protections") => P!Next
        /\ Is("Pii") => PII!P!Next
        /\ Is("Files") => FILE!F!Next
    BY <1>2 DEF StandaloneNext, Is
  <2> QED BY <2>1, <2>2, <2>3, <2>4, <2>5, <2>6 DEF graphqlVars, csrfVars, outgoingVars, incomingVars,
          Q!vars, C!vars, O!vars, I!vars
<1> QED BY <1>1, <1>2

\* The parts that share no clock behave as they are specified, and of the others
\* the one that the behaviour exercises: what is proved of a part is true of the
\* protections an application mounts together.
THEOREM EachPartAlone ==
    StandaloneSpec => /\ Q!Spec /\ C!Spec /\ O!Spec /\ I!Spec
                      /\ Is("RateLimiter") => Spec
                      /\ Is("SlidingWindow") => S!Spec
                      /\ Is("TokenBucket") => B!Spec
                      /\ Is("Guards") => G!Spec
                      /\ Is("ClientIp") => IPS!Spec
                      /\ Is("Protections") => P!Spec
                      /\ Is("Pii") => PII!P!Spec
                      /\ Is("Files") => FILE!Spec
<1>1. part' = part => /\ Is("RateLimiter") => Is("RateLimiter")'
                      /\ Is("SlidingWindow") => Is("SlidingWindow")'
                      /\ Is("TokenBucket") => Is("TokenBucket")'
                      /\ Is("Guards") => Is("Guards")'
                      /\ Is("ClientIp") => Is("ClientIp")'
                      /\ Is("Protections") => Is("Protections")'
                      /\ Is("Pii") => Is("Pii")'
                      /\ Is("Files") => Is("Files")'
  BY DEF Is
<1>2. StandaloneSpec => /\ StandaloneInit
                        /\ [][StandaloneNext]_standaloneVars
  BY DEF StandaloneSpec, standaloneVars
<1>3. StandaloneSpec => /\ Q!Spec /\ C!Spec /\ O!Spec /\ I!Spec
  BY <1>2, StandaloneStarts, StandaloneStep, PTL DEF Q!Spec, C!Spec, O!Spec, I!Spec
<1>4. StandaloneSpec /\ Is("RateLimiter") => Spec
  BY <1>1, <1>2, StandaloneStarts, StandaloneStep, PTL DEF Spec
<1>5. StandaloneSpec /\ Is("SlidingWindow") => S!Spec
  BY <1>1, <1>2, StandaloneStarts, StandaloneStep, PTL DEF S!Spec
<1>6. StandaloneSpec /\ Is("TokenBucket") => B!Spec
  BY <1>1, <1>2, StandaloneStarts, StandaloneStep, PTL DEF B!Spec
<1>7. StandaloneSpec /\ Is("Guards") => G!Spec
  BY <1>1, <1>2, StandaloneStarts, StandaloneStep, PTL DEF G!Spec
<1>8. StandaloneSpec /\ Is("ClientIp") => IPS!Spec
  BY <1>1, <1>2, StandaloneStarts, StandaloneStep, PTL DEF IPS!Spec
<1>9. StandaloneSpec /\ Is("Protections") => P!Spec
  BY <1>1, <1>2, StandaloneStarts, StandaloneStep, PTL DEF P!Spec
<1>10. StandaloneSpec /\ Is("Pii") => PII!P!Spec
  BY <1>1, <1>2, StandaloneStarts, StandaloneStep, PTL DEF PII!P!Spec
<1>11. StandaloneSpec /\ Is("Files") => FILE!Spec
  BY <1>1, <1>2, StandaloneStarts, StandaloneStep, PTL DEF FILE!Spec, FILE!F!Spec
<1> QED BY <1>3, <1>4, <1>5, <1>6, <1>7, <1>8, <1>9, <1>10, <1>11

\* What every application learns of its requests and sends in its answers: the
\* client is the peer its proxies saw, the handler reads what was judged, and
\* the answers keep what the wrappers promise.
THEOREM RequestsKept == StandaloneSpec => [](ClientIsPeer /\ InputJudged /\ AnswersKept)
<1>1. StandaloneSpec => []InputJudged /\ []AnswersKept
  BY EachPartAlone, HandlerReadsJudged, AnswersKeptAlways, PTL
<1>2. StandaloneSpec /\ Is("ClientIp") => []IPS!ClientIsPeer
  BY EachPartAlone, ClientKnown, PTL
<1>3. IPS!ClientIsPeer => ClientIsPeer
  BY DEF ClientIsPeer
<1>4. ~Is("ClientIp") => ClientIsPeer
  BY DEF ClientIsPeer
<1>5. ~Is("ClientIp") /\ [StandaloneNext]_standaloneVars => ~Is("ClientIp")'
  BY StandaloneStep DEF Is
<1>6. StandaloneSpec => [][StandaloneNext]_standaloneVars
  BY DEF StandaloneSpec, standaloneVars
<1> QED BY <1>1, <1>2, <1>3, <1>4, <1>5, <1>6, PTL

\* The whole composition keeps what is proved of its parts, in deployments
\* without the defects of the csrf_refused and pii_overlap runs: what is said of
\* the requests, texts and files holds throughout, what is said of the limiters
\* of the one the behaviour exercises.
THEOREM StandaloneKeepsAll ==
    ASSUME Sound, Overlapping = FALSE
    PROVE  StandaloneSpec =>
              /\ [](/\ ClientIsPeer /\ InputJudged /\ AnswersKept
                    /\ VerdictExact /\ OnlyVerifiedHandled /\ SettledPageAccepted /\ Redacted
                    /\ StoredSafely)
              /\ Is("RateLimiter") => IsQuota
              /\ Is("SlidingWindow") => []WeightedQuota
              /\ Is("TokenBucket") => []BurstBounded /\ RetryHonoured
              /\ Is("Guards") => RefusedStaysOut /\ []DenialsAreFree
              /\ Is("Protections") => OnlyScreenedCharged
<1>1. StandaloneSpec => [](ClientIsPeer /\ InputJudged /\ AnswersKept)
  BY RequestsKept
<1>2. StandaloneSpec => []VerdictExact
  <2>1. Q!VerdictExact => VerdictExact
    BY DEF VerdictExact
  <2> QED BY <2>1, EachPartAlone, VerdictsExact, PTL
<1>3. StandaloneSpec => []OnlyVerifiedHandled /\ []SettledPageAccepted
  BY EachPartAlone, VerifiedOnly, SettledAccepted, PTL
<1>4. StandaloneSpec => []Redacted
  <2>1. StandaloneSpec /\ Is("Pii") => []Redacted
    BY EachPartAlone, EveryMatchLabelled, PTL
  <2>2. ~Is("Pii") => Redacted
    BY DEF Redacted
  <2>3. ~Is("Pii") /\ [StandaloneNext]_standaloneVars => ~Is("Pii")'
    BY StandaloneStep DEF Is
  <2>4. StandaloneSpec => [][StandaloneNext]_standaloneVars
    BY DEF StandaloneSpec, standaloneVars
  <2> QED BY <2>1, <2>2, <2>3, <2>4, PTL
<1>5. StandaloneSpec /\ Is("RateLimiter") => IsQuota
  BY EachPartAlone, ImplementsQuota, PTL
<1>6. StandaloneSpec /\ Is("SlidingWindow") => []WeightedQuota
  BY EachPartAlone, WeightedQuotaHeld, PTL
<1>7. StandaloneSpec /\ Is("TokenBucket") => []BurstBounded /\ RetryHonoured
  BY EachPartAlone, BurstsBounded, RetriesHonoured, PTL
<1>8. StandaloneSpec /\ Is("Guards") => RefusedStaysOut /\ []DenialsAreFree
  BY EachPartAlone, RefusalsHonoured, DenialsFree, PTL
<1>9. StandaloneSpec /\ Is("Protections") => OnlyScreenedCharged
  BY EachPartAlone, ScreenedOnlyCharged, PTL
<1>10. StandaloneSpec => []StoredSafely
  <2>1. StandaloneSpec /\ Is("Files") => []StoredSafely
    BY EachPartAlone, StoredNamesSafe, PTL
  <2>2. ~Is("Files") => StoredSafely
    BY DEF StoredSafely
  <2>3. ~Is("Files") /\ [StandaloneNext]_standaloneVars => ~Is("Files")'
    BY StandaloneStep DEF Is
  <2>4. StandaloneSpec => [][StandaloneNext]_standaloneVars
    BY DEF StandaloneSpec, standaloneVars
  <2> QED BY <2>1, <2>2, <2>3, <2>4, PTL
<1> QED BY <1>1, <1>2, <1>3, <1>4, <1>5, <1>6, <1>7, <1>8, <1>9, <1>10, PTL
=============================================================================
