------------------------------ MODULE ClientIp ------------------------------
(***************************************************************************)
(* utils/ip.go: which address a request is taken to come from, behind      *)
(* reverse proxies that each append the address of their peer to the one   *)
(* X-Forwarded-For line they received, whatever the client wrote there.    *)
(***************************************************************************)
EXTENDS Integers, Sequences, FiniteSets, SequencesExt

CONSTANTS Client,        \* addresses of clients
          Proxies,       \* proxy addresses, the nearest to the clients first
          Written,       \* what a client may write as an address
          Blank,         \* one of them, empty once trimmed; an absent header
          MaxWritten,    \* bound: addresses a client writes in one header
          sanitizeIP,    \* address -> address, shortened and without controls
          extractIP      \* peer -> its host: IPv6 hosts keep their brackets

Options ==
    /\ Blank \in Written /\ sanitizeIP[Blank] = Blank
    /\ Proxies \in Seq(Range(Proxies)) /\ Blank \notin Client \cup Range(Proxies)
    /\ \A a \in Client \cup Range(Proxies) : sanitizeIP[a] = a

VARIABLES deployment,   \* how many proxies, what platform, TrustedProxyCount
          client,
          honest,       \* the client wrote no header
          hop,          \* how many proxies the request has passed
          xff,          \* the parts of X-Forwarded-For, <<>> when it is absent
          header,       \* the header the platform's edge sets
          realIp,       \* X-Real-IP
          ip, simple    \* DetectClientIP's and GetClientIP's results, or Blank

vars == <<deployment, client, honest, hop, xff, header, realIp, ip, simple>>

\* Platforms with a header of their own count as "edge": their first proxy sets
\* it.  Vercel's is X-Real-IP.
Deployments == { d \in [proxies : 0 .. Len(Proxies), platform : {"generic", "aws-alb", "edge"},
                        TrustedProxyCount : 0 .. Len(Proxies)] : d.platform # "generic" => d.proxies > 0 }

Init ==
    /\ deployment \in Deployments /\ client \in Client
    /\ xff \in BoundedSeq(Written, MaxWritten) /\ header \in Written /\ realIp \in Written
    /\ honest = (xff = <<>> /\ header = Blank /\ realIp = Blank)
    /\ hop = 0 /\ ip = Blank /\ simple = Blank

\* The address the request comes from where it is now: RemoteAddr.
Peer == IF hop = 0 THEN client ELSE Proxies[hop]

Forward ==
    /\ hop < deployment.proxies
    /\ hop' = hop + 1
    /\ xff' = Append(xff, Peer)
    /\ header' = IF deployment.platform = "edge" /\ hop = 0 THEN Peer ELSE header
    /\ UNCHANGED <<deployment, client, honest, realIp, ip, simple>>

\* TrustedProxyCount > 0 ? TrustedProxyCount : 1
Trusted == IF deployment.TrustedProxyCount > 0 THEN deployment.TrustedProxyCount ELSE 1

\* The entries that are not empty, and how many of them start at the i-th.
Entries(parts) == { i \in DOMAIN parts : parts[i] # Blank }
FromRight(parts, i) == Cardinality({ j \in Entries(parts) : j >= i })

\* Wrong: one too far to the left.
OneLeft(parts) ==
    LET n == Cardinality(Entries(parts))
    IN  IF n = 0 THEN Blank
        ELSE sanitizeIP[parts[CHOOSE i \in Entries(parts) :
                                FromRight(parts, i) = IF n > Trusted THEN Trusted + 1 ELSE n]]

\* The Trusted-th entry from the right, or the first.
parseXFFRightToLeft(parts) ==
    LET n == Cardinality(Entries(parts))
    IN  IF n = 0 THEN Blank
        ELSE sanitizeIP[parts[CHOOSE i \in Entries(parts) :
                                FromRight(parts, i) = IF n > Trusted THEN Trusted ELSE n]]

getPlatformIP ==
    CASE deployment.platform = "edge" -> sanitizeIP[header]
      [] deployment.platform = "aws-alb" -> parseXFFRightToLeft(xff)
      [] OTHER -> Blank

\* The first that is not empty.
DetectClientIP ==
    IF getPlatformIP # Blank THEN getPlatformIP
    ELSE IF parseXFFRightToLeft(xff) # Blank THEN parseXFFRightToLeft(xff)
    ELSE IF realIp # Blank THEN sanitizeIP[realIp]
    ELSE extractIP[Peer]

\* The first entry as it is, even an empty one: what the limiters count by.
GetClientIP ==
    IF xff # <<>> THEN Head(xff)
    ELSE IF realIp # Blank THEN realIp
    ELSE extractIP[Peer]

Arrive ==
    /\ hop = deployment.proxies
    /\ ip' = DetectClientIP /\ simple' = GetClientIP
    /\ UNCHANGED <<deployment, client, honest, hop, xff, header, realIp>>

Next == Forward \/ Arrive

Spec == Init /\ [][Next]_vars

-----------------------------------------------------------------------------
Path == <<client>> \o SubSeq(Proxies, 1, deployment.proxies)

\* DetectClientIP: behind at least as many proxies as are trusted the result is
\* the peer of the outermost trusted one (behind a platform's edge, the edge's
\* peer), and nothing a client writes changes it; GetClientIP agrees when the
\* client writes nothing.
ClientIsPeer ==
    (ip # Blank /\ deployment.proxies >= Trusted) =>
        /\ ip = IF deployment.platform = "edge" THEN client ELSE Path[deployment.proxies - Trusted + 1]
        /\ honest /\ deployment.proxies = Trusted => simple = ip
=============================================================================
