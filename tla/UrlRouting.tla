---------------------------- MODULE UrlRouting ----------------------------
(***************************************************************************)
(* crates/url-routing: the normal form of a URL, the route it is given and *)
(* the destination policy on addresses.                                    *)
(*                                                                         *)
(* A URL is a record of its parts, as url::Url parses them:                *)
(*   absolute  it holds "://" and parses                                   *)
(*   scheme    in lower case                                               *)
(*   host      a name, an IPv4 or an IPv6 address, or NoHost               *)
(*   plain     the host is spelled as the parser would spell it            *)
(*   userinfo  it has a user name or a password                            *)
(*   port      NoPort when absent (the parser drops a default port)        *)
(*   path      the sequence of its segments                                *)
(*   query     its pairs, each the decoded key and the text as spelled;    *)
(*             <<"", "">> is no text                                       *)
(*   fragment  it has one                                                  *)
(* The errors of normalize are one refusal: every caller maps them to one  *)
(* class.  A length counts the parts, not their characters.                *)
(***************************************************************************)
EXTENDS Integers, Sequences

NoHost == <<"none", <<>>>>

NoPort == -1

Octet == 0 .. 255

Segment == Octet \X Octet

Segments == Segment \X Segment \X Segment \X Segment \X Segment \X Segment \X Segment \X Segment

Ipv4 == {"v4"} \X (Octet \X Octet \X Octet \X Octet)

Ipv6 == {"v6"} \X Segments

Addresses == Ipv4 \cup Ipv6

Domains == {"domain"} \X Seq(STRING)

Url == [absolute : BOOLEAN, scheme : STRING, host : Domains \cup Addresses \cup {NoHost}, plain : BOOLEAN,
        userinfo : BOOLEAN, port : Int, path : Seq(STRING), query : Seq(STRING \X STRING), fragment : BOOLEAN]

TrackingKeys == {"utm_source", "utm_medium", "utm_campaign", "utm_term", "utm_content", "gclid", "fbclid"}

(* Input length, in parts. *)
Length(url) == Len(url.path) + Len(url.query) + (IF url.fragment THEN 1 ELSE 0) + (IF url.port = NoPort THEN 0 ELSE 1)

DefaultPort(scheme) == IF scheme = "https" THEN 443 ELSE 80

(* Url::port_or_known_default. *)
EffectivePort(url) == IF url.port # NoPort THEN url.port ELSE DefaultPort(url.scheme)

(* The early returns of normalize.  Only an IPv4 host can be ambiguous. *)
Acceptable(url, policy) ==
    /\ Length(url) <= policy.maxLength
    /\ url.absolute
    /\ url.scheme \in {"http", "https"}
    /\ url.host # NoHost
    /\ ~url.userinfo
    /\ url.port # 0
    /\ EffectivePort(url) \in policy.ports
    /\ url.host[1] = "v4" => url.plain

(* is_tracking_pair. *)
IsTrackingPair(pair) == pair[1] \in TrackingKeys

(* The pairs that are not for tracking, in their order. *)
Retained(query) ==
    LET scan[n \in 0 .. Len(query)] ==
            IF n = 0 THEN <<>>
            ELSE IF IsTrackingPair(query[n]) THEN scan[n - 1]
            ELSE Append(scan[n - 1], query[n])
    IN  scan[Len(query)]

(* Variant: a query whose last pair is removed stays, and is empty. *)
RemoveTrackingQuery_KeepsEmpty(query) ==
    IF query # <<>> /\ Retained(query) = <<>> THEN << <<"", "">> >> ELSE Retained(query)

(* remove_tracking_query: a query with no text left is removed with its    *)
(* question mark.                                                          *)
RemoveTrackingQuery(query) == IF Retained(query) = << <<"", "">> >> THEN <<>> ELSE Retained(query)

(* The normal form of an acceptable URL, in the parser's spelling. *)
Normalized(url) ==
    [absolute |-> TRUE, scheme |-> url.scheme, host |-> url.host, plain |-> TRUE, userinfo |-> FALSE,
     port |-> IF url.port = DefaultPort(url.scheme) THEN NoPort ELSE url.port,
     path |-> url.path, query |-> RemoveTrackingQuery(url.query), fragment |-> FALSE]

(* host_matches, on labels: the host is the base or a subdomain of it. *)
HostMatches(host, base) ==
    /\ host[1] = "domain"
    /\ Len(host[2]) >= Len(base)
    /\ SubSeq(host[2], Len(host[2]) - Len(base) + 1, Len(host[2])) = base

(* The providers of classify and the hosts they own; no two share one. *)
Owners ==
    {<<"GitHub", <<"github", "com">>>>, <<"X", <<"x", "com">>>>, <<"X", <<"twitter", "com">>>>,
     <<"Instagram", <<"instagram", "com">>>>, <<"Threads", <<"threads", "net">>>>,
     <<"Reddit", <<"reddit", "com">>>>, <<"Reddit", <<"redd", "it">>>>,
     <<"HackerNews", <<"news", "ycombinator", "com">>>>, <<"YouTube", <<"youtube", "com">>>>,
     <<"YouTube", <<"youtu", "be">>>>, <<"YouTube", <<"youtube-nocookie", "com">>>>}

(* classify, for a path whose last segment is one of pdfNames when it      *)
(* ends in ".pdf".                                                         *)
Classify(url, pdfNames) ==
    LET owners == {owner \in Owners : HostMatches(url.host, owner[2])}
    IN  IF owners # {} THEN (CHOOSE owner \in owners : TRUE)[1]
        ELSE IF url.path # <<>> /\ url.path[Len(url.path)] \in pdfNames THEN "Pdf"
        ELSE "GenericWeb"

---------------------------------------------------------------------------

Zero == <<0, 0>>

(* blocked_ipv4, the classes in the order of the code. *)
BlockedIpv4(o) ==
    \/ o = <<0, 0, 0, 0>>
    \/ o[1] = 127
    \/ o \in {<<169, 254, 169, 254>>, <<169, 254, 170, 2>>}
    \/ o[1] = 10 \/ (o[1] = 172 /\ o[2] \in 16 .. 31) \/ (o[1] = 192 /\ o[2] = 168)
    \/ o[1] = 100 /\ o[2] \in 64 .. 127
    \/ o[1] = 169 /\ o[2] = 254
    \/ (o[1] = 192 /\ o[2] = 0 /\ o[3] = 2) \/ (o[1] = 198 /\ o[2] = 51 /\ o[3] = 100)
           \/ (o[1] = 203 /\ o[2] = 0 /\ o[3] = 113)
    \/ o[1] = 198 /\ o[2] \in {18, 19}
    \/ o[1] \in 224 .. 239
    \/ o[1] = 0 \/ o[1] >= 240 \/ (o[1] = 192 /\ o[2] = 0 /\ o[3] = 0) \/ (o[1] = 192 /\ o[2] = 88 /\ o[3] = 99)

(* is_reserved_ipv6.  A segment is its two octets; a mask of the leading   *)
(* bits is an interval of the octet it ends in.                            *)
IsReservedIpv6(s) ==
    \/ s[1] = <<\h01, \h00>> /\ \A i \in 2 .. 6 : s[i] = Zero
    \/ s[1] = <<\h00, \h64>> /\ s[2] = <<\hFF, \h9B>> /\ \A i \in 3 .. 6 : s[i] = Zero
    \/ s[1] = <<\h00, \h64>> /\ s[2] = <<\hFF, \h9B>> /\ s[3] = <<0, 1>>
    \/ s[1] = <<\h20, \h01>> /\ (s[2] = Zero \/ (s[2][1] = 0 /\ s[2][2] \in \h10 .. \h1F)
                                             \/ (s[2][1] = 0 /\ s[2][2] \in \h20 .. \h2F))
    \/ s[1] = <<\h20, \h02>>
    \/ s[1][1] = \hFE /\ s[1][2] \in \hC0 .. \hFF
    \/ s[1][1] \notin \h20 .. \h3F

(* Ipv6Addr::to_ipv4_mapped. *)
IsMapped(s) == s[6] = <<\hFF, \hFF>> /\ \A i \in 1 .. 5 : s[i] = Zero

Mapped(s) == <<s[7][1], s[7][2], s[8][1], s[8][2]>>

(* blocked_ipv6, the classes in the order of the code. *)
BlockedIpv6(s) ==
    IF IsMapped(s) THEN BlockedIpv4(Mapped(s))
    ELSE \/ \A i \in 1 .. 8 : s[i] = Zero
         \/ s[8] = <<0, 1>> /\ \A i \in 1 .. 7 : s[i] = Zero
         \/ s[1] = <<\hFD, \h00>> /\ s[2] = <<\h0E, \hC2>> /\ s[8] = <<\h02, \h54>> /\ \A i \in 3 .. 7 : s[i] = Zero
         \/ s[1][1] \in {\hFC, \hFD}
         \/ s[1][1] = \hFE /\ s[1][2] \in \h80 .. \hBF
         \/ s[1][1] = \hFF
         \/ s[1] = <<\h20, \h01>> /\ s[2] = <<\h0D, \hB8>>
         \/ s[1][1] = \h3F /\ s[1][2] \in \hF0 .. \hFF
         \/ s[1] = <<\h20, \h01>> /\ s[2] = <<0, 2>> /\ s[3] = Zero
         \/ IsReservedIpv6(s)

(* validate_address. *)
ValidateAddress(address) ==
    IF address[1] = "v4" THEN ~BlockedIpv4(address[2]) ELSE ~BlockedIpv6(address[2])

(* resolve_host on the complete answer of a lookup: one refused address    *)
(* refuses the answer.  An empty answer is no success either.              *)
ResolveHost(answer) == answer # {} /\ \A address \in answer : ValidateAddress(address)

---------------------------------------------------------------------------

Within(x, first, last) == first <= x /\ x <= last

(* The special-purpose blocks of the IANA registries that are not globally *)
(* reachable: of IPv4 by the two 16-bit words of an address, where a /8 or *)
(* a /12 is an interval of the first and a /24 one of the second.          *)
SpecialIpv4(hi, lo) ==
    \/ Within(hi, \h0000, \h00FF)                     \* 0.0.0.0/8
    \/ Within(hi, \h0A00, \h0AFF)                     \* 10.0.0.0/8
    \/ Within(hi, \h6440, \h647F)                     \* 100.64.0.0/10
    \/ Within(hi, \h7F00, \h7FFF)                     \* 127.0.0.0/8
    \/ hi = \hA9FE                                    \* 169.254.0.0/16
    \/ Within(hi, \hAC10, \hAC1F)                     \* 172.16.0.0/12
    \/ hi = \hC000 /\ Within(lo, \h0000, \h00FF)      \* 192.0.0.0/24
    \/ hi = \hC000 /\ Within(lo, \h0200, \h02FF)      \* 192.0.2.0/24
    \/ hi = \hC058 /\ Within(lo, \h6300, \h63FF)      \* 192.88.99.0/24
    \/ hi = \hC0A8                                    \* 192.168.0.0/16
    \/ Within(hi, \hC612, \hC613)                     \* 198.18.0.0/15
    \/ hi = \hC633 /\ Within(lo, \h6400, \h64FF)      \* 198.51.100.0/24
    \/ hi = \hCB00 /\ Within(lo, \h7100, \h71FF)      \* 203.0.113.0/24
    \/ hi >= \hE000                                   \* 224.0.0.0/4 and 240.0.0.0/4

(* 2001::/23, the IETF protocol assignments, and the assignments in it     *)
(* that the registry has as globally reachable.                            *)
IetfAssignment(s) == s[1] = <<\h20, \h01>> /\ s[2][1] \in 0 .. 1

ReachableAssignment(s) ==
    \/ s[2] = <<0, 1>> /\ s[8] \in {0} \X (1 .. 3) /\ \A i \in 3 .. 7 : s[i] = Zero  \* 2001:1::1 to 2001:1::3
    \/ s[2] = <<0, 3>>                                                            \* 2001:3::/32
    \/ s[2] = <<0, 4>> /\ s[3] = <<\h01, \h12>>                                   \* 2001:4:112::/48
    \/ s[2] \in {0} \X (\h20 .. \h3F)                                            \* 2001:20::/28, 2001:30::/28

SpecialIpv6(s) ==
    \/ s[1][1] \notin \h20 .. \h3F                     \* all but 2000::/3
    \/ IetfAssignment(s) /\ ~ReachableAssignment(s)    \* 2001::/23
    \/ s[1] = <<\h20, \h01>> /\ s[2] = <<\h0D, \hB8>>  \* 2001:db8::/32
    \/ s[1] = <<\h20, \h02>>                           \* 2002::/16
    \/ s[1] = <<\h3F, \hFF>> /\ s[2][1] \in 0 .. \h0F  \* 3fff::/20

(* Of 2001::/23 blocked_ipv6 names 2001::/32, 2001:2::/48, 2001:10::/28    *)
(* and 2001:20::/28; the rest of the block it does not refuse.             *)
UnnamedAssignment(address) ==
    LET s == address[2] IN
    /\ address[1] = "v6" /\ IetfAssignment(s)
    /\ s[2] # Zero /\ s[2] \notin {0} \X (\h10 .. \h2F) /\ ~(s[2] = <<0, 2>> /\ s[3] = Zero)

(* An IPv4 address in IPv6 form is the IPv4 address. *)
Special(address) ==
    LET w == address[2] IN
    IF address[1] = "v4" THEN SpecialIpv4(256 * w[1] + w[2], 256 * w[3] + w[4])
    ELSE IF IsMapped(w) THEN SpecialIpv4(256 * w[7][1] + w[7][2], 256 * w[8][1] + w[8][2])
    ELSE SpecialIpv6(w)
=============================================================================
