----------------------------- MODULE DomainProps -----------------------------
(***************************************************************************)
(* What is checked of DomainVerification.                                  *)
(***************************************************************************)
EXTENDS DomainVerification, DirectoryProps

\* The variables have their types, and no verification is dated after the present.
DomainTypeOK ==
  /\ TypeOK
  /\ kind \in [ChallengeIds -> {"endpoint", "domain"}]
  /\ verifications \in [ChallengeIds ->
       [fingerprint : Agents \cup {NoAgent}, domain : Domains \cup {{}},
        verified : 0 .. clock, expires : Nat]]
  /\ manifest \in [Agents -> Hosts \cup {NoHost}]
  /\ carries \in [ChallengeIds -> Hosts \cup Domains \cup {{}}]
  /\ \A c \in ChallengeIds : carries[c] \in IF challenges[c].state = "fresh" THEN {{}}
                                          ELSE IF kind[c] = "domain" THEN Domains ELSE Hosts
  /\ held \in [Threads -> Hosts \cup {NoHost}]

-----------------------------------------------------------------------------
\* A verification and the use of its token are one: what has been verified has
\* used up a domain token of the same agent, and no token is used for nothing.
TokenPerVerification ==
  \A c \in ChallengeIds :
    /\ c \in Verified <=> kind[c] = "domain" /\ challenges[c].state = "used"
    /\ c \in Verified => verifications[c].fingerprint = challenges[c].fingerprint

\* The log has one "domain.verified" for each verification on record, however
\* many confirmations of the same token were looking at the domain at once.
VerifiedOnce ==
  \A fp \in Agents :
    Cardinality({i \in DOMAIN log : log[i].event = "domain.verified" /\ log[i].fingerprint = fp})
      = Cardinality({c \in Verified : verifications[c].fingerprint = fp})

\* The tokens that expire this second, which the cap no longer counts.
LastSecond(fp) ==
  {c \in Unused : /\ kind[c] = "domain"
                  /\ challenges[c].fingerprint = fp
                  /\ challenges[c].expires = clock}

\* Of the tokens an agent can still confirm, at most MaxVerifications expire later than
\* now, and at most as many in this second: confirm takes a token up to its expiry, the
\* cap counts what expires after the present, and with a time read before the lock.
TokenCap ==
  \A fp \in Agents : /\ Cardinality(PendingTokens(fp, clock)) <= MaxVerifications
                     /\ Cardinality(LastSecond(fp)) <= MaxVerifications

\* Entry i of the log lists fp with an endpoint under the domain.
ListedUnder(i, fp, domain) ==
  /\ log[i].event \in Listings
  /\ log[i].fingerprint = fp
  /\ carries[log[i].challenge] \in domain

\* The endpoint the directory serves of an agent is the one of the challenge that its
\* last listing redeemed, in whatever order its challenges were issued and redeemed.
ManifestFollowsLog ==
  \A fp \in Agents : manifest[fp] # NoHost =>
    \E i \in DOMAIN log : /\ IsLast(i, fp, Listings)
                         /\ manifest[fp] = carries[log[i].challenge]

\* A verification is of a domain that the agent's endpoint was under at some moment
\* since the token was made, although the endpoint may change during the lookup.
VerifiedUnderEndpoint ==
  \A c \in Verified :
    LET row == verifications[c]
    IN \E i \in DOMAIN log :
         /\ ListedUnder(i, row.fingerprint, row.domain)
         /\ \A j \in DOMAIN log : /\ j > i
                                 /\ log[j].event \in Listings
                                 /\ log[j].fingerprint = row.fingerprint
                                 => log[j].ts >= challenges[c].created

\* The domain that an answer calls an agent verified for is one that the agent's endpoint
\* was under when the answer was begun or later: the agent moves, other domains of its
\* are verified and expire between the read of its row and that of its verifications.
ShownDomainWasListed ==
  \A t \in Threads : req[t].pc = "show" =>
    \A now \in ReadClock(t) : \A c \in Primaries(req[t].fingerprint, held[t], now) :
      \E i \in DOMAIN log :
        /\ ListedUnder(i, req[t].fingerprint, verifications[c].domain)
        /\ \A j \in DOMAIN log : /\ j > i
                                /\ log[j].event \in Listings
                                /\ log[j].fingerprint = req[t].fingerprint
                                => log[j].ts >= req[t].since

Endpoint(c) == kind[c] = "endpoint"

\* The tickets of the phone book are the endpoint challenges alone.
DomainBook == INSTANCE PhoneBook WITH
                Tickets <- ChallengeIds,
                book    <- [fp \in Agents |-> agents[fp].status],
                issued  <- {c \in ChallengeIds : Endpoint(c) /\ challenges[c].state # "fresh"},
                open    <- {<<c, challenges[c].fingerprint>> : c \in {d \in Unused : Endpoint(d)}}

\* Sharing one table with the domain tokens takes nothing from the phone book:
\* no token lists an agent, and no verification changes who is listed.
StillImplementsPhoneBook == DomainBook!Spec

=============================================================================
