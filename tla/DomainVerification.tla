-------------------------- MODULE DomainVerification --------------------------
(***************************************************************************)
(* L2, domain verification, composed with the listing life cycle: the      *)
(* tokens of domain.py are rows of the same table `challenges`, told apart *)
(* by their kind, and the handlers run in the same threads.                *)
(*                                                                         *)
(* A confirmation reads the agent, then the token, then leaves the process *)
(* for up to ten seconds to look at the domain (verify.py), and only then  *)
(* consumes the token.  All of Directory goes on meanwhile: the agent may  *)
(* lapse or move to another endpoint, the token may expire, be used, or be *)
(* evicted by a registration.                                              *)
(*                                                                         *)
(* Of a manifest there is the host of the agent's endpoint; a domain is    *)
(* the set of the hosts under it.                                          *)
(***************************************************************************)
EXTENDS Directory

CONSTANTS
  MaxVerifications,  \* config.max_pending_verifications
  TokenTTL,          \* config.domain_token_ttl_s
  VerificationTTL,   \* config.domain_verification_ttl_days
  Hosts,             \* hosts of endpoints
  Domains,           \* domains that agents claim
  NoHost             \* no manifest, or none remembered

ASSUME DomainConstants ==
  /\ {MaxVerifications, VerificationTTL} \subseteq Nat
  /\ TokenTTL \in Nat \ {0}
  /\ Domains \subseteq SUBSET Hosts
  /\ NoHost \notin Hosts

VARIABLES
  kind,          \* column kind of table challenges: "endpoint" or "domain"
  verifications, \* table domain_verifications: id (that of its token) -> row
  manifest,      \* column manifest_json of table agents: its host
  carries,       \* columns manifest_json and domain of table challenges: the
                 \* manifest to be listed, or the domain to be shown
  held           \* thread -> the manifest of the row it has read

l2vars == <<kind, verifications, manifest, carries, held>>
domainVars == <<vars, l2vars>>

NoVerification == [fingerprint |-> NoAgent, domain |-> {}, verified |-> 0, expires |-> 0]

Verified == {c \in ChallengeIds : verifications[c] # NoVerification}

DomainInit ==
  /\ Init
  /\ kind = [c \in ChallengeIds |-> "endpoint"]
  /\ verifications = [c \in ChallengeIds |-> NoVerification]
  /\ manifest = [fp \in Agents |-> NoHost]
  /\ carries = [c \in ChallengeIds |-> {}]
  /\ held = [t \in Threads |-> NoHost]

\* Tokens of fp that the cap counts; confirm takes a token in its last second too.
PendingTokens(fp, now) ==
  {c \in PendingAt(now) : kind[c] = "domain" /\ challenges[c].fingerprint = fp}

-----------------------------------------------------------------------------
(* DomainService.request_verification.                                     *)

\* _live_agent; the body is signed by the agent's key.
VerifyRead(t, fp, c) ==
  /\ challenges[c].state = "fresh"
  /\ \A u \in Threads : req[u].challenge # c
  /\ Live(agents[fp], clock)
  /\ Start(t, [pc |-> "verify", fingerprint |-> fp, challenge |-> c,
               until |-> 0, since |-> clock])
  /\ UNCHANGED <<agents, challenges, log, clock, l2vars>>

\* Faulty variant: the cap lets one token too many in.
RoomForTokenOrOne(fp, now) == Cardinality(PendingTokens(fp, now)) <= MaxVerifications

RoomForToken(fp, now) == Cardinality(PendingTokens(fp, now)) < MaxVerifications

\* Store.insert_domain_challenge: counts the agent's own tokens, evicts nothing.
VerifyInsert(t) ==
  LET c == req[t].challenge  fp == req[t].fingerprint
  IN /\ req[t].pc = "verify"
     /\ \E now \in ReadClock(t) :
          \/ /\ RoomForToken(fp, now)
             /\ challenges' = [challenges EXCEPT ![c] =
                  [state |-> "pending", fingerprint |-> fp,
                   created |-> now, expires |-> now + TokenTTL]]
             /\ kind' = [kind EXCEPT ![c] = "domain"]
             /\ \E domain \in Domains : carries' = [carries EXCEPT ![c] = domain]
             /\ log' = Append(log, Entry("domain.verify_requested", fp, NoChallenge))
          \/ /\ ~RoomForToken(fp, now)        \* VERIFICATION_LIMIT_REACHED
             /\ UNCHANGED <<challenges, kind, carries, log>>
     /\ Finish(t)
     /\ UNCHANGED <<agents, clock, verifications, manifest, held>>

-----------------------------------------------------------------------------
(* DomainService.confirm.                                                  *)

\* _live_agent
ConfirmRead(t, fp, c) ==
  /\ Live(agents[fp], clock)
  /\ challenges[c].state # "fresh"
  /\ Start(t, [pc |-> "token", fingerprint |-> fp, challenge |-> c,
               until |-> 0, since |-> clock])
  /\ held' = [held EXCEPT ![t] = manifest[fp]]
  /\ UNCHANGED <<agents, challenges, log, clock, kind, verifications, manifest, carries>>

\* get_challenge: a domain token of this agent, unused and not expired.
Confirmable(c, fp) ==
  /\ challenges[c].state = "pending"
  /\ kind[c] = "domain"
  /\ challenges[c].fingerprint = fp
  /\ challenges[c].expires >= clock

\* Faulty variant: the endpoint is not asked for.
AnyHostWill(host, domain) == TRUE

HostUnderDomain(host, domain) == host \in domain

ConfirmToken(t) ==
  LET c == req[t].challenge  ok == Confirmable(c, req[t].fingerprint)
  IN /\ req[t].pc = "token"
     /\ \/ /\ ok /\ HostUnderDomain(held[t], carries[c])
           /\ req' = [req EXCEPT ![t].pc = "lookup", ![t].since = clock]
        \/ /\ ok => ~HostUnderDomain(held[t], carries[c])  \* DOMAIN_ENDPOINT_MISMATCH
           /\ Finish(t)
     /\ held' = [held EXCEPT ![t] = NoHost]
     /\ UNCHANGED <<agents, challenges, log, clock, kind, verifications, manifest, carries>>

\* The domain shows the token (_check_control), or the request ends.
ConfirmLookup(t) ==
  /\ req[t].pc = "lookup"
  /\ \/ req' = [req EXCEPT ![t].pc = "confirm", ![t].since = clock]
     \/ Finish(t)
  /\ UNCHANGED <<agents, challenges, log, clock, l2vars>>

\* Faulty variants: the token is not marked used; two columns are swapped.
TokenLeftUnused(c) == UNCHANGED challenges
VerificationRowSwapped(fp, domain, now) ==
  [fingerprint |-> fp, domain |-> domain, verified |-> now + VerificationTTL, expires |-> now]

TokenUsed(c) == challenges' = [challenges EXCEPT ![c].state = "used"]

VerificationRow(fp, domain, now) ==
  [fingerprint |-> fp, domain |-> domain, verified |-> now, expires |-> now + VerificationTTL]

\* Store.confirm_domain_verification: the token's row is read again, for its use.
TokenConsumed(c, fp, now) ==
  /\ StillUnused(c)
  /\ TokenUsed(c)
  /\ verifications' = [verifications EXCEPT ![c] = VerificationRow(fp, carries[c], now)]
  /\ log' = Append(log, Entry("domain.verified", fp, NoChallenge))

ConfirmCommit(t) ==
  LET c == req[t].challenge
  IN /\ req[t].pc = "confirm"
     /\ \/ \E now \in ReadClock(t) : TokenConsumed(c, req[t].fingerprint, now)
        \/ /\ NoLongerUsable(c)     \* VERIFICATION_USED, VERIFICATION_NOT_FOUND
           /\ UNCHANGED <<challenges, verifications, log>>
     /\ Finish(t)
     /\ UNCHANGED <<agents, clock, kind, manifest, carries, held>>

-----------------------------------------------------------------------------
\* Faulty variant: a completion takes whatever challenge it is given.
ProofNotAsked(t) == FALSE

\* A token has no public key: a registration completed with it fails its proof.
ProvesNothing(t) == req[t].pc = "complete" /\ kind[req[t].challenge] = "domain"

\* A challenge is issued, for the manifest of the request; or it is redeemed, and
\* lists what it carries.
Issued(c) == challenges[c].state = "fresh" /\ challenges'[c].state # "fresh"
Redeemed(c) == /\ kind[c] = "endpoint"
               /\ challenges[c].state = "pending"
               /\ challenges'[c].state = "used"

\* Faulty variant: an update keeps the manifest that is there.
ManifestKept(fp, c) == IF manifest[fp] = NoHost THEN carries[c] ELSE manifest[fp]

\* _upsert_agent_cur: the manifest of the challenge replaces that of the row.
ManifestListed(fp, c) == carries[c]

DirectoryStep ==
  /\ Next
  /\ UNCHANGED <<kind, verifications>>
  /\ \A t \in Threads : ~ProvesNothing(t)'
  /\ \E host \in Hosts :
       carries' = [c \in ChallengeIds |-> IF Issued(c) THEN host ELSE carries[c]]
  /\ manifest' = [fp \in Agents |->
       IF \E c \in ChallengeIds : Redeemed(c) /\ challenges[c].fingerprint = fp
       THEN ManifestListed(fp, CHOOSE c \in ChallengeIds :
                                 Redeemed(c) /\ challenges[c].fingerprint = fp)
       ELSE manifest[fp]]
  /\ held' = [t \in Threads |-> IF req'[t].pc \in {"token", "show"} THEN held[t] ELSE NoHost]

-----------------------------------------------------------------------------
(* The domain in the trust block and in the status: the agent's row is     *)
(* read first, and with its host, in a later section, the verifications.   *)

\* get_agent_row.  An answer adds nothing to the log, and is free of its bound.
ShowRead(t, fp) ==
  /\ agents[fp].status # "absent"
  /\ req[t] = Idle
  /\ req' = [req EXCEPT ![t] = [pc |-> "show", fingerprint |-> fp, challenge |-> NoChallenge,
                               until |-> 0, since |-> clock]]
  /\ held' = [held EXCEPT ![t] = manifest[fp]]
  /\ UNCHANGED <<agents, challenges, log, clock, kind, verifications, manifest, carries>>

\* active_domain_verifications
ActiveVerifications(fp, now) ==
  {c \in Verified : verifications[c].fingerprint = fp /\ verifications[c].expires >= now}

\* Faulty variant: the flag endpoint_match that was stored, which is always set.
PrimariesAsStored(fp, host, now) ==
  {c \in ActiveVerifications(fp, now) :
     \A d \in ActiveVerifications(fp, now) : verifications[d].verified <= verifications[c].verified}

\* primary_verification: the latest for a domain over the host; equals in any order.
Primaries(fp, host, now) ==
  LET matching == {c \in ActiveVerifications(fp, now) :
                     HostUnderDomain(host, verifications[c].domain)}
  IN  {c \in matching : \A d \in matching : verifications[d].verified <= verifications[c].verified}

\* The answer is one of Primaries(fp, held[t], now) for a now in ReadClock(t).
ShowVerifications(t) ==
  /\ req[t].pc = "show"
  /\ Finish(t)
  /\ held' = [held EXCEPT ![t] = NoHost]
  /\ UNCHANGED <<agents, challenges, log, clock, kind, verifications, manifest, carries>>

-----------------------------------------------------------------------------
DomainRequest(t) ==
  \E fp \in Agents :
    \/ \E c \in ChallengeIds : VerifyRead(t, fp, c) \/ ConfirmRead(t, fp, c)
    \/ ShowRead(t, fp)

DomainServe(t) ==
  \/ VerifyInsert(t)
  \/ ConfirmToken(t)
  \/ ConfirmLookup(t)
  \/ ConfirmCommit(t)
  \/ ShowVerifications(t)

DomainNext ==
  \/ DirectoryStep
  \/ \E t \in Threads : DomainRequest(t) \/ DomainServe(t)

DomainSpec == DomainInit /\ [][DomainNext]_domainVars

=============================================================================
