---------------------------- MODULE Domain_proofs ----------------------------
(***************************************************************************)
(* Proofs about DomainVerification, for every choice of its constants.     *)
(*                                                                         *)
(* A step is one of the directory's, of which Directory_proofs says what   *)
(* it does to the tables that are shared (Effect), or it asks for a token, *)
(* stores one, or takes one in (DomainEffect).  Each property is kept by   *)
(* each of these, and never looked at action by action.                    *)
(***************************************************************************)
EXTENDS DomainProps, DirectoryLog_proofs

\* The requests of DomainVerification; Directory has none of them.
OnToken == {"verify", "token", "lookup", "confirm", "show"}

\* The types of the tables and columns that DomainVerification adds.
VerificationRec == [fingerprint : Agents \cup {NoAgent}, domain : Domains \cup {{}},
                    verified : 0 .. clock, expires : Nat]

ColumnsOK ==
  /\ kind \in [ChallengeIds -> {"endpoint", "domain"}]
  /\ verifications \in [ChallengeIds -> VerificationRec]
  /\ manifest \in [Agents -> Hosts \cup {NoHost}]
  /\ held \in [Threads -> Hosts \cup {NoHost}]

CarriesOK ==
  /\ carries \in [ChallengeIds -> Hosts \cup Domains \cup {{}}]
  /\ \A c \in ChallengeIds : carries[c] \in IF challenges[c].state = "fresh" THEN {{}}
                                          ELSE IF kind[c] = "domain" THEN Domains ELSE Hosts

LEMMA DomainTypeParts == DomainTypeOK <=> TypeOK /\ ColumnsOK /\ CarriesOK
BY DEF DomainTypeOK, ColumnsOK, CarriesOK, VerificationRec

LEMMA DomainTypePartsNext == DomainTypeOK' <=> TypeOK' /\ ColumnsOK' /\ CarriesOK'
BY DEF DomainTypeOK, ColumnsOK, CarriesOK, VerificationRec

\* What was never issued is no token; a completion is of an endpoint challenge; what
\* a confirmation is about was issued, and since its token was read, to its agent.
KindsOK ==
  /\ \A c \in ChallengeIds : challenges[c].state = "fresh" => kind[c] = "endpoint"
  /\ \A t \in Threads :
       /\ req[t].pc = "complete" => kind[req[t].challenge] = "endpoint"
       /\ req[t].pc \in {"token", "lookup", "confirm"} =>
            challenges[req[t].challenge].state # "fresh"
       /\ req[t].pc \in {"lookup", "confirm"} =>
            /\ kind[req[t].challenge] = "domain"
            /\ challenges[req[t].challenge].fingerprint = req[t].fingerprint

\* The inductive base: types, reservations and kinds; and what was issued can be counted.
DomainBase ==
  /\ DomainTypeOK
  /\ Reserved
  /\ KindsOK
  /\ IsFiniteSet(theIssued)

-----------------------------------------------------------------------------
(* What a step does.                                                       *)

\* Only a request of DomainVerification moves.
TokenQuiet == UNCHANGED <<agents, challenges, log, clock, kind, verifications, manifest, carries>>

\* Request t stores the token it asked for.
TokenStored(t, now, domain) ==
  LET c == req[t].challenge  fp == req[t].fingerprint
  IN /\ req[t].pc = "verify"
     /\ RoomForToken(fp, now)
     /\ challenges' = [challenges EXCEPT ![c] =
          [state |-> "pending", fingerprint |-> fp, created |-> now, expires |-> now + TokenTTL]]
     /\ kind' = [kind EXCEPT ![c] = "domain"]
     /\ carries' = [carries EXCEPT ![c] = domain]
     /\ log' = Append(log, Entry("domain.verify_requested", fp, NoChallenge))
     /\ UNCHANGED <<agents, clock, verifications, manifest, held>>

\* Request t takes in the token that the domain has shown.
TokenTaken(t, now) ==
  /\ req[t].pc = "confirm"
  /\ TokenConsumed(req[t].challenge, req[t].fingerprint, now)
  /\ UNCHANGED <<agents, clock, kind, manifest, carries, held>>

DomainEffect ==
  \/ DirectoryStep
  \/ TokenQuiet
  \/ \E t \in Threads, now \in Nat, domain \in Domains :
       now <= clock /\ TokenStored(t, now, domain)
  \/ \E t \in Threads, now \in Nat : now <= clock /\ TokenTaken(t, now)

LEMMA DomainStepEffect ==
  ASSUME TypeOK, [DomainNext]_domainVars
  PROVE  DomainEffect
<1>1. ASSUME NEW t \in Threads, NEW fp \in Agents, NEW c \in ChallengeIds,
             VerifyRead(t, fp, c) \/ ConfirmRead(t, fp, c)
      PROVE  TokenQuiet
  BY <1>1 DEF VerifyRead, ConfirmRead, TokenQuiet, l2vars
<1>6. ASSUME NEW t \in Threads, NEW fp \in Agents, ShowRead(t, fp)
      PROVE  TokenQuiet
  BY <1>6 DEF ShowRead, TokenQuiet
<1>7. ASSUME NEW t \in Threads, ShowVerifications(t)
      PROVE  TokenQuiet
  BY <1>7 DEF ShowVerifications, TokenQuiet
<1>2. ASSUME NEW t \in Threads, VerifyInsert(t)
      PROVE  TokenQuiet \/ \E now \in Nat, domain \in Domains :
                             now <= clock /\ TokenStored(t, now, domain)
  BY <1>2, ReadClockType DEF VerifyInsert, TokenQuiet, TokenStored
<1>3. ASSUME NEW t \in Threads, ConfirmToken(t) \/ ConfirmLookup(t)
      PROVE  TokenQuiet
  BY <1>3 DEF ConfirmToken, ConfirmLookup, TokenQuiet, l2vars
<1>4. ASSUME NEW t \in Threads, ConfirmCommit(t)
      PROVE  TokenQuiet \/ \E now \in Nat : now <= clock /\ TokenTaken(t, now)
  BY <1>4, ReadClockType DEF ConfirmCommit, TokenQuiet, TokenTaken
<1>5. CASE UNCHANGED domainVars
  BY <1>5 DEF domainVars, vars, l2vars, TokenQuiet, DomainEffect
<1> QED
  BY <1>1, <1>2, <1>3, <1>4, <1>5, <1>6, <1>7
     DEF DomainNext, DomainRequest, DomainServe, DomainEffect

\* The directory starts no request of DomainVerification, and serves none.
LEMMA OthersRequests ==
  ASSUME TypeOK, Next, NEW t \in Threads
  PROVE  req'[t] = req[t] \/ req'[t].pc \notin OnToken
<1>0. req \in [Threads -> RequestRec]
  BY DEF TypeOK
<1>1. ASSUME NEW u \in Threads, Finish(u)
      PROVE  req'[t] = req[t] \/ req'[t].pc \notin OnToken
  BY <1>0, <1>1 DEF Finish, Idle, OnToken
<1>2. ASSUME NEW u \in Threads, NEW r \in RequestRec, r.pc \notin OnToken, Start(u, r)
      PROVE  req'[t] = req[t] \/ req'[t].pc \notin OnToken
  BY <1>0, <1>2 DEF Start
<1>3. ASSUME NEW u \in Threads, NEW pc \in {"count", "insert"},
             req' = [req EXCEPT ![u].pc = pc, ![u].since = clock]
      PROVE  req'[t] = req[t] \/ req'[t].pc \notin OnToken
  BY <1>0, <1>3 DEF RequestRec, OnToken
<1>4. ASSUME NEW u \in Threads, Request(u)
      PROVE  req'[t] = req[t] \/ req'[t].pc \notin OnToken
  <2>1. \A v \in Threads : v # u => req'[v] = req[v]
    BY <1>0, <1>4 DEF Request, SubmitRead, HeartbeatRead, UnsuspendStart, CompleteRead,
                      SearchStart, Start
  <2>2. req'[u].pc \in {"submit", "heartbeat", "heartbeat_legacy", "unsuspend", "complete",
                        "search"}
    BY <1>0, <1>4 DEF Request, SubmitRead, HeartbeatRead, UnsuspendStart, CompleteRead,
                      SearchStart, Start
  <2> QED
    BY <2>1, <2>2 DEF OnToken
<1>5. ASSUME NEW u \in Threads, Serve(u)
      PROVE  req'[t] = req[t] \/ req'[t].pc \notin OnToken
  <2>1. \/ Finish(u)
        \/ \E pc \in {"count", "insert"} : req' = [req EXCEPT ![u].pc = pc, ![u].since = clock]
    BY <1>5 DEF Serve, SubmitPrune, SubmitCount, SubmitInsert, CompleteCommit, HeartbeatCommit,
                SearchPrune, UnsuspendCommit
  <2> QED
    BY <1>1, <1>3, <2>1
<1> QED
  BY <1>4, <1>5 DEF Next, Suspend, Restart, Tick, Idle, OnToken

\* What a step of the directory does to one challenge.
LEMMA ChallengeEffect ==
  ASSUME TypeOK, Effect, NEW c \in ChallengeIds
  PROVE  \/ challenges'[c] = challenges[c]
         \/ /\ challenges[c].state = "fresh"
            /\ challenges'[c].state = "pending"
            /\ challenges'[c].created <= clock
         \/ /\ challenges[c].state = "pending"
            /\ \/ challenges'[c].state = "evicted"
               \/ challenges'[c].state = "used" /\ Completing(c)
            /\ challenges'[c].fingerprint = challenges[c].fingerprint
            /\ challenges'[c].created = challenges[c].created
            /\ challenges'[c].expires = challenges[c].expires
<1>0. challenges \in [ChallengeIds -> ChallengeRow]
  BY DEF TypeOK
<1>1. ASSUME NEW d \in ChallengeIds, NEW fp \in Agents, NEW now \in Nat, now <= clock,
             challenges[d].state = "fresh", InsertChallenge(d, fp, now)
      PROVE  \/ challenges'[c] = challenges[c]
             \/ /\ challenges[c].state = "fresh"
                /\ challenges'[c].state = "pending"
                /\ challenges'[c].created <= clock
             \/ /\ challenges[c].state = "pending"
                /\ challenges'[c].state = "evicted"
                /\ challenges'[c].fingerprint = challenges[c].fingerprint
                /\ challenges'[c].created = challenges[c].created
                /\ challenges'[c].expires = challenges[c].expires
  <2> DEFINE row == [state |-> "pending", fingerprint |-> fp,
                     created |-> now, expires |-> now + ChallengeTTL]
  <2>1. row.state = "pending" /\ row.created <= clock
    BY <1>1
  <2> HIDE DEF row
  <2>2. CASE challenges' = [challenges EXCEPT ![d] = row]
    BY <1>0, <1>1, <2>1, <2>2
  <2>3. ASSUME NEW victim \in OldestUnused,
               challenges' = [challenges EXCEPT ![victim].state = "evicted", ![d] = row]
        PROVE  \/ challenges'[c] = challenges[c]
               \/ c = d /\ challenges'[c] = row
               \/ /\ challenges[c].state = "pending"
                  /\ challenges'[c].state = "evicted"
                  /\ challenges'[c].fingerprint = challenges[c].fingerprint
                  /\ challenges'[c].created = challenges[c].created
                  /\ challenges'[c].expires = challenges[c].expires
    <3>1. victim \in ChallengeIds /\ challenges[victim].state = "pending"
      BY DEF OldestUnused, Unused
    <3> QED
      BY <1>0, <1>1, <2>3, <3>1 DEF ChallengeRow
  <2> QED
    BY <1>1, <2>1, <2>2, <2>3 DEF InsertChallenge, row
<1>2. ASSUME NEW d \in ChallengeIds, NEW fp \in Agents, Completing(d), Registered(d, fp)
      PROVE  \/ challenges'[c] = challenges[c]
             \/ /\ challenges[c].state = "pending"
                /\ challenges'[c].state = "used" /\ Completing(c)
                /\ challenges'[c].fingerprint = challenges[c].fingerprint
                /\ challenges'[c].created = challenges[c].created
                /\ challenges'[c].expires = challenges[c].expires
  BY <1>0, <1>2 DEF Registered, StillUnused, ChallengeRow
<1> QED
  BY <1>1, <1>2 DEF Effect, Quiet

\* A step of the directory issues at most one challenge.
LEMMA IssuedEffect ==
  ASSUME TypeOK, Effect
  PROVE  theIssued' = theIssued \/ \E c \in ChallengeIds : theIssued' = theIssued \cup {c}
<1>1. ASSUME NEW c \in ChallengeIds, NEW fp \in Agents, NEW now \in Nat,
             challenges[c].state = "fresh", InsertChallenge(c, fp, now)
      PROVE  theIssued' = theIssued \cup {c}
  BY <1>1, TicketIssued
<1>2. ASSUME NEW c \in ChallengeIds, NEW fp \in Agents,
             challenges[c].fingerprint = fp, Registered(c, fp)
      PROVE  theIssued' = theIssued
  BY <1>2, TicketRedeemed
<1>3. ASSUME UNCHANGED challenges
      PROVE  theIssued' = theIssued
  BY <1>3, SameTickets
<1> HIDE DEF theIssued
<1> QED
  BY <1>1, <1>2, <1>3 DEF Effect, Quiet

LEMMA ClockEffect ==
  ASSUME TypeOK, Effect
  PROVE  clock \in Nat /\ clock' \in Nat /\ clock <= clock'
BY DEF TypeOK, Effect, Quiet

\* A step of the directory changes a manifest exactly when it lists an agent, and then
\* to what the challenge that it uses up carries; what a challenge carries stays.
LEMMA ManifestEffect ==
  ASSUME DomainBase, DirectoryStep
  PROVE  /\ \E es \in Seq(LogEntry) :
              /\ log' = log \o es
              /\ \/ ListsNobody(es) /\ UNCHANGED manifest
                 \/ \E c \in ChallengeIds, fp \in Agents :
                      /\ ListsOne(es, c, fp)
                      /\ manifest' = [manifest EXCEPT ![fp] = carries[c]]
         /\ \A c \in ChallengeIds :
              challenges[c].state # "fresh" => carries'[c] = carries[c]
<1>1. TypeOK /\ Reserved /\ KindsOK /\ manifest \in [Agents -> Hosts \cup {NoHost}]
  BY DEF DomainBase, DomainTypeOK
<1>2. Effect
  BY <1>1, StepEffect DEF DirectoryStep
<1>3. PICK es \in Seq(LogEntry) :
        /\ log' = log \o es
        /\ ListsNobody(es) \/ \E c \in ChallengeIds, fp \in Agents : ListsOne(es, c, fp)
  BY <1>1, <1>2, ListingEffect
<1> DEFINE By(c, fp) == Redeemed(c) /\ challenges[c].fingerprint = fp
           one(fp) == CHOOSE c \in ChallengeIds : By(c, fp)
<1>4. \A fp \in Agents : (\E c \in ChallengeIds : By(c, fp)) => one(fp) \in ChallengeIds /\ By(one(fp), fp)
  <2> HIDE DEF By
  <2> QED
    OBVIOUS
<1>5. manifest' = [fp \in Agents |-> IF \E c \in ChallengeIds : By(c, fp)
                                     THEN carries[one(fp)] ELSE manifest[fp]]
  BY DEF DirectoryStep, ManifestListed
<1>6. ASSUME ListsNobody(es) PROVE UNCHANGED manifest
  <2>1. \A c \in ChallengeIds : ~Redeemed(c)
    BY <1>6 DEF ListsNobody, Redeemed
  <2> HIDE DEF one
  <2>2. \A fp \in Agents : manifest'[fp] = manifest[fp]
    BY <1>5, <2>1
  <2>3. DOMAIN manifest' = Agents /\ manifest' = [fp \in Agents |-> manifest'[fp]]
    BY <1>5
  <2> QED
    BY <1>1, <2>2, <2>3
<1>7. ASSUME NEW c \in ChallengeIds, NEW fp \in Agents, ListsOne(es, c, fp)
      PROVE  manifest' = [manifest EXCEPT ![fp] = carries[c]]
  <2>1. /\ challenges' = [challenges EXCEPT ![c].state = "used"]
        /\ challenges[c].state = "pending"
        /\ challenges[c].fingerprint = fp
        /\ kind[c] = "endpoint"
    BY <1>1, <1>7 DEF ListsOne, Registered, StillUnused, Completing, KindsOK
  <2>2. \A d \in ChallengeIds : Redeemed(d) <=> d = c
    BY <1>1, <2>1 DEF Redeemed, TypeOK, ChallengeRow
  <2>3. \A a \in Agents : (\E d \in ChallengeIds : By(d, a)) <=> a = fp
    BY <2>1, <2>2
  <2>4. one(fp) = c
    <3>1. one(fp) \in ChallengeIds /\ By(one(fp), fp)
      BY <1>4, <2>3
    <3> HIDE DEF one
    <3> QED
      BY <2>2, <3>1
  <2> HIDE DEF one, By
  <2>5. \A a \in Agents : manifest'[a] = IF a = fp THEN carries[c] ELSE manifest[a]
    BY <1>5, <2>3, <2>4
  <2>6. DOMAIN manifest' = Agents /\ manifest' = [a \in Agents |-> manifest'[a]]
    BY <1>5
  <2> QED
    BY <1>1, <2>5, <2>6
<1>8. \A c \in ChallengeIds : challenges[c].state # "fresh" => carries'[c] = carries[c]
  <2>1. PICK host \in Hosts :
          carries' = [c \in ChallengeIds |-> IF Issued(c) THEN host ELSE carries[c]]
    BY DEF DirectoryStep
  <2> QED
    BY <2>1 DEF Issued
<1> QED
  BY <1>3, <1>6, <1>7, <1>8

-----------------------------------------------------------------------------
(* The base, kept by a step of the directory.                              *)

LEMMA BaseDirectoryStep ==
  ASSUME DomainBase, DirectoryStep
  PROVE  DomainBase'
<1>1. /\ TypeOK /\ Reserved /\ KindsOK /\ ColumnsOK /\ CarriesOK
      /\ IsFiniteSet(theIssued)
  BY DomainTypeParts DEF DomainBase
<1>2. Next /\ UNCHANGED <<kind, verifications>>
  BY DEF DirectoryStep
<1>3. TypeOK' /\ Reserved' /\ Effect
  BY <1>1, <1>2, StepType, StepEffect
<1>4. \A c \in ChallengeIds :
        /\ challenges'[c].state = "fresh" => challenges[c].state = "fresh"
        /\ challenges[c].state # "fresh" =>
             challenges'[c].fingerprint = challenges[c].fingerprint
  BY <1>1, <1>3, ChallengeEffect
<1>5. clock \in Nat /\ clock' \in Nat /\ clock <= clock'
  BY <1>1, <1>3, ClockEffect
<1>6. IsFiniteSet(theIssued')
  <2>1. \A c : IsFiniteSet(theIssued \cup {c})
    BY <1>1, FS_AddElement
  <2> HIDE DEF theIssued
  <2> QED
    BY <1>1, <1>3, <2>1, IssuedEffect
<1>7. ColumnsOK'
  <2>1. manifest' \in [Agents -> Hosts \cup {NoHost}]
    <3>1. PICK es \in Seq(LogEntry) :
            \/ ListsNobody(es) /\ UNCHANGED manifest
            \/ \E c \in ChallengeIds, fp \in Agents :
                 /\ ListsOne(es, c, fp)
                 /\ manifest' = [manifest EXCEPT ![fp] = carries[c]]
      BY ManifestEffect
    <3>2. ASSUME NEW c \in ChallengeIds, NEW fp \in Agents, ListsOne(es, c, fp)
          PROVE  carries[c] \in Hosts
      <4>1. challenges[c].state = "pending" /\ kind[c] = "endpoint"
        BY <1>1, <3>2 DEF ListsOne, Registered, StillUnused, Completing, KindsOK
      <4> QED
        BY <1>1, <4>1 DEF CarriesOK
    <3> QED
      BY <1>1, <3>1, <3>2 DEF ColumnsOK
  <2>2. held' \in [Threads -> Hosts \cup {NoHost}]
    BY <1>1 DEF DirectoryStep, ColumnsOK
  <2>3. \A row : row \in VerificationRec => row \in VerificationRec'
    BY <1>5 DEF VerificationRec
  <2>4. verifications' \in [ChallengeIds -> VerificationRec']
    BY <1>1, <1>2, <2>3 DEF ColumnsOK
  <2> QED
    BY <1>1, <1>2, <2>1, <2>2, <2>4 DEF ColumnsOK
<1>8. CarriesOK'
  <2>1. PICK host \in Hosts :
          carries' = [c \in ChallengeIds |-> IF Issued(c) THEN host ELSE carries[c]]
    BY DEF DirectoryStep
  <2>2. ASSUME NEW c \in ChallengeIds
        PROVE  carries'[c] \in IF challenges'[c].state = "fresh" THEN {{}}
                               ELSE IF kind'[c] = "domain" THEN Domains ELSE Hosts
    <3>1. CASE Issued(c)
      BY <1>1, <1>2, <2>1, <3>1 DEF Issued, KindsOK
    <3>2. CASE ~Issued(c)
      <4>1. carries'[c] = carries[c] /\ kind'[c] = kind[c]
        BY <1>2, <2>1, <3>2
      <4>2. challenges'[c].state = "fresh" <=> challenges[c].state = "fresh"
        BY <1>4, <3>2 DEF Issued
      <4> QED
        BY <1>1, <4>1, <4>2 DEF CarriesOK
    <3> QED
      BY <3>1, <3>2
  <2>3. carries' \in [ChallengeIds -> Hosts \cup Domains \cup {{}}]
    BY <1>1, <2>1 DEF CarriesOK
  <2> QED
    BY <2>2, <2>3 DEF CarriesOK
<1>9. KindsOK'
  <2>1. \A c \in ChallengeIds : challenges'[c].state = "fresh" => kind'[c] = "endpoint"
    BY <1>1, <1>2, <1>4 DEF KindsOK
  <2>2. ASSUME NEW t \in Threads, req'[t].pc = "complete"
        PROVE  kind'[req'[t].challenge] = "endpoint"
    <3>1. req'[t].challenge \in ChallengeIds
      BY <1>3, <2>2 DEF TypeOK, OnChallenge
    <3>2. kind'[req'[t].challenge] # "domain"
      BY <2>2 DEF DirectoryStep, ProvesNothing
    <3> QED
      BY <1>7, <3>1, <3>2 DEF ColumnsOK
  <2>3. ASSUME NEW t \in Threads, req'[t].pc \in {"token", "lookup", "confirm"}
        PROVE  /\ challenges'[req'[t].challenge].state # "fresh"
               /\ req'[t].pc \in {"lookup", "confirm"} =>
                    /\ kind'[req'[t].challenge] = "domain"
                    /\ challenges'[req'[t].challenge].fingerprint = req'[t].fingerprint
    <3>1. req'[t] = req[t]
      BY <1>1, <1>2, <2>3, OthersRequests DEF OnToken
    <3>2. req[t].challenge \in ChallengeIds
      BY <1>1, <2>3, <3>1 DEF TypeOK, OnChallenge
    <3>3. /\ challenges[req[t].challenge].state # "fresh"
          /\ req[t].pc \in {"lookup", "confirm"} =>
               /\ kind[req[t].challenge] = "domain"
               /\ challenges[req[t].challenge].fingerprint = req[t].fingerprint
      BY <1>1, <2>3, <3>1 DEF KindsOK
    <3> QED
      BY <1>2, <1>4, <3>1, <3>2, <3>3
  <2> QED
    BY <2>1, <2>2, <2>3 DEF KindsOK
<1> QED
  BY <1>3, <1>6, <1>7, <1>8, <1>9, DomainTypeParts, DomainTypePartsNext DEF DomainBase

-----------------------------------------------------------------------------
(* The base, kept by the steps of DomainVerification.                      *)

\* A request moves and the tables stay: it is enough to look at the requests.
LEMMA BaseQuiet ==
  ASSUME DomainBase, TokenQuiet, RequestOK', Reserved', KindsOK',
         held' \in [Threads -> Hosts \cup {NoHost}]
  PROVE  DomainBase'
<1>1. /\ TypeOK /\ ColumnsOK /\ CarriesOK /\ IsFiniteSet(theIssued)
      /\ UNCHANGED <<agents, challenges, log, clock, kind, verifications, manifest, carries>>
  BY DomainTypeParts DEF DomainBase, TokenQuiet
<1>2. TypeOK'
  BY <1>1, NextTypeParts DEF TypeOK, ChallengesOK
<1>3. ColumnsOK' /\ CarriesOK'
  BY <1>1 DEF ColumnsOK, CarriesOK, VerificationRec
<1>4. theIssued' = theIssued
  BY <1>1 DEF theIssued
<1> QED
  BY <1>1, <1>2, <1>3, <1>4, DomainTypePartsNext DEF DomainBase

\* A request that starts, and holds no new challenge unless it reserves it.
LEMMA BaseVerifyRead ==
  ASSUME DomainBase, NEW t \in Threads, NEW fp \in Agents, NEW c \in ChallengeIds,
         VerifyRead(t, fp, c)
  PROVE  DomainBase'
<1> DEFINE r == [pc |-> "verify", fingerprint |-> fp, challenge |-> c,
                 until |-> 0, since |-> clock]
<1>1. TypeOK /\ Reserved /\ KindsOK /\ ColumnsOK /\ TokenQuiet /\ UNCHANGED held
  BY DomainTypeParts DEF DomainBase, VerifyRead, TokenQuiet, l2vars
<1>2. r \in RequestRec /\ Start(t, r) /\ r.fingerprint \in Agents /\ r.challenge \in ChallengeIds
  BY <1>1 DEF TypeOK, RequestRec, OnAgent, OnChallenge, VerifyRead
<1>3. RequestOK'
  BY <1>1, <1>2, StartType
<1>4. /\ \A u \in Threads : (u # t => req'[u] = req[u]) /\ req[u].challenge # c
      /\ req'[t].pc = "verify" /\ req'[t].challenge = c
      /\ challenges[c].state = "fresh" /\ UNCHANGED <<challenges, kind>>
  BY <1>1 DEF VerifyRead, Start, TypeOK, TokenQuiet
<1>5. Reserved'
  BY <1>1, <1>4 DEF Reserved, Submitting
<1>6. KindsOK'
  BY <1>1, <1>4 DEF KindsOK
<1>7. held' \in [Threads -> Hosts \cup {NoHost}]
  BY <1>1 DEF ColumnsOK
<1> QED
  BY <1>1, <1>3, <1>5, <1>6, <1>7, BaseQuiet

LEMMA BaseConfirmRead ==
  ASSUME DomainBase, NEW t \in Threads, NEW fp \in Agents, NEW c \in ChallengeIds,
         ConfirmRead(t, fp, c)
  PROVE  DomainBase'
<1> DEFINE r == [pc |-> "token", fingerprint |-> fp, challenge |-> c,
                 until |-> 0, since |-> clock]
<1>1. TypeOK /\ Reserved /\ KindsOK /\ ColumnsOK /\ TokenQuiet
  BY DomainTypeParts DEF DomainBase, ConfirmRead, TokenQuiet
<1>2. r \in RequestRec /\ Start(t, r) /\ r.fingerprint \in Agents /\ r.challenge \in ChallengeIds
  BY <1>1 DEF TypeOK, RequestRec, OnAgent, OnChallenge, ConfirmRead
<1>3. RequestOK'
  BY <1>1, <1>2, StartType
<1>4. /\ \A u \in Threads : u # t => req'[u] = req[u]
      /\ req'[t].pc = "token" /\ req'[t].challenge = c
      /\ challenges[c].state # "fresh" /\ UNCHANGED <<challenges, kind>>
  BY <1>1 DEF ConfirmRead, Start, TypeOK, TokenQuiet
<1>5. Reserved'
  BY <1>1, <1>4 DEF Reserved, Submitting
<1>6. KindsOK'
  BY <1>1, <1>4 DEF KindsOK
<1>7. held' \in [Threads -> Hosts \cup {NoHost}]
  BY <1>1 DEF ColumnsOK, ConfirmRead
<1> QED
  BY <1>1, <1>3, <1>5, <1>6, <1>7, BaseQuiet

LEMMA BaseShowRead ==
  ASSUME DomainBase, NEW t \in Threads, NEW fp \in Agents, ShowRead(t, fp)
  PROVE  DomainBase'
<1> DEFINE r == [pc |-> "show", fingerprint |-> fp, challenge |-> NoChallenge,
                 until |-> 0, since |-> clock]
<1>1. TypeOK /\ Reserved /\ KindsOK /\ ColumnsOK /\ TokenQuiet
  BY DomainTypeParts DEF DomainBase, ShowRead, TokenQuiet
<1>2. r \in RequestRec /\ req' = [req EXCEPT ![t] = r]
      /\ r.fingerprint \in Agents /\ r.pc \notin OnChallenge
  BY <1>1 DEF TypeOK, RequestRec, OnAgent, OnChallenge, ShowRead
<1>3. RequestOK'
  BY <1>1, <1>2 DEF TypeOK, RequestOK
<1>4. /\ \A u \in Threads : u # t => req'[u] = req[u]
      /\ req'[t].pc = "show" /\ req'[t].challenge = NoChallenge
      /\ UNCHANGED <<challenges, kind>>
  BY <1>1 DEF ShowRead, TypeOK, TokenQuiet
<1>a. \A u \in Threads : req[u].pc \in Submitting => req[u].challenge # NoChallenge
  BY <1>1, ConstantsAssumption DEF TypeOK, OnChallenge, Submitting, ConstantsAssumption
<1>5. Reserved'
  BY <1>1, <1>4, <1>a DEF Reserved, Submitting
<1>6. KindsOK'
  BY <1>1, <1>4 DEF KindsOK
<1>7. held' \in [Threads -> Hosts \cup {NoHost}]
  BY <1>1 DEF ColumnsOK, ShowRead
<1> QED
  BY <1>1, <1>3, <1>5, <1>6, <1>7, BaseQuiet

\* A request that ends in the middle.
LEMMA BaseFinish ==
  ASSUME DomainBase, NEW t \in Threads, Finish(t), TokenQuiet,
         held' \in [Threads -> Hosts \cup {NoHost}]
  PROVE  DomainBase'
<1>1. TypeOK /\ Reserved /\ KindsOK /\ UNCHANGED <<challenges, kind>>
  BY DomainTypeParts DEF DomainBase, TokenQuiet
<1>2. RequestOK' /\ Reserved'
  BY <1>1, FinishType, ReservedFinish DEF ChallengesKept
<1>3. \A u \in Threads : req'[u] = req[u] \/ req'[u].pc = "idle"
  BY <1>1 DEF Finish, Idle, TypeOK
<1>4. KindsOK'
  BY <1>1, <1>3 DEF KindsOK
<1> QED
  BY <1>2, <1>4, BaseQuiet

\* A confirmation that goes on, about a token of its agent.
LEMMA BaseConfirmGoesOn ==
  ASSUME DomainBase, NEW t \in Threads, NEW pc, pc = "lookup" \/ pc = "confirm",
         req[t].pc \in {"token", "lookup"}, TokenQuiet,
         req' = [req EXCEPT ![t].pc = pc, ![t].since = clock],
         kind[req[t].challenge] = "domain",
         challenges[req[t].challenge].fingerprint = req[t].fingerprint,
         held' \in [Threads -> Hosts \cup {NoHost}]
  PROVE  DomainBase'
<1>1. TypeOK /\ Reserved /\ KindsOK /\ UNCHANGED <<challenges, kind>>
  BY DomainTypeParts DEF DomainBase, TokenQuiet
<1>2. RequestOK'
  BY <1>1, AdvanceType DEF OnChallenge
<1>3. /\ \A u \in Threads : u # t => req'[u] = req[u]
      /\ \A u \in Threads : req'[u].challenge = req[u].challenge
      /\ req'[t].pc = pc /\ req'[t].fingerprint = req[t].fingerprint
  BY <1>1 DEF TypeOK, RequestRec
<1>a. pc \notin Submitting \cup {"complete", "token"}
  BY DEF Submitting
<1>b. \A u \in Threads : req'[u].pc \in Submitting \cup {"complete", "token"} => req'[u] = req[u]
  BY <1>3, <1>a
<1>4. Reserved'
  <2>1. ASSUME NEW u \in Threads, req'[u].pc \in Submitting
        PROVE  /\ challenges'[req'[u].challenge].state = "fresh"
               /\ \A v \in Threads \ {u} : req'[v].challenge # req'[u].challenge
    <3>1. req'[u] = req[u]
      BY <1>b, <2>1
    <3>2. /\ challenges[req[u].challenge].state = "fresh"
          /\ \A v \in Threads \ {u} : req[v].challenge # req[u].challenge
      BY <1>1, <2>1, <3>1 DEF Reserved
    <3>3. \A v \in Threads : req'[v].challenge = req[v].challenge
      BY <1>3
    <3> QED
      BY <1>1, <3>1, <3>2, <3>3
  <2>2. ASSUME NEW u \in Threads, req'[u].pc = "complete"
        PROVE  /\ challenges'[req'[u].challenge].state # "fresh"
               /\ challenges'[req'[u].challenge].fingerprint = req'[u].fingerprint
    <3>1. req'[u] = req[u]
      BY <1>b, <2>2
    <3> QED
      BY <1>1, <2>2, <3>1 DEF Reserved
  <2> QED
    BY <2>1, <2>2 DEF Reserved
<1>5. KindsOK'
  <2>1. ASSUME NEW u \in Threads, u # t
        PROVE  /\ req'[u].pc = "complete" => kind'[req'[u].challenge] = "endpoint"
               /\ req'[u].pc \in {"token", "lookup", "confirm"} =>
                    challenges'[req'[u].challenge].state # "fresh"
               /\ req'[u].pc \in {"lookup", "confirm"} =>
                    /\ kind'[req'[u].challenge] = "domain"
                    /\ challenges'[req'[u].challenge].fingerprint = req'[u].fingerprint
    <3>1. req'[u] = req[u]
      BY <1>3, <2>1
    <3> QED
      BY <1>1, <3>1 DEF KindsOK
  <2>2. /\ req'[t].pc # "complete"
        /\ challenges'[req'[t].challenge].state # "fresh"
        /\ kind'[req'[t].challenge] = "domain"
        /\ challenges'[req'[t].challenge].fingerprint = req'[t].fingerprint
    BY <1>1, <1>3, <1>a DEF KindsOK
  <2>3. \A c \in ChallengeIds : challenges'[c].state = "fresh" => kind'[c] = "endpoint"
    BY <1>1 DEF KindsOK
  <2> QED
    BY <2>1, <2>2, <2>3 DEF KindsOK
<1> QED
  BY <1>2, <1>4, <1>5, BaseQuiet

\* What storing a token does to the tables.
RowStored(t, now, domain) ==
  /\ req[t].challenge \in ChallengeIds /\ req[t].fingerprint \in Agents
  /\ challenges[req[t].challenge].state = "fresh"
  /\ kind[req[t].challenge] = "endpoint"
  /\ challenges'[req[t].challenge] =
       [state |-> "pending", fingerprint |-> req[t].fingerprint,
        created |-> now, expires |-> now + TokenTTL]
  /\ kind'[req[t].challenge] = "domain" /\ carries'[req[t].challenge] = domain
  /\ \A d \in ChallengeIds : d # req[t].challenge =>
       challenges'[d] = challenges[d] /\ kind'[d] = kind[d] /\ carries'[d] = carries[d]

LEMMA TokenStoredRows ==
  ASSUME DomainBase, NEW t \in Threads, NEW now \in Nat, NEW domain \in Domains,
         now <= clock, TokenStored(t, now, domain)
  PROVE  RowStored(t, now, domain)
<1>1. TypeOK /\ Reserved /\ KindsOK /\ ColumnsOK /\ CarriesOK
  BY DomainTypeParts DEF DomainBase
<1>2. /\ req[t].challenge \in ChallengeIds /\ req[t].fingerprint \in Agents
      /\ challenges[req[t].challenge].state = "fresh"
  BY <1>1 DEF TokenStored, TypeOK, OnAgent, OnChallenge, Reserved, Submitting
<1> QED
  BY <1>1, <1>2 DEF RowStored, TokenStored, TypeOK, ColumnsOK, CarriesOK, KindsOK

LEMMA BaseTokenStored ==
  ASSUME DomainBase, NEW t \in Threads, NEW now \in Nat, NEW domain \in Domains,
         now <= clock, TokenStored(t, now, domain), Finish(t)
  PROVE  DomainBase'
<1> DEFINE c == req[t].challenge
           fp == req[t].fingerprint
           row == [state |-> "pending", fingerprint |-> fp,
                   created |-> now, expires |-> now + TokenTTL]
<1>1. /\ TypeOK /\ Reserved /\ KindsOK /\ ColumnsOK /\ CarriesOK
      /\ IsFiniteSet(theIssued)
  BY DomainTypeParts DEF DomainBase
<1>2. /\ c \in ChallengeIds /\ fp \in Agents
      /\ challenges[c].state = "fresh"
      /\ challenges'[c] = row /\ kind'[c] = "domain" /\ carries'[c] = domain
      /\ \A d \in ChallengeIds : d # c => /\ challenges'[d] = challenges[d]
                                          /\ kind'[d] = kind[d]
                                          /\ carries'[d] = carries[d]
  <2>1. RowStored(t, now, domain)
    BY TokenStoredRows
  <2> QED
    BY <2>1 DEF RowStored
<1>3. row \in ChallengeRow /\ row.fingerprint = fp /\ row.state = "pending"
  BY <1>2, DomainConstants DEF DomainConstants, ChallengeRow
<1>4. /\ challenges' = [challenges EXCEPT ![c] = row]
      /\ kind' = [kind EXCEPT ![c] = "domain"]
      /\ carries' = [carries EXCEPT ![c] = domain]
      /\ log' = Append(log, Entry("domain.verify_requested", fp, NoChallenge))
      /\ UNCHANGED <<agents, clock, verifications, manifest, held>>
      /\ req[t].pc = "verify"
  BY DEF TokenStored
<1> HIDE DEF row
<1>5. ChallengesOK'
  BY <1>1, <1>2, <1>3, <1>4 DEF TypeOK, ChallengesOK
<1>6. RequestOK'
  BY <1>1, FinishType
<1>7. log' \in Seq(LogEntry)
  <2>1. Entry("domain.verify_requested", fp, NoChallenge) \in LogEntry
    BY <1>1, <1>2, EntryType DEF Events
  <2> QED
    BY <1>1, <1>4, <2>1 DEF TypeOK
<1>8. TypeOK'
  BY <1>1, <1>4, <1>5, <1>6, <1>7, NextTypeParts DEF TypeOK
<1>9. ChallengesKept(t)
  BY <1>2, <1>3, <1>4 DEF ChallengesKept, Submitting
<1>10. Reserved'
  BY <1>1, <1>9, ReservedFinish
<1>11. ColumnsOK'
  BY <1>1, <1>4 DEF ColumnsOK, VerificationRec
<1>12. CarriesOK'
  <2>1. carries' \in [ChallengeIds -> Hosts \cup Domains \cup {{}}]
    BY <1>1, <1>4 DEF CarriesOK
  <2>2. ASSUME NEW d \in ChallengeIds
        PROVE  carries'[d] \in IF challenges'[d].state = "fresh" THEN {{}}
                               ELSE IF kind'[d] = "domain" THEN Domains ELSE Hosts
    <3>1. CASE d = c
      BY <1>2, <1>3, <3>1
    <3>2. CASE d # c
      BY <1>1, <1>2, <3>2 DEF CarriesOK
    <3> QED
      BY <3>1, <3>2
  <2> QED
    BY <2>1, <2>2 DEF CarriesOK
<1>13. KindsOK'
  <2>1. \A u \in Threads : req'[u] = req[u] \/ req'[u].pc = "idle"
    BY <1>1 DEF Finish, Idle, TypeOK
  <2>2. \A d \in ChallengeIds :
          /\ challenges'[d].state = "fresh" => d # c
          /\ challenges[d].state # "fresh" => d # c
    BY <1>2, <1>3
  <2>3. \A u \in Threads : req[u].pc \in {"complete", "token", "lookup", "confirm"} =>
          req[u].challenge \in ChallengeIds /\ challenges[req[u].challenge].state # "fresh"
    BY <1>1 DEF TypeOK, OnChallenge, KindsOK, Reserved
  <2> QED
    BY <1>1, <1>2, <2>1, <2>2, <2>3 DEF KindsOK
<1>14. IsFiniteSet(theIssued')
  <2>1. theIssued' = theIssued \cup {c}
    BY <1>2, <1>3 DEF theIssued
  <2> QED
    BY <1>1, <2>1, FS_AddElement
<1> QED
  BY <1>8, <1>10, <1>11, <1>12, <1>13, <1>14, DomainTypePartsNext DEF DomainBase

\* What taking a token in does to the tables.
RowTaken(t, now) ==
  /\ req[t].challenge \in ChallengeIds /\ req[t].fingerprint \in Agents
  /\ challenges[req[t].challenge].state = "pending"
  /\ kind[req[t].challenge] = "domain"
  /\ challenges[req[t].challenge].fingerprint = req[t].fingerprint
  /\ carries[req[t].challenge] \in Domains
  /\ challenges'[req[t].challenge].state = "used"
  /\ challenges'[req[t].challenge].fingerprint = req[t].fingerprint
  /\ challenges'[req[t].challenge].created = challenges[req[t].challenge].created
  /\ challenges'[req[t].challenge] \in ChallengeRow
  /\ verifications'[req[t].challenge] =
       [fingerprint |-> req[t].fingerprint, domain |-> carries[req[t].challenge],
        verified |-> now, expires |-> now + VerificationTTL]
  /\ \A d \in ChallengeIds : d # req[t].challenge =>
       challenges'[d] = challenges[d] /\ verifications'[d] = verifications[d]

LEMMA TokenTakenRows ==
  ASSUME DomainBase, NEW t \in Threads, NEW now \in Nat, now <= clock, TokenTaken(t, now)
  PROVE  RowTaken(t, now)
<1>1. TypeOK /\ Reserved /\ KindsOK /\ ColumnsOK /\ CarriesOK
  BY DomainTypeParts DEF DomainBase
<1>2. /\ req[t].challenge \in ChallengeIds /\ req[t].fingerprint \in Agents
      /\ kind[req[t].challenge] = "domain"
      /\ challenges[req[t].challenge].fingerprint = req[t].fingerprint
  BY <1>1 DEF TokenTaken, TypeOK, OnAgent, OnChallenge, KindsOK
<1>3. challenges[req[t].challenge].state = "pending"
  BY DEF TokenTaken, TokenConsumed, StillUnused
<1>4. carries[req[t].challenge] \in Domains
  BY <1>1, <1>2, <1>3 DEF CarriesOK
<1>5. /\ challenges' = [challenges EXCEPT ![req[t].challenge].state = "used"]
      /\ verifications' = [verifications EXCEPT ![req[t].challenge] =
            VerificationRow(req[t].fingerprint, carries[req[t].challenge], now)]
  BY DEF TokenTaken, TokenConsumed, TokenUsed
<1>6. /\ challenges'[req[t].challenge].state = "used"
      /\ challenges'[req[t].challenge].fingerprint = challenges[req[t].challenge].fingerprint
      /\ challenges'[req[t].challenge].created = challenges[req[t].challenge].created
      /\ challenges'[req[t].challenge] \in ChallengeRow
      /\ \A d \in ChallengeIds : d # req[t].challenge => challenges'[d] = challenges[d]
  BY <1>1, <1>2, <1>5 DEF TypeOK, ChallengeRow
<1>7. /\ verifications'[req[t].challenge] =
            VerificationRow(req[t].fingerprint, carries[req[t].challenge], now)
      /\ \A d \in ChallengeIds : d # req[t].challenge => verifications'[d] = verifications[d]
  BY <1>1, <1>2, <1>5 DEF ColumnsOK
<1> QED
  BY <1>2, <1>3, <1>4, <1>6, <1>7 DEF RowTaken, VerificationRow

LEMMA BaseTokenTaken ==
  ASSUME DomainBase, NEW t \in Threads, NEW now \in Nat, now <= clock,
         TokenTaken(t, now), Finish(t)
  PROVE  DomainBase'
<1> DEFINE c == req[t].challenge
           fp == req[t].fingerprint
           row == [fingerprint |-> fp, domain |-> carries[c],
                   verified |-> now, expires |-> now + VerificationTTL]
<1>1. /\ TypeOK /\ Reserved /\ KindsOK /\ ColumnsOK /\ CarriesOK
      /\ IsFiniteSet(theIssued)
  BY DomainTypeParts DEF DomainBase
<1>2. /\ c \in ChallengeIds /\ fp \in Agents
      /\ challenges[c].state = "pending" /\ challenges[c].fingerprint = fp
      /\ carries[c] \in Domains
      /\ challenges'[c].state = "used" /\ challenges'[c].fingerprint = fp
      /\ challenges'[c] \in ChallengeRow
      /\ verifications'[c] = row
      /\ \A d \in ChallengeIds : d # c => /\ challenges'[d] = challenges[d]
                                          /\ verifications'[d] = verifications[d]
  <2>1. RowTaken(t, now)
    BY TokenTakenRows
  <2> QED
    BY <2>1 DEF RowTaken
<1>3. /\ challenges' = [challenges EXCEPT ![c].state = "used"]
      /\ verifications' = [verifications EXCEPT ![c] = VerificationRow(fp, carries[c], now)]
      /\ log' = Append(log, Entry("domain.verified", fp, NoChallenge))
      /\ UNCHANGED <<agents, clock, kind, manifest, carries, held>>
      /\ req[t].pc = "confirm"
  BY DEF TokenTaken, TokenConsumed, TokenUsed
<1>4. row \in VerificationRec
  BY <1>1, <1>2, DomainConstants DEF DomainConstants, VerificationRec, TypeOK
<1> HIDE DEF row
<1>5. ChallengesOK'
  <2>1. challenges' \in [ChallengeIds -> ChallengeRow]
    BY <1>1, <1>2, <1>3 DEF TypeOK
  <2>2. \A d \in ChallengeIds : challenges'[d].state # "fresh" => challenges'[d].fingerprint \in Agents
    BY <1>1, <1>2 DEF TypeOK
  <2> QED
    BY <2>1, <2>2 DEF ChallengesOK
<1>6. RequestOK'
  BY <1>1, FinishType
<1>7. log' \in Seq(LogEntry)
  <2>1. Entry("domain.verified", fp, NoChallenge) \in LogEntry
    BY <1>1, <1>2, EntryType DEF Events
  <2> QED
    BY <1>1, <1>3, <2>1 DEF TypeOK
<1>8. TypeOK'
  BY <1>1, <1>3, <1>5, <1>6, <1>7, NextTypeParts DEF TypeOK
<1>9. \A d \in ChallengeIds :
        /\ challenges'[d].state = "fresh" <=> challenges[d].state = "fresh"
        /\ challenges'[d].fingerprint = challenges[d].fingerprint
  BY <1>2
<1>10. Reserved'
  BY <1>1, <1>9, ReservedFinish DEF ChallengesKept
<1>11. ColumnsOK'
  <2>1. verifications' \in [ChallengeIds -> VerificationRec]
    BY <1>1, <1>2, <1>3, <1>4 DEF ColumnsOK
  <2>2. VerificationRec' = VerificationRec
    BY <1>3 DEF VerificationRec
  <2> QED
    BY <1>1, <1>3, <2>1, <2>2 DEF ColumnsOK
<1>12. CarriesOK'
  BY <1>1, <1>3, <1>9 DEF CarriesOK
<1>13. KindsOK'
  <2>1. \A u \in Threads : req'[u] = req[u] \/ req'[u].pc = "idle"
    BY <1>1 DEF Finish, Idle, TypeOK
  <2>2. \A u \in Threads : req[u].pc \in {"complete", "token", "lookup", "confirm"} =>
          req[u].challenge \in ChallengeIds
    BY <1>1 DEF TypeOK, OnChallenge
  <2>3. kind' = kind
    BY <1>3
  <2> QED
    BY <1>1, <1>9, <2>1, <2>2, <2>3 DEF KindsOK
<1>14. theIssued' = theIssued
  BY <1>9 DEF theIssued
<1> QED
  BY <1>1, <1>8, <1>10, <1>11, <1>12, <1>13, <1>14, DomainTypePartsNext DEF DomainBase

\* Every step keeps the base.
LEMMA BaseStep == DomainBase /\ [DomainNext]_domainVars => DomainBase'
<1> SUFFICES ASSUME DomainBase, [DomainNext]_domainVars PROVE DomainBase'
  OBVIOUS
<1>0. TypeOK /\ Reserved /\ KindsOK /\ held \in [Threads -> Hosts \cup {NoHost}]
  BY DEF DomainBase, DomainTypeOK
<1>1. CASE DirectoryStep
  BY <1>1, BaseDirectoryStep
<1>2. ASSUME NEW t \in Threads, DomainRequest(t)
      PROVE  DomainBase'
  BY <1>2, BaseVerifyRead, BaseConfirmRead, BaseShowRead DEF DomainRequest
<1>3. ASSUME NEW t \in Threads, VerifyInsert(t)
      PROVE  DomainBase'
  <2>1. CASE TokenQuiet
    BY <1>0, <1>3, <2>1, BaseFinish DEF VerifyInsert
  <2>2. CASE ~TokenQuiet
    <3>1. PICK now \in ReadClock(t), domain \in Domains : TokenStored(t, now, domain)
      BY <1>3, <2>2 DEF VerifyInsert, TokenQuiet, TokenStored
    <3> QED
      BY <1>0, <1>3, <3>1, ReadClockType, BaseTokenStored DEF VerifyInsert
  <2> QED
    BY <2>1, <2>2
<1>4. ASSUME NEW t \in Threads, ConfirmToken(t)
      PROVE  DomainBase'
  <2>1. TokenQuiet /\ held' \in [Threads -> Hosts \cup {NoHost}] /\ req[t].pc = "token"
    BY <1>0, <1>4 DEF ConfirmToken, TokenQuiet
  <2>2. CASE Finish(t)
    BY <2>1, <2>2, BaseFinish
  <2>3. CASE /\ Confirmable(req[t].challenge, req[t].fingerprint)
             /\ req' = [req EXCEPT ![t].pc = "lookup", ![t].since = clock]
    BY <2>1, <2>3, BaseConfirmGoesOn DEF Confirmable
  <2> QED
    BY <1>4, <2>2, <2>3 DEF ConfirmToken
<1>5. ASSUME NEW t \in Threads, ConfirmLookup(t)
      PROVE  DomainBase'
  <2>1. TokenQuiet /\ held' \in [Threads -> Hosts \cup {NoHost}] /\ req[t].pc = "lookup"
    BY <1>0, <1>5 DEF ConfirmLookup, TokenQuiet, l2vars
  <2>2. CASE Finish(t)
    BY <2>1, <2>2, BaseFinish
  <2>3. CASE req' = [req EXCEPT ![t].pc = "confirm", ![t].since = clock]
    BY <1>0, <2>1, <2>3, BaseConfirmGoesOn DEF KindsOK
  <2> QED
    BY <1>5, <2>2, <2>3 DEF ConfirmLookup
<1>6. ASSUME NEW t \in Threads, ConfirmCommit(t)
      PROVE  DomainBase'
  <2>1. CASE TokenQuiet
    BY <1>0, <1>6, <2>1, BaseFinish DEF ConfirmCommit
  <2>2. CASE ~TokenQuiet
    <3>1. PICK now \in ReadClock(t) : TokenTaken(t, now)
      BY <1>6, <2>2 DEF ConfirmCommit, TokenQuiet, TokenTaken
    <3> QED
      BY <1>0, <1>6, <3>1, ReadClockType, BaseTokenTaken DEF ConfirmCommit
  <2> QED
    BY <2>1, <2>2
<1>8. ASSUME NEW t \in Threads, ShowVerifications(t)
      PROVE  DomainBase'
  BY <1>0, <1>8, BaseFinish DEF ShowVerifications, TokenQuiet
<1>7. CASE UNCHANGED domainVars
  <2>1. TokenQuiet /\ UNCHANGED <<req, held>>
    BY <1>7 DEF domainVars, vars, l2vars, TokenQuiet
  <2>2. RequestOK' /\ Reserved' /\ KindsOK'
    BY <1>0, <2>1 DEF TypeOK, RequestOK, Reserved, KindsOK, TokenQuiet
  <2> QED
    BY <1>0, <2>1, <2>2, BaseQuiet
<1> QED
  BY <1>1, <1>2, <1>3, <1>4, <1>5, <1>6, <1>7, <1>8 DEF DomainNext, DomainServe

LEMMA BaseInit == DomainInit => DomainBase
<1> SUFFICES ASSUME DomainInit PROVE DomainBase
  OBVIOUS
<1>1. TypeOK /\ Reserved
  BY InitType DEF DomainInit, Init, Reserved, Idle, Submitting
<1>2. ColumnsOK
  BY DEF DomainInit, Init, ColumnsOK, VerificationRec, NoVerification
<1>3. CarriesOK
  BY DEF DomainInit, Init, CarriesOK, NoChallengeRow
<1>4. KindsOK
  BY DEF DomainInit, Init, KindsOK, Idle
<1>5. theIssued = {}
  BY DEF DomainInit, Init, theIssued, NoChallengeRow
<1> QED
  BY <1>1, <1>2, <1>3, <1>4, <1>5, FS_EmptySet, DomainTypeParts DEF DomainBase

LEMMA BaseHolds == DomainSpec => []DomainBase
BY BaseInit, BaseStep, PTL DEF DomainSpec

\* Every state of the directory with its domain verifications is well formed: what the
\* handlers of the two share, as what they have of their own.
THEOREM DomainTypeCorrect == DomainSpec => []DomainTypeOK
<1>1. DomainBase => DomainTypeOK
  BY DEF DomainBase
<1> QED
  BY <1>1, BaseHolds, PTL

-----------------------------------------------------------------------------
(* Tokens and verifications.                                               *)

\* What a step of the directory does to a challenge, now that the kind of what a
\* completion redeems is known.
LEMMA EndpointEffect ==
  ASSUME DomainBase, DirectoryStep
  PROVE  /\ TypeOK /\ Effect
         /\ UNCHANGED <<kind, verifications>>
         /\ \A c \in ChallengeIds :
              /\ challenges[c].state # "fresh" =>
                   /\ challenges'[c].state # "fresh"
                   /\ challenges'[c].fingerprint = challenges[c].fingerprint
                   /\ challenges'[c].created = challenges[c].created
                   /\ challenges'[c].expires = challenges[c].expires
              /\ kind[c] = "domain" =>
                   /\ challenges'[c].state = "used" <=> challenges[c].state = "used"
                   /\ challenges'[c].state = "pending" => challenges[c].state = "pending"
<1>1. TypeOK /\ Reserved /\ KindsOK /\ UNCHANGED <<kind, verifications>>
  BY DEF DomainBase, DomainTypeOK, DirectoryStep
<1>2. Effect
  BY <1>1, StepEffect DEF DirectoryStep
<1>3. \A c \in ChallengeIds : Completing(c) => kind[c] = "endpoint"
  BY <1>1 DEF Completing, KindsOK
<1>4. \A c \in ChallengeIds : challenges[c].state = "fresh" => kind[c] = "endpoint"
  BY <1>1 DEF KindsOK
<1> QED
  BY <1>1, <1>2, <1>3, <1>4, ChallengeEffect

\* Store.confirm_domain_verification: a verification is on record exactly when a token
\* of the same agent was used up, whatever the directory does with the shared table.
THEOREM TokensAreForVerifications == DomainSpec => []TokenPerVerification
<1>1. DomainInit => TokenPerVerification
  BY DEF DomainInit, Init, TokenPerVerification, Verified, NoChallengeRow
<1>2. ASSUME DomainBase, TokenPerVerification, [DomainNext]_domainVars
      PROVE  TokenPerVerification'
  <2>0. /\ DomainBase /\ TypeOK /\ DomainEffect
        /\ verifications \in [ChallengeIds -> VerificationRec]
    BY <1>2, DomainStepEffect, DomainTypeParts DEF DomainBase, ColumnsOK
  <2>1. CASE DirectoryStep
    BY <1>2, <2>1, EndpointEffect DEF TokenPerVerification, Verified
  <2>2. CASE TokenQuiet
    BY <1>2, <2>2 DEF TokenQuiet, TokenPerVerification, Verified
  <2>3. ASSUME NEW t \in Threads, NEW now \in Nat, NEW domain \in Domains,
               now <= clock, TokenStored(t, now, domain)
        PROVE  TokenPerVerification'
    <3>1. UNCHANGED verifications
      BY <2>3 DEF TokenStored
    <3>2. /\ req[t].challenge \in ChallengeIds
          /\ challenges[req[t].challenge].state = "fresh"
          /\ challenges'[req[t].challenge].state = "pending"
          /\ kind[req[t].challenge] = "endpoint"
          /\ \A d \in ChallengeIds : d # req[t].challenge =>
               challenges'[d] = challenges[d] /\ kind'[d] = kind[d]
      <4>1. RowStored(t, now, domain)
        BY <2>0, <2>3, TokenStoredRows
      <4> QED
        BY <4>1 DEF RowStored
    <3>3. Verified' = Verified
      BY <3>1 DEF Verified
    <3>4. /\ \A c \in Verified : c # req[t].challenge
          /\ \A c \in ChallengeIds : kind'[c] = "domain" /\ challenges'[c].state = "used" =>
               c # req[t].challenge
      BY <1>2, <3>2 DEF TokenPerVerification, Verified
    <3> QED
      BY <1>2, <3>1, <3>2, <3>3, <3>4 DEF TokenPerVerification, Verified
  <2>4. ASSUME NEW t \in Threads, NEW now \in Nat, now <= clock, TokenTaken(t, now)
        PROVE  TokenPerVerification'
    <3> DEFINE c == req[t].challenge
    <3>1. /\ c \in ChallengeIds /\ kind[c] = "domain" /\ req[t].fingerprint \in Agents
          /\ challenges'[c].state = "used" /\ challenges'[c].fingerprint = req[t].fingerprint
          /\ verifications'[c].fingerprint = req[t].fingerprint
          /\ \A d \in ChallengeIds : d # c => /\ challenges'[d] = challenges[d]
                                              /\ verifications'[d] = verifications[d]
      <4>1. RowTaken(t, now)
        BY <2>0, <2>4, TokenTakenRows
      <4> QED
        BY <4>1 DEF RowTaken
    <3>2. verifications'[c] # NoVerification
      BY <3>1, ConstantsAssumption DEF ConstantsAssumption, NoVerification
    <3>3. UNCHANGED kind
      BY <2>4 DEF TokenTaken
    <3> HIDE DEF c
    <3> QED
      BY <1>2, <3>1, <3>2, <3>3 DEF TokenPerVerification, Verified
  <2> QED
    BY <2>0, <2>1, <2>2, <2>3, <2>4 DEF DomainEffect
<1> QED
  BY <1>1, <1>2, BaseHolds, PTL DEF DomainSpec

-----------------------------------------------------------------------------
(* The cap.                                                                *)

LEMMA PendingTokensFinite ==
  ASSUME DomainBase, NEW fp, NEW now
  PROVE  IsFiniteSet(PendingTokens(fp, now)) /\ IsFiniteSet(LastSecond(fp))
<1>1. PendingTokens(fp, now) \subseteq theIssued /\ LastSecond(fp) \subseteq theIssued
  BY DEF PendingTokens, PendingAt, Unused, theIssued, LastSecond
<1> QED
  BY <1>1, FS_Subset DEF DomainBase

\* What the cap counts at the clock, and what expires this second, it would have counted
\* at a time read before this second.
LEMMA PendingEarlier ==
  ASSUME TypeOK, NEW fp, NEW now \in Nat, now <= clock
  PROVE  /\ PendingTokens(fp, clock) \subseteq PendingTokens(fp, now)
         /\ now < clock => LastSecond(fp) \subseteq PendingTokens(fp, now)
BY DEF TypeOK, PendingTokens, PendingAt, Unused, ChallengeRow, LastSecond

\* A set under the cap stays under it when it shrinks.
LEMMA SmallerSet ==
  ASSUME NEW S, IsFiniteSet(S), NEW T, T \subseteq S, NEW n \in Nat, Cardinality(S) <= n
  PROVE  IsFiniteSet(T) /\ Cardinality(T) <= n
<1>1. IsFiniteSet(T) /\ Cardinality(T) <= Cardinality(S)
  BY FS_Subset
<1>2. Cardinality(T) \in Nat /\ Cardinality(S) \in Nat
  BY <1>1, FS_CardinalityType
<1> QED
  BY <1>1, <1>2

\* A set with room under the cap takes one more.
LEMMA OneMore ==
  ASSUME NEW S, IsFiniteSet(S), NEW c, NEW T, T \subseteq S \cup {c},
         NEW n \in Nat, Cardinality(S) < n
  PROVE  Cardinality(T) <= n
<1>1. /\ IsFiniteSet(S \cup {c})
      /\ Cardinality(S \cup {c}) = IF c \in S THEN Cardinality(S) ELSE Cardinality(S) + 1
  BY FS_AddElement
<1>2. Cardinality(S) \in Nat
  BY FS_CardinalityType
<1>3. Cardinality(S \cup {c}) <= n
  BY <1>1, <1>2
<1> QED
  BY <1>1, <1>3, SmallerSet

\* No step but the one that stores a token adds to the tokens an agent can confirm: some
\* are used or evicted, and time brings some to their last second and beyond it.
TokensLeft(fp) ==
  \/ /\ PendingTokens(fp, clock)' \subseteq PendingTokens(fp, clock)
     /\ LastSecond(fp)' \subseteq LastSecond(fp)
  \/ /\ PendingTokens(fp, clock)' \subseteq PendingTokens(fp, clock)
     /\ LastSecond(fp)' \subseteq PendingTokens(fp, clock)

LEMMA TokensOnlyLeave ==
  ASSUME DomainBase, NEW fp \in Agents,
         \/ DirectoryStep
         \/ TokenQuiet
         \/ \E t \in Threads, now \in Nat : now <= clock /\ TokenTaken(t, now)
  PROVE  TokensLeft(fp)
<1>0. /\ TypeOK /\ clock \in Nat
      /\ challenges \in [ChallengeIds -> ChallengeRow]
  BY DomainTypeParts DEF DomainBase, TypeOK
<1>1. CASE DirectoryStep
  <2>1. UNCHANGED kind /\ clock' \in Nat /\ clock <= clock'
    BY <1>1, EndpointEffect, ClockEffect
  <2>2. \A c \in ChallengeIds : challenges'[c].state = "pending" /\ kind[c] = "domain" =>
          /\ challenges[c].state = "pending"
          /\ challenges'[c].fingerprint = challenges[c].fingerprint
          /\ challenges'[c].expires = challenges[c].expires
          /\ challenges[c].expires \in Nat
    BY <1>0, <1>1, EndpointEffect DEF ChallengeRow
  <2>3. PendingTokens(fp, clock)' \subseteq PendingTokens(fp, clock)
    BY <1>0, <2>1, <2>2 DEF PendingTokens, PendingAt, Unused
  <2>4. CASE clock' = clock
    <3>1. LastSecond(fp)' \subseteq LastSecond(fp)
      BY <2>1, <2>2, <2>4 DEF LastSecond, Unused
    <3> QED
      BY <2>3, <3>1 DEF TokensLeft
  <2>5. CASE clock' # clock
    <3>1. LastSecond(fp)' \subseteq PendingTokens(fp, clock)
      BY <1>0, <2>1, <2>2, <2>5 DEF LastSecond, PendingTokens, PendingAt, Unused
    <3> QED
      BY <2>3, <3>1 DEF TokensLeft
  <2> QED
    BY <2>4, <2>5
<1>2. CASE TokenQuiet
  BY <1>2 DEF TokenQuiet, TokensLeft, PendingTokens, PendingAt, Unused, LastSecond
<1>3. ASSUME NEW t \in Threads, NEW now \in Nat, now <= clock, TokenTaken(t, now)
      PROVE  TokensLeft(fp)
  <2>1. /\ UNCHANGED <<clock, kind>>
        /\ req[t].challenge \in ChallengeIds /\ challenges'[req[t].challenge].state = "used"
        /\ \A d \in ChallengeIds : d # req[t].challenge => challenges'[d] = challenges[d]
    <3>1. RowTaken(t, now) /\ UNCHANGED <<clock, kind>>
      BY <1>3, TokenTakenRows DEF TokenTaken
    <3> QED
      BY <3>1 DEF RowTaken
  <2>2. PendingTokens(fp, clock)' \subseteq PendingTokens(fp, clock)
    BY <2>1 DEF PendingTokens, PendingAt, Unused
  <2>3. LastSecond(fp)' \subseteq LastSecond(fp)
    BY <2>1 DEF LastSecond, Unused
  <2> QED
    BY <2>2, <2>3 DEF TokensLeft
<1> QED
  BY <1>1, <1>2, <1>3

\* Store.insert_domain_challenge counts with a time that may be old: it then counts too
\* many tokens, never too few.  What expires this second it leaves out only when its time
\* is the present, and then the new token, which lasts, is not among those.
THEOREM TokensAreCapped == DomainSpec => []TokenCap
<1>0. MaxVerifications \in Nat /\ TokenTTL \in Nat /\ TokenTTL > 0
  BY DomainConstants DEF DomainConstants
<1>1. DomainInit => TokenCap
  <2>1. ASSUME DomainInit, NEW fp \in Agents
        PROVE  PendingTokens(fp, clock) = {} /\ LastSecond(fp) = {}
    BY <2>1 DEF DomainInit, Init, PendingTokens, PendingAt, Unused, NoChallengeRow, LastSecond
  <2>2. Cardinality({}) <= MaxVerifications
    BY <1>0, FS_EmptySet
  <2> QED
    BY <2>1, <2>2 DEF TokenCap
<1>2. ASSUME DomainBase, TokenCap, [DomainNext]_domainVars
      PROVE  TokenCap'
  <2>0. TypeOK /\ DomainEffect /\ clock \in Nat
    BY <1>2, DomainStepEffect DEF DomainBase, DomainTypeOK, TypeOK
  <2>1. SUFFICES ASSUME NEW fp \in Agents
                 PROVE  /\ Cardinality(PendingTokens(fp, clock)') <= MaxVerifications
                        /\ Cardinality(LastSecond(fp)') <= MaxVerifications
    BY DEF TokenCap
  <2> DEFINE P == PendingTokens(fp, clock)
             E == LastSecond(fp)
  <2>2. /\ IsFiniteSet(P) /\ Cardinality(P) <= MaxVerifications
        /\ IsFiniteSet(E) /\ Cardinality(E) <= MaxVerifications
    <3>1. IsFiniteSet(P) /\ IsFiniteSet(E)
      BY <1>2, PendingTokensFinite
    <3> QED
      BY <1>2, <3>1 DEF TokenCap
  <2>3. ASSUME TokensLeft(fp)
        PROVE  Cardinality(P') <= MaxVerifications /\ Cardinality(E') <= MaxVerifications
    <3>1. P' \subseteq P /\ (E' \subseteq E \/ E' \subseteq P)
      BY <2>3 DEF TokensLeft
    <3> HIDE DEF P, E
    <3> QED
      BY <1>0, <2>2, <3>1, SmallerSet
  <2>4. ASSUME NEW t \in Threads, NEW now \in Nat, NEW domain \in Domains,
               now <= clock, TokenStored(t, now, domain)
        PROVE  Cardinality(P') <= MaxVerifications /\ Cardinality(E') <= MaxVerifications
    <3> DEFINE c == req[t].challenge
               R == PendingTokens(fp, now)
    <3>1. /\ c \in ChallengeIds
          /\ challenges'[c].fingerprint = req[t].fingerprint
          /\ challenges'[c].expires = now + TokenTTL
          /\ \A d \in ChallengeIds : d # c => challenges'[d] = challenges[d] /\ kind'[d] = kind[d]
      <4>1. RowStored(t, now, domain)
        BY <1>2, <2>4, TokenStoredRows
      <4> QED
        BY <4>1 DEF RowStored
    <3>2. RoomForToken(req[t].fingerprint, now) /\ UNCHANGED clock
      BY <2>4 DEF TokenStored
    <3>3. P' \subseteq P \cup {c} /\ E' \subseteq E \cup {c}
      BY <3>1, <3>2 DEF PendingTokens, PendingAt, Unused, LastSecond
    <3>4. CASE req[t].fingerprint # fp
      <4>1. c \notin P' /\ c \notin E'
        BY <3>1, <3>4 DEF PendingTokens, LastSecond
      <4> HIDE DEF P, E, c
      <4>2. P' \subseteq P /\ E' \subseteq E
        BY <3>3, <4>1
      <4> QED
        BY <1>0, <2>2, <4>2, SmallerSet
    <3>5. CASE req[t].fingerprint = fp
      <4>1. IsFiniteSet(R) /\ Cardinality(R) < MaxVerifications
        BY <1>2, <3>2, <3>5, PendingTokensFinite DEF RoomForToken
      <4>2. P \subseteq R
        BY <2>0, <2>4, PendingEarlier
      <4>3. CASE now < clock
        <5>1. E \subseteq R
          BY <2>0, <2>4, <4>3, PendingEarlier
        <5> HIDE DEF P, E, R, c
        <5>2. P' \subseteq R \cup {c} /\ E' \subseteq R \cup {c}
          BY <3>3, <4>2, <5>1
        <5> QED
          BY <1>0, <4>1, <5>2, OneMore
      <4>4. CASE now = clock
        <5>1. c \notin E'
          BY <1>0, <2>0, <3>1, <3>2, <4>4 DEF LastSecond
        <5> HIDE DEF P, E, R, c
        <5>2. P' \subseteq R \cup {c} /\ E' \subseteq E
          BY <3>3, <4>2, <5>1
        <5>3. Cardinality(P') <= MaxVerifications
          BY <1>0, <4>1, <5>2, OneMore
        <5>4. Cardinality(E') <= MaxVerifications
          BY <1>0, <2>2, <5>2, SmallerSet
        <5> QED
          BY <5>3, <5>4
      <4> QED
        BY <2>0, <2>4, <4>3, <4>4
    <3> QED
      BY <3>4, <3>5
  <2> QED
    BY <1>2, <2>0, <2>3, <2>4, TokensOnlyLeave DEF DomainEffect
<1> QED
  BY <1>1, <1>2, BaseHolds, PTL DEF DomainSpec


-----------------------------------------------------------------------------
(* The log and the table of verifications.                                 *)

\* The entries that say that a domain of fp was verified, and the rows that do.
VerifiedEntries(fp) == {i \in DOMAIN log : log[i].event = "domain.verified" /\ log[i].fingerprint = fp}
VerifiedRows(fp) == {c \in Verified : verifications[c].fingerprint = fp}

LEMMA VerifiedFinite ==
  ASSUME DomainBase, TokenPerVerification, NEW fp
  PROVE  /\ IsFiniteSet(VerifiedEntries(fp))
         /\ IsFiniteSet(VerifiedRows(fp))
<1>1. log \in Seq(LogEntry)
  BY DEF DomainBase, DomainTypeOK, TypeOK
<1>2. Len(log) \in Nat /\ VerifiedEntries(fp) \subseteq 1..Len(log)
  BY <1>1 DEF VerifiedEntries
<1>3. VerifiedRows(fp) \subseteq theIssued
  BY DEF VerifiedRows, Verified, TokenPerVerification, theIssued
<1>4. IsFiniteSet(1..Len(log)) /\ IsFiniteSet(theIssued)
  BY <1>2, FS_Interval DEF DomainBase
<1>5. IsFiniteSet(VerifiedEntries(fp))
  BY <1>2, <1>4, FS_Subset
<1>6. IsFiniteSet(VerifiedRows(fp))
  BY <1>3, <1>4, FS_Subset
<1> QED
  BY <1>5, <1>6

\* An entry that is of another event or about another agent is not counted.
LEMMA EntryNotCounted ==
  ASSUME TypeOK, NEW es \in Seq(LogEntry), log' = log \o es, NEW fp,
         \A k \in 1..Len(es) : ~(es[k].event = "domain.verified" /\ es[k].fingerprint = fp)
  PROVE  VerifiedEntries(fp)' = VerifiedEntries(fp)
<1>1. /\ DOMAIN log' = 1..(Len(log) + Len(es)) /\ DOMAIN log = 1..Len(log)
      /\ \A i \in 1..Len(log) : log'[i] = log[i]
      /\ \A i \in 1..(Len(log) + Len(es)) : i > Len(log) =>
           ~(log'[i].event = "domain.verified" /\ log'[i].fingerprint = fp)
      /\ Len(log) \in Nat /\ Len(es) \in Nat
  BY Extension DEF TypeOK
<1> QED
  BY <1>1 DEF VerifiedEntries

LEMMA OneEntryAppended ==
  ASSUME TypeOK, NEW ev \in Events, NEW a \in Agents,
         log' = Append(log, Entry(ev, a, NoChallenge))
  PROVE  \E es \in Seq(LogEntry) :
           /\ log' = log \o es /\ Len(es) = 1
           /\ es[1].event = ev /\ es[1].fingerprint = a /\ es[1].ts = clock
<1> DEFINE e == Entry(ev, a, NoChallenge)
           es == <<e>>
<1>1. e \in LogEntry /\ log \in Seq(LogEntry)
  BY EntryType DEF TypeOK
<1>2. e.event = ev /\ e.fingerprint = a /\ e.ts = clock
  BY EntryFields
<1> HIDE DEF e
<1>3. es \in Seq(LogEntry) /\ Len(es) = 1 /\ es[1] = e /\ log' = log \o es
  BY <1>1 DEF e
<1> QED
  BY <1>2, <1>3

\* Store.confirm_domain_verification: one entry and one row at a time, in one transaction.
THEOREM VerificationsAreLoggedOnce == DomainSpec => []VerifiedOnce
<1>0. VerifiedOnce <=> \A fp \in Agents :
                         Cardinality(VerifiedEntries(fp)) = Cardinality(VerifiedRows(fp))
  BY DEF VerifiedOnce, VerifiedEntries, VerifiedRows
<1>1. DomainInit => VerifiedOnce
  <2>1. ASSUME DomainInit, NEW fp \in Agents
        PROVE  VerifiedEntries(fp) = {} /\ VerifiedRows(fp) = {}
    BY <2>1 DEF DomainInit, Init, VerifiedEntries, VerifiedRows, Verified, Genesis
  <2> QED
    BY <1>0, <2>1
<1>2. ASSUME DomainBase, TokenPerVerification, VerifiedOnce, [DomainNext]_domainVars
      PROVE  \A fp \in Agents :
               Cardinality(VerifiedEntries(fp)') = Cardinality(VerifiedRows(fp)')
  <2>0. TypeOK /\ DomainEffect
    BY <1>2, DomainStepEffect DEF DomainBase, DomainTypeOK
  <2>1. SUFFICES ASSUME NEW fp \in Agents
                 PROVE  Cardinality(VerifiedEntries(fp)') = Cardinality(VerifiedRows(fp)')
    OBVIOUS
  <2>2. Cardinality(VerifiedEntries(fp)) = Cardinality(VerifiedRows(fp))
    BY <1>0, <1>2
  <2>3. ASSUME UNCHANGED verifications
        PROVE  VerifiedRows(fp)' = VerifiedRows(fp)
    BY <2>3 DEF VerifiedRows, Verified
  <2>4. CASE DirectoryStep
    <3>1. PICK es \in Seq(LogEntry) : log' = log \o es /\ \A a \in Agents : AgentStep(es, a)
      BY <1>2, <2>0, <2>4, EndpointEffect, StepEntries
    <3>2. \A k \in 1..Len(es) : ~(es[k].event = "domain.verified" /\ es[k].fingerprint = fp)
      <4>1. AgentStep(es, fp)
        BY <3>1
      <4> QED
        BY <4>1 DEF AgentStep, OnlyAbout, RowChange, Told, Heartbeats
    <3> QED
      BY <1>2, <2>0, <2>2, <2>3, <2>4, <3>1, <3>2, EntryNotCounted, EndpointEffect
  <2>5. CASE TokenQuiet
    <3>1. VerifiedEntries(fp)' = VerifiedEntries(fp)
      BY <2>5 DEF TokenQuiet, VerifiedEntries
    <3> QED
      BY <2>2, <2>3, <2>5, <3>1 DEF TokenQuiet
  <2>6. ASSUME NEW t \in Threads, NEW now \in Nat, NEW domain \in Domains,
               now <= clock, TokenStored(t, now, domain)
        PROVE  Cardinality(VerifiedEntries(fp)') = Cardinality(VerifiedRows(fp)')
    <3>1. PICK es \in Seq(LogEntry) :
            log' = log \o es /\ Len(es) = 1 /\ es[1].event = "domain.verify_requested"
      <4>1. RowStored(t, now, domain)
        BY <1>2, <2>6, TokenStoredRows
      <4>2. req[t].fingerprint \in Agents
        BY <4>1 DEF RowStored
      <4>3. log' = Append(log, Entry("domain.verify_requested", req[t].fingerprint, NoChallenge))
        BY <2>6 DEF TokenStored
      <4>4. "domain.verify_requested" \in Events
        BY DEF Events
      <4> QED
        BY <2>0, <4>2, <4>3, <4>4, OneEntryAppended
    <3>2. VerifiedEntries(fp)' = VerifiedEntries(fp)
      <4>1. \A k \in 1..Len(es) : ~(es[k].event = "domain.verified" /\ es[k].fingerprint = fp)
        BY <3>1
      <4> QED
        BY <2>0, <3>1, <4>1, EntryNotCounted
    <3> QED
      BY <2>2, <2>3, <2>6, <3>2 DEF TokenStored
  <2>7. ASSUME NEW t \in Threads, NEW now \in Nat, now <= clock, TokenTaken(t, now)
        PROVE  Cardinality(VerifiedEntries(fp)') = Cardinality(VerifiedRows(fp)')
    <3> DEFINE c == req[t].challenge
               a == req[t].fingerprint
    <3>1. /\ c \in ChallengeIds /\ a \in Agents
          /\ challenges[c].state = "pending"
          /\ verifications'[c].fingerprint = a
          /\ \A d \in ChallengeIds : d # c => verifications'[d] = verifications[d]
      <4>1. RowTaken(t, now)
        BY <1>2, <2>7, TokenTakenRows
      <4> QED
        BY <4>1 DEF RowTaken
    <3>2. PICK es \in Seq(LogEntry) :
            log' = log \o es /\ Len(es) = 1 /\ es[1].event = "domain.verified"
              /\ es[1].fingerprint = a
      BY <2>0, <2>7, <3>1, OneEntryAppended DEF TokenTaken, TokenConsumed, Events
    <3>3. c \notin Verified
      BY <1>2, <3>1 DEF TokenPerVerification
    <3>4. verifications'[c] # NoVerification
      BY <3>1, ConstantsAssumption DEF ConstantsAssumption, NoVerification
    <3> HIDE DEF c, a
    <3>5. CASE a # fp
      <4>0. \A k \in 1..Len(es) : ~(es[k].event = "domain.verified" /\ es[k].fingerprint = fp)
        BY <3>2, <3>5
      <4>1. VerifiedEntries(fp)' = VerifiedEntries(fp)
        BY <2>0, <3>2, <4>0, EntryNotCounted
      <4>2. VerifiedRows(fp)' = VerifiedRows(fp)
        BY <3>1, <3>3, <3>5 DEF VerifiedRows, Verified
      <4> QED
        BY <2>2, <4>1, <4>2
    <3>6. CASE a = fp
      <4> DEFINE n == Len(log) + 1
      <4>1. /\ DOMAIN log' = 1..n /\ DOMAIN log = 1..Len(log) /\ Len(log) \in Nat
            /\ \A i \in 1..Len(log) : log'[i] = log[i]
            /\ log'[n] = es[1]
        <5>1. Len(es) = 1 /\ 1 \in 1..Len(es) /\ log \in Seq(LogEntry) /\ Len(log) \in Nat
          BY <2>0, <3>2 DEF TypeOK
        <5>2. /\ DOMAIN log' = 1..(Len(log) + Len(es))
              /\ \A i \in 1..Len(log) : log'[i] = log[i]
              /\ \A i \in 1..Len(es) : log'[Len(log) + i] = es[i]
          BY <3>2, <5>1, Extension
        <5> QED
          BY <5>1, <5>2
      <4>2. VerifiedEntries(fp)' = VerifiedEntries(fp) \cup {n} /\ n \notin VerifiedEntries(fp)
        BY <3>2, <3>6, <4>1 DEF VerifiedEntries
      <4>3. VerifiedRows(fp)' = VerifiedRows(fp) \cup {c} /\ c \notin VerifiedRows(fp)
        BY <3>1, <3>3, <3>4, <3>6 DEF VerifiedRows, Verified
      <4>4. IsFiniteSet(VerifiedEntries(fp)) /\ IsFiniteSet(VerifiedRows(fp))
        BY <1>2, VerifiedFinite
      <4>5. /\ Cardinality(VerifiedEntries(fp) \cup {n}) = Cardinality(VerifiedEntries(fp)) + 1
            /\ Cardinality(VerifiedRows(fp) \cup {c}) = Cardinality(VerifiedRows(fp)) + 1
        <5> HIDE DEF n
        <5> QED
          BY <4>2, <4>3, <4>4, FS_AddElement
      <4> QED
        BY <2>2, <4>2, <4>3, <4>5
    <3> QED
      BY <3>5, <3>6
  <2> QED
    BY <2>0, <2>4, <2>5, <2>6, <2>7 DEF DomainEffect
<1>3. DomainBase /\ TokenPerVerification /\ VerifiedOnce /\ [DomainNext]_domainVars => VerifiedOnce'
  BY <1>2 DEF VerifiedOnce, VerifiedEntries, VerifiedRows
<1> QED
  BY <1>1, <1>3, BaseHolds, TokensAreForVerifications, PTL DEF DomainSpec

-----------------------------------------------------------------------------
(* Listings, and the endpoints that they list.                             *)

\* A step lists one agent, by the challenge it redeems, or it lists nobody.
NobodyListed(es) ==
  /\ \A k \in 1..Len(es) : es[k].event \notin Listings
  /\ UNCHANGED manifest

OneListed(es, c, fp) ==
  /\ Len(es) = 1
  /\ es[1].event \in Listings
  /\ es[1].challenge = c
  /\ es[1].fingerprint = fp
  /\ es[1].ts = clock
  /\ manifest' = [manifest EXCEPT ![fp] = carries[c]]
  /\ challenges[c].state = "pending"

Listed(es) == NobodyListed(es) \/ \E c \in ChallengeIds, fp \in Agents : OneListed(es, c, fp)

\* What was issued stays issued, at its time, and carries what it carried.
IssuedKept ==
  \A c \in ChallengeIds : challenges[c].state # "fresh" =>
    /\ challenges'[c].state # "fresh"
    /\ challenges'[c].created = challenges[c].created
    /\ challenges'[c].fingerprint = challenges[c].fingerprint
    /\ carries'[c] = carries[c]

\* What every step does to the log and the manifests; a listing stays that of a
\* challenge used up.
LEMMA ListingStep ==
  ASSUME DomainBase, Consumed, [DomainNext]_domainVars
  PROVE  /\ \E es \in Seq(LogEntry) : log' = log \o es /\ Listed(es)
         /\ IssuedKept
         /\ Consumed'
         /\ clock' \in Nat /\ clock <= clock'
<1>0. /\ TypeOK /\ DomainEffect /\ log \in Seq(LogEntry) /\ clock \in Nat
      /\ challenges \in [ChallengeIds -> ChallengeRow]
      /\ carries \in [ChallengeIds -> Hosts \cup Domains \cup {{}}]
  <2>1. TypeOK /\ CarriesOK
    BY DomainTypeParts DEF DomainBase
  <2> QED
    BY <2>1, DomainStepEffect DEF TypeOK, CarriesOK
<1>b. clock' = clock => clock' \in Nat /\ clock <= clock'
  BY <1>0
<1>1. CASE DirectoryStep
  <2>1. /\ \E es \in Seq(LogEntry) :
             /\ log' = log \o es
             /\ \/ ListsNobody(es) /\ UNCHANGED manifest
                \/ \E c \in ChallengeIds, fp \in Agents :
                     /\ ListsOne(es, c, fp)
                     /\ manifest' = [manifest EXCEPT ![fp] = carries[c]]
        /\ \A c \in ChallengeIds : challenges[c].state # "fresh" => carries'[c] = carries[c]
    BY <1>1, ManifestEffect
  <2>2. \A es : ListsNobody(es) /\ UNCHANGED manifest => NobodyListed(es)
    BY DEF ListsNobody, NobodyListed
  <2>3. \A es, c, fp : /\ ListsOne(es, c, fp)
                       /\ manifest' = [manifest EXCEPT ![fp] = carries[c]]
                       => OneListed(es, c, fp)
    BY DEF ListsOne, OneListed, Registered, StillUnused
  <2>4. \E es \in Seq(LogEntry) : log' = log \o es /\ Listed(es)
    BY <2>1, <2>2, <2>3 DEF Listed
  <2>5. Effect /\ IssuedKept
    BY <1>1, <2>1, EndpointEffect DEF IssuedKept
  <2>6. Consumed'
    BY <1>0, <2>5, ConsumedStep
  <2> QED
    BY <1>0, <2>4, <2>5, <2>6, ClockEffect
<1>2. CASE TokenQuiet
  <2> DEFINE es == <<>>
  <2>1. es \in Seq(LogEntry) /\ Len(es) = 0 /\ log' = log \o es
    BY <1>0, <1>2 DEF TokenQuiet
  <2> HIDE DEF es
  <2>2. Listed(es)
    BY <1>2, <2>1 DEF Listed, NobodyListed, TokenQuiet
  <2>3. IssuedKept /\ Consumed'
    BY <1>2 DEF TokenQuiet, IssuedKept, Consumed, SingleUse
  <2>4. clock' = clock /\ \E new \in Seq(LogEntry) : log' = log \o new /\ Listed(new)
    BY <1>2, <2>1, <2>2 DEF TokenQuiet
  <2> QED
    BY <1>b, <2>3, <2>4
<1>a. ASSUME NEW ev \in Events, ev \notin Listings, NEW a \in Agents,
             log' = Append(log, Entry(ev, a, NoChallenge)), UNCHANGED manifest,
             \A d \in ChallengeIds :
               challenges[d].state = "used" => challenges'[d].state = "used"
      PROVE  (\E es \in Seq(LogEntry) : log' = log \o es /\ Listed(es)) /\ Consumed'
  <2>1. PICK es \in Seq(LogEntry) : log' = log \o es /\ Len(es) = 1 /\ es[1].event = ev
    BY <1>0, <1>a, OneEntryAppended
  <2>2. \A k \in 1..Len(es) : es[k].event \notin Listings
    BY <1>a, <2>1
  <2>3. Listed(es)
    BY <1>a, <2>2 DEF Listed, NobodyListed
  <2>4. Consumed'
    BY <1>0, <1>a, <2>1, <2>2, NoListing
  <2> QED
    BY <2>1, <2>3, <2>4
<1>3. ASSUME NEW t \in Threads, NEW now \in Nat, NEW domain \in Domains,
             now <= clock, TokenStored(t, now, domain)
      PROVE  /\ \E es \in Seq(LogEntry) : log' = log \o es /\ Listed(es)
             /\ IssuedKept /\ Consumed' /\ clock' \in Nat /\ clock <= clock'
  <2>1. RowStored(t, now, domain)
    BY <1>3, TokenStoredRows
  <2>2. /\ log' = Append(log, Entry("domain.verify_requested", req[t].fingerprint, NoChallenge))
        /\ UNCHANGED <<manifest, clock>>
    BY <1>3 DEF TokenStored
  <2>3. "domain.verify_requested" \in Events /\ "domain.verify_requested" \notin Listings
    BY DEF Events, Listings
  <2>4. /\ req[t].fingerprint \in Agents
        /\ \A d \in ChallengeIds : challenges[d].state # "fresh" =>
             challenges'[d] = challenges[d] /\ carries'[d] = carries[d]
    BY <2>1 DEF RowStored
  <2>5. /\ \A d \in ChallengeIds : challenges[d].state = "used" => challenges'[d].state = "used"
        /\ IssuedKept
    BY <2>4 DEF IssuedKept
  <2> QED
    BY <1>a, <1>b, <2>2, <2>3, <2>4, <2>5
<1>4. ASSUME NEW t \in Threads, NEW now \in Nat, now <= clock, TokenTaken(t, now)
      PROVE  /\ \E es \in Seq(LogEntry) : log' = log \o es /\ Listed(es)
             /\ IssuedKept /\ Consumed' /\ clock' \in Nat /\ clock <= clock'
  <2>1. RowTaken(t, now)
    BY <1>4, TokenTakenRows
  <2>2. /\ log' = Append(log, Entry("domain.verified", req[t].fingerprint, NoChallenge))
        /\ UNCHANGED <<manifest, clock, carries>>
    BY <1>4 DEF TokenTaken, TokenConsumed
  <2>3. "domain.verified" \in Events /\ "domain.verified" \notin Listings
    BY DEF Events, Listings
  <2>4. /\ req[t].fingerprint \in Agents
        /\ \A d \in ChallengeIds :
             \/ challenges'[d] = challenges[d]
             \/ /\ challenges[d].state = "pending" /\ challenges'[d].state = "used"
                /\ challenges'[d].created = challenges[d].created
                /\ challenges'[d].fingerprint = challenges[d].fingerprint
    BY <2>1 DEF RowTaken
  <2>5. /\ \A d \in ChallengeIds : challenges[d].state = "used" => challenges'[d].state = "used"
        /\ IssuedKept
    BY <2>2, <2>4 DEF IssuedKept
  <2> QED
    BY <1>a, <1>b, <2>2, <2>3, <2>4, <2>5
<1> QED
  BY <1>0, <1>1, <1>2, <1>3, <1>4 DEF DomainEffect

\* A step that lists one agent, as the entries of the log say it.
LEMMA OneListing ==
  ASSUME TypeOK, NEW es \in Seq(LogEntry), log' = log \o es,
         NEW c \in ChallengeIds, NEW fp \in Agents, OneListed(es, c, fp)
  PROVE  \E i \in DOMAIN log' :
           /\ IsLast(i, fp, Listings)'
           /\ log'[i].challenge = c
<1>0. PICK k : k = 1
  OBVIOUS
<1>1. k \in 1..Len(es) /\ OnlyAbout(es, k, fp) /\ es[k].event \in Listings
  BY <1>0 DEF OneListed, OnlyAbout
<1>2. PICK i : i = Len(log) + k
  OBVIOUS
<1>3. i \in DOMAIN log' /\ IsLast(i, fp, Listings)' /\ log'[i] = es[k]
  BY <1>1, <1>2, LastNew
<1>4. log'[i].challenge = c
  BY <1>0, <1>3 DEF OneListed
<1> QED
  BY <1>3, <1>4

\* What the proofs about listings rest on, and what says the agent's endpoint.
LEMMA ConsumedHolds == DomainSpec => [](DomainBase /\ Consumed)
<1>1. DomainInit => Consumed
  BY DEF DomainInit, Init, Consumed, SingleUse, Genesis, Listings
<1>2. DomainBase /\ Consumed /\ [DomainNext]_domainVars => Consumed'
  BY ListingStep
<1> QED
  BY <1>1, <1>2, BaseHolds, PTL DEF DomainSpec

\* DomainVerification does not weaken what Directory promises of challenges: none lists
\* an agent twice, whatever tokens share its table.
THEOREM SingleUseAmongTokens == DomainSpec => []SingleUse
<1>1. Consumed => SingleUse
  BY DEF Consumed
<1> QED
  BY <1>1, ConsumedHolds, PTL

FollowsLog(fp) ==
  manifest[fp] # NoHost => \E i \in DOMAIN log : /\ IsLast(i, fp, Listings)
                                                /\ manifest[fp] = carries[log[i].challenge]

\* Store._upsert_agent_cur: whatever overtakes what between the issue of a challenge and
\* its use, an agent's manifest is that of the challenge of its last listing.
THEOREM ManifestIsLastListed == DomainSpec => []ManifestFollowsLog
<1>0. ManifestFollowsLog <=> \A fp \in Agents : FollowsLog(fp)
  BY DEF ManifestFollowsLog, FollowsLog
<1>1. DomainInit => ManifestFollowsLog
  BY DEF DomainInit, ManifestFollowsLog
<1>2. ASSUME DomainBase, Consumed, ManifestFollowsLog, [DomainNext]_domainVars
      PROVE  \A fp \in Agents : FollowsLog(fp)'
  <2>0. TypeOK /\ manifest \in [Agents -> Hosts \cup {NoHost}]
    BY <1>2 DEF DomainBase, DomainTypeOK
  <2>1. /\ \E es \in Seq(LogEntry) : log' = log \o es /\ Listed(es)
        /\ IssuedKept
    BY <1>2, ListingStep
  <2>2. PICK es \in Seq(LogEntry) : log' = log \o es /\ Listed(es)
    BY <2>1
  <2>3. ASSUME NEW fp \in Agents, manifest'[fp] = manifest[fp],
               \A k \in 1..Len(es) : ~(es[k].fingerprint = fp /\ es[k].event \in Listings)
        PROVE  FollowsLog(fp)'
    <3>1. SUFFICES ASSUME manifest[fp] # NoHost
                   PROVE  \E i \in DOMAIN log' : /\ IsLast(i, fp, Listings)'
                                                /\ manifest'[fp] = carries'[log'[i].challenge]
      BY <2>3 DEF FollowsLog
    <3>2. PICK i \in DOMAIN log : /\ IsLast(i, fp, Listings)
                                 /\ manifest[fp] = carries[log[i].challenge]
      BY <1>0, <1>2, <3>1 DEF FollowsLog
    <3>3. i \in DOMAIN log' /\ IsLast(i, fp, Listings)' /\ log'[i] = log[i]
      <4>1. log' = log \o es /\ IsLast(i, fp, Listings)
        BY <2>2, <3>2
      <4>2. \A k \in 1..Len(es) : ~(es[k].fingerprint = fp /\ es[k].event \in Listings)
        BY <2>3
      <4> QED
        BY <2>0, <4>1, <4>2, LastKept
    <3>4. log[i].challenge \in ChallengeIds /\ challenges[log[i].challenge].state = "used"
      BY <1>2, <3>2 DEF Consumed, IsLast
    <3>5. carries'[log[i].challenge] = carries[log[i].challenge]
      BY <2>1, <3>4 DEF IssuedKept
    <3> QED
      BY <2>3, <3>2, <3>3, <3>5
  <2>4. CASE NobodyListed(es)
    BY <2>3, <2>4 DEF NobodyListed
  <2>5. ASSUME NEW c \in ChallengeIds, NEW a \in Agents, OneListed(es, c, a), NEW fp \in Agents
        PROVE  FollowsLog(fp)'
    <3>1. CASE fp = a
      <4>1. PICK i \in DOMAIN log' : IsLast(i, a, Listings)' /\ log'[i].challenge = c
        BY <2>0, <2>2, <2>5, OneListing
      <4>2. manifest'[a] = carries[c] /\ carries'[c] = carries[c]
        BY <2>0, <2>1, <2>5 DEF OneListed, IssuedKept
      <4> QED
        BY <3>1, <4>1, <4>2 DEF FollowsLog
    <3>2. CASE fp # a
      <4>1. manifest'[fp] = manifest[fp]
        BY <2>0, <2>5, <3>2 DEF OneListed
      <4>2. \A k \in 1..Len(es) : ~(es[k].fingerprint = fp /\ es[k].event \in Listings)
        BY <2>5, <3>2 DEF OneListed
      <4> QED
        BY <2>3, <4>1, <4>2
    <3> QED
      BY <3>1, <3>2
  <2> QED
    BY <2>2, <2>4, <2>5 DEF Listed
<1>3. DomainBase /\ Consumed /\ ManifestFollowsLog /\ [DomainNext]_domainVars
        => ManifestFollowsLog'
  BY <1>2 DEF ManifestFollowsLog, FollowsLog
<1> QED
  BY <1>1, <1>3, ConsumedHolds, PTL DEF DomainSpec

-----------------------------------------------------------------------------
(* The endpoint during a confirmation, and during an answer.               *)

\* fp was listed under one of hosts at since, or after that.
ListedSince(fp, hosts, since) ==
  \E i \in DOMAIN log :
    /\ ListedUnder(i, fp, hosts)
    /\ \A j \in DOMAIN log : /\ j > i
                            /\ log[j].event \in Listings
                            /\ log[j].fingerprint = fp
                            => log[j].ts >= since

\* The same of the state after the step, for an agent and a time of the state before.
ListedSinceNext(fp, hosts, since) ==
  \E i \in DOMAIN log' :
    /\ /\ log'[i].event \in Listings
       /\ log'[i].fingerprint = fp
       /\ carries'[log'[i].challenge] \in hosts
    /\ \A j \in DOMAIN log' : /\ j > i
                             /\ log'[j].event \in Listings
                             /\ log'[j].fingerprint = fp
                             => log'[j].ts >= since

\* A request carries on what it has read: a confirmation of the manifest before the
\* token is read and of the domain after that, an answer of the manifest.
ConfirmationOK(t) ==
  /\ req[t].pc = "token" /\ held[t] # NoHost =>
       ListedSince(req[t].fingerprint, {held[t]}, challenges[req[t].challenge].created)
  /\ req[t].pc \in {"lookup", "confirm"} =>
       ListedSince(req[t].fingerprint, carries[req[t].challenge],
                   challenges[req[t].challenge].created)
  /\ req[t].pc = "show" /\ held[t] # NoHost =>
       ListedSince(req[t].fingerprint, {held[t]}, req[t].since)

RowUnderEndpoint(c) ==
  c \in Verified =>
    ListedSince(verifications[c].fingerprint, verifications[c].domain, challenges[c].created)

EndpointSeen ==
  /\ \A c \in ChallengeIds : challenges[c].created <= clock
  /\ \A t \in Threads : req[t].since <= clock
  /\ \A t \in Threads : ConfirmationOK(t)
  /\ \A c \in ChallengeIds : RowUnderEndpoint(c)

\* What was so at a time that has passed stays so: later listings are dated later.
LEMMA ListedSinceKept ==
  ASSUME DomainBase, Consumed, [DomainNext]_domainVars,
         NEW fp, NEW hosts, NEW since \in Nat, since <= clock,
         ListedSince(fp, hosts, since)
  PROVE  ListedSinceNext(fp, hosts, since)
<1>0. log \in Seq(LogEntry) /\ clock \in Nat
  BY DEF DomainBase, DomainTypeOK, TypeOK
<1>1. (\E es \in Seq(LogEntry) : log' = log \o es /\ Listed(es)) /\ IssuedKept
  BY ListingStep
<1>2. PICK es \in Seq(LogEntry) : log' = log \o es /\ Listed(es)
  BY <1>1
<1>3. /\ DOMAIN log' = 1..(Len(log) + Len(es)) /\ DOMAIN log = 1..Len(log)
      /\ \A j \in 1..Len(log) : log'[j] = log[j]
      /\ \A j \in 1..(Len(log) + Len(es)) : j > Len(log) =>
           j - Len(log) \in 1..Len(es) /\ log'[j] = es[j - Len(log)]
      /\ Len(log) \in Nat /\ Len(es) \in Nat
  BY <1>0, <1>2, Extension
<1>4. \A k \in 1..Len(es) : es[k].event \in Listings => es[k].ts = clock
  BY <1>2 DEF Listed, NobodyListed, OneListed
<1>5. PICK i \in DOMAIN log :
        /\ ListedUnder(i, fp, hosts)
        /\ \A j \in DOMAIN log : /\ j > i
                                /\ log[j].event \in Listings
                                /\ log[j].fingerprint = fp
                                => log[j].ts >= since
  BY DEF ListedSince
<1>6. i \in DOMAIN log' /\ log'[i] = log[i]
  BY <1>3
<1>7. /\ log'[i].event \in Listings
      /\ log'[i].fingerprint = fp
      /\ carries'[log'[i].challenge] \in hosts
  <2>1. log[i].challenge \in ChallengeIds /\ challenges[log[i].challenge].state = "used"
    BY <1>5 DEF ListedUnder, Consumed
  <2>2. carries'[log[i].challenge] = carries[log[i].challenge]
    BY <1>1, <2>1 DEF IssuedKept
  <2> QED
    BY <1>5, <1>6, <2>2 DEF ListedUnder
<1>8. ASSUME NEW j \in DOMAIN log', j > i, log'[j].event \in Listings, log'[j].fingerprint = fp
      PROVE  log'[j].ts >= since
  <2>1. CASE j \in DOMAIN log
    BY <1>3, <1>5, <1>8, <2>1
  <2>2. CASE j \notin DOMAIN log
    <3>1. j > Len(log) /\ j \in 1..(Len(log) + Len(es))
      BY <1>3, <2>2
    <3>2. log'[j].ts = clock
      BY <1>3, <1>4, <1>8, <3>1
    <3> QED
      BY <1>0, <3>2
  <2> QED
    BY <2>1, <2>2
<1> QED
  BY <1>6, <1>7, <1>8 DEF ListedSinceNext

\* How a request comes to be in the middle of a confirmation, or of an answer.
Reads(t) ==
  \E fp \in Agents, c \in ChallengeIds :
    ConfirmRead(t, fp, c) /\ req'[t].fingerprint = fp /\ req'[t].challenge = c

ReadsToShow(t) == \E fp \in Agents : ShowRead(t, fp) /\ req'[t].fingerprint = fp

GoesToLook(t) ==
  /\ req[t].pc = "token" /\ req'[t].pc = "lookup"
  /\ Confirmable(req[t].challenge, req[t].fingerprint)
  /\ held[t] \in carries[req[t].challenge]

ComesBack(t) == req[t].pc = "lookup" /\ req'[t].pc = "confirm"

SameRequest(t) ==
  req'[t].fingerprint = req[t].fingerprint /\ req'[t].challenge = req[t].challenge

LEMMA ConfirmationStep ==
  ASSUME DomainBase, [DomainNext]_domainVars, NEW t \in Threads
  PROVE  \/ req'[t] = req[t] /\ (req[t].pc \in {"token", "show"} => held'[t] = held[t])
         \/ req'[t].pc \notin {"token", "lookup", "confirm", "show"}
         \/ Reads(t) \/ ReadsToShow(t)
         \/ SameRequest(t) /\ (GoesToLook(t) \/ ComesBack(t))
<1> DEFINE Goal == \/ req'[t] = req[t] /\ (req[t].pc \in {"token", "show"} => held'[t] = held[t])
                   \/ req'[t].pc \notin {"token", "lookup", "confirm", "show"}
                   \/ Reads(t) \/ ReadsToShow(t)
                   \/ SameRequest(t) /\ (GoesToLook(t) \/ ComesBack(t))
<1> SUFFICES Goal
  OBVIOUS
<1>0. /\ TypeOK /\ req \in [Threads -> RequestRec] /\ held \in [Threads -> Hosts \cup {NoHost}]
  BY DEF DomainBase, DomainTypeOK, TypeOK
<1>1. CASE DirectoryStep
  <2>1. req'[t] = req[t] \/ req'[t].pc \notin OnToken
    BY <1>0, <1>1, OthersRequests DEF DirectoryStep
  <2>2. held'[t] = IF req'[t].pc \in {"token", "show"} THEN held[t] ELSE NoHost
    BY <1>1 DEF DirectoryStep
  <2> QED
    BY <2>1, <2>2 DEF OnToken
<1>2. ASSUME NEW u \in Threads, NEW fp \in Agents, NEW c \in ChallengeIds, VerifyRead(u, fp, c)
      PROVE  Goal
  BY <1>0, <1>2 DEF VerifyRead, Start, l2vars
<1>3. ASSUME NEW u \in Threads, NEW fp \in Agents, NEW c \in ChallengeIds, ConfirmRead(u, fp, c)
      PROVE  Goal
  <2>1. CASE u = t
    <3>1. req'[t].fingerprint = fp /\ req'[t].challenge = c
      BY <1>0, <1>3, <2>1 DEF ConfirmRead, Start
    <3>2. Reads(t)
      BY <1>3, <2>1, <3>1 DEF Reads
    <3> QED
      BY <3>2
  <2>2. CASE u # t
    BY <1>0, <1>3, <2>2 DEF ConfirmRead, Start
  <2> QED
    BY <2>1, <2>2
<1>8. ASSUME NEW u \in Threads, NEW fp \in Agents, ShowRead(u, fp)
      PROVE  Goal
  <2>1. CASE u = t
    <3>1. req'[t].fingerprint = fp
      BY <1>0, <1>8, <2>1 DEF ShowRead
    <3> QED
      BY <1>8, <2>1, <3>1 DEF ReadsToShow
  <2>2. CASE u # t
    BY <1>0, <1>8, <2>2 DEF ShowRead
  <2> QED
    BY <2>1, <2>2
<1>a. ASSUME NEW u \in Threads, Finish(u), held'[t] = held[t] \/ t = u
      PROVE  Goal
  BY <1>0, <1>a DEF Finish, Idle
<1>4. ASSUME NEW u \in Threads, VerifyInsert(u) \/ ConfirmCommit(u)
      PROVE  Goal
  BY <1>4, <1>a DEF VerifyInsert, ConfirmCommit
<1>9. ASSUME NEW u \in Threads, ShowVerifications(u)
      PROVE  Goal
  BY <1>0, <1>9, <1>a DEF ShowVerifications
<1>5. ASSUME NEW u \in Threads, ConfirmToken(u)
      PROVE  Goal
  <2>1. held'[t] = held[t] \/ t = u
    BY <1>0, <1>5 DEF ConfirmToken
  <2>2. CASE Finish(u)
    BY <1>a, <2>1, <2>2
  <2>3. CASE ~Finish(u)
    <3>1. /\ req[u].pc = "token"
          /\ Confirmable(req[u].challenge, req[u].fingerprint)
          /\ held[u] \in carries[req[u].challenge]
          /\ req' = [req EXCEPT ![u].pc = "lookup", ![u].since = clock]
      BY <1>5, <2>3 DEF ConfirmToken, HostUnderDomain
    <3>2. /\ req'[u].pc = "lookup" /\ SameRequest(u)
          /\ \A v \in Threads : v # u => req'[v] = req[v]
      BY <1>0, <3>1 DEF RequestRec, SameRequest
    <3> QED
      BY <2>1, <3>1, <3>2 DEF GoesToLook
  <2> QED
    BY <2>2, <2>3
<1>6. ASSUME NEW u \in Threads, ConfirmLookup(u)
      PROVE  Goal
  <2>1. held' = held /\ req[u].pc = "lookup"
    BY <1>6 DEF ConfirmLookup, l2vars
  <2>2. CASE Finish(u)
    BY <1>a, <2>1, <2>2
  <2>3. CASE req' = [req EXCEPT ![u].pc = "confirm", ![u].since = clock]
    <3>1. /\ req'[u].pc = "confirm" /\ SameRequest(u)
          /\ \A v \in Threads : v # u => req'[v] = req[v]
      BY <1>0, <2>3 DEF RequestRec, SameRequest
    <3> QED
      BY <2>1, <3>1 DEF ComesBack
  <2> QED
    BY <1>6, <2>2, <2>3 DEF ConfirmLookup
<1>7. CASE UNCHANGED domainVars
  BY <1>7 DEF domainVars, vars, l2vars
<1> HIDE DEF Goal
<1> QED
  BY <1>1, <1>2, <1>3, <1>4, <1>5, <1>6, <1>7, <1>8, <1>9
     DEF DomainNext, DomainRequest, DomainServe

\* A step leaves a request alone, or its times are of this second, or it is over.
LEMMA RequestMoves ==
  ASSUME DomainBase, [DomainNext]_domainVars, NEW t \in Threads
  PROVE  req'[t] = req[t] \/ req'[t].since \in {0, clock}
<1> DEFINE Goal == req'[t] = req[t] \/ req'[t].since \in {0, clock}
<1> SUFFICES Goal
  OBVIOUS
<1>0. req \in [Threads -> RequestRec]
  BY DEF DomainBase, DomainTypeOK, TypeOK
<1>1. ASSUME NEW u \in Threads, Finish(u)
      PROVE  Goal
  BY <1>0, <1>1 DEF Finish, Idle
<1>2. ASSUME NEW u \in Threads, NEW pc, req' = [req EXCEPT ![u].pc = pc, ![u].since = clock]
      PROVE  Goal
  BY <1>0, <1>2 DEF RequestRec
<1>3. ASSUME NEW u \in Threads, Request(u)
      PROVE  Goal
  BY <1>0, <1>3 DEF Request, SubmitRead, HeartbeatRead, UnsuspendStart, CompleteRead,
                    SearchStart, Start
<1>4. ASSUME NEW u \in Threads, DomainRequest(u)
      PROVE  Goal
  BY <1>0, <1>4 DEF DomainRequest, VerifyRead, ConfirmRead, ShowRead, Start
<1>5. ASSUME NEW u \in Threads, Serve(u)
      PROVE  Goal
  <2>1. \/ Finish(u)
        \/ \E pc \in {"count", "insert"} : req' = [req EXCEPT ![u].pc = pc, ![u].since = clock]
    BY <1>5 DEF Serve, SubmitPrune, SubmitCount, SubmitInsert, CompleteCommit, HeartbeatCommit,
                SearchPrune, UnsuspendCommit
  <2> QED
    BY <1>1, <1>2, <2>1
<1>6. ASSUME NEW u \in Threads, DomainServe(u)
      PROVE  Goal
  <2>1. \/ Finish(u)
        \/ \E pc \in {"lookup", "confirm"} : req' = [req EXCEPT ![u].pc = pc, ![u].since = clock]
    BY <1>6 DEF DomainServe, VerifyInsert, ConfirmToken, ConfirmLookup, ConfirmCommit,
                ShowVerifications
  <2> QED
    BY <1>1, <1>2, <2>1
<1>7. CASE DirectoryStep
  BY <1>3, <1>5, <1>7 DEF DirectoryStep, Next, Suspend, Restart, Tick, Idle
<1>8. CASE UNCHANGED domainVars
  BY <1>8 DEF domainVars, vars
<1> HIDE DEF Goal
<1> QED
  BY <1>4, <1>6, <1>7, <1>8 DEF DomainNext

\* What the step does to the rows of verifications.
LEMMA VerifiedEffect ==
  ASSUME DomainBase, [DomainNext]_domainVars, NEW c \in ChallengeIds
  PROVE  \/ verifications'[c] = verifications[c]
         \/ \E t \in Threads :
              /\ req[t].pc = "confirm" /\ req[t].challenge = c
              /\ challenges[c].state = "pending"
              /\ verifications'[c].fingerprint = req[t].fingerprint
              /\ verifications'[c].domain = carries[c]
<1>1. DomainEffect
  BY DomainStepEffect DEF DomainBase, DomainTypeOK
<1>2. ASSUME NEW t \in Threads, NEW now \in Nat, now <= clock, TokenTaken(t, now)
      PROVE  \/ verifications'[c] = verifications[c]
             \/ /\ req[t].pc = "confirm" /\ req[t].challenge = c
                /\ challenges[c].state = "pending"
                /\ verifications'[c].fingerprint = req[t].fingerprint
                /\ verifications'[c].domain = carries[c]
  <2>1. RowTaken(t, now) /\ req[t].pc = "confirm"
    BY <1>2, TokenTakenRows DEF TokenTaken
  <2> QED
    BY <2>1 DEF RowTaken
<1> QED
  BY <1>1, <1>2 DEF DomainEffect, DirectoryStep, TokenQuiet, TokenStored

LEMMA EndpointSeenStep ==
  ASSUME DomainBase, Consumed, ManifestFollowsLog, TokenPerVerification, EndpointSeen,
         [DomainNext]_domainVars
  PROVE  EndpointSeen'
<1>0. /\ TypeOK /\ KindsOK /\ CarriesOK
      /\ challenges \in [ChallengeIds -> ChallengeRow] /\ clock \in Nat
      /\ \A c \in ChallengeIds : challenges[c].created \in Nat
  <2>1. TypeOK /\ KindsOK /\ CarriesOK
    BY DomainTypeParts DEF DomainBase
  <2> QED
    BY <2>1 DEF TypeOK, ChallengeRow
<1>1. IssuedKept /\ clock' \in Nat /\ clock <= clock'
  BY ListingStep
<1>a. ASSUME NEW fp, NEW hosts, NEW c \in ChallengeIds,
             ListedSince(fp, hosts, challenges[c].created), challenges[c].state # "fresh"
      PROVE  ListedSinceNext(fp, hosts, challenges'[c].created)
  <2>1. PICK since \in Nat : since = challenges[c].created /\ since = challenges'[c].created
    BY <1>0, <1>1, <1>a DEF IssuedKept
  <2>2. since <= clock /\ ListedSince(fp, hosts, since)
    BY <1>a, <2>1 DEF EndpointSeen
  <2>3. ListedSinceNext(fp, hosts, since)
    BY <2>2, ListedSinceKept
  <2> QED
    BY <2>1, <2>3
<1>2. ASSUME NEW c \in ChallengeIds PROVE challenges'[c].created <= clock'
  <2>1. \/ challenges'[c].created <= clock
        \/ challenges'[c].created = challenges[c].created
    <3>1. DomainEffect
      BY <1>0, DomainStepEffect
    <3>2. CASE DirectoryStep
      BY <3>2, <1>0, EndpointEffect, ChallengeEffect
    <3>3. CASE TokenQuiet
      BY <3>3 DEF TokenQuiet
    <3>4. ASSUME NEW t \in Threads, NEW now \in Nat, NEW domain \in Domains,
                 now <= clock, TokenStored(t, now, domain)
          PROVE  \/ challenges'[c].created <= clock
                 \/ challenges'[c].created = challenges[c].created
      <4>1. RowStored(t, now, domain)
        BY <3>4, TokenStoredRows
      <4> QED
        BY <3>4, <4>1 DEF RowStored
    <3>5. ASSUME NEW t \in Threads, NEW now \in Nat, now <= clock, TokenTaken(t, now)
          PROVE  challenges'[c].created = challenges[c].created
      <4>1. RowTaken(t, now)
        BY <3>5, TokenTakenRows
      <4> QED
        BY <4>1 DEF RowTaken
    <3> QED
      BY <3>1, <3>2, <3>3, <3>4, <3>5 DEF DomainEffect
  <2>2. challenges[c].created <= clock
    BY DEF EndpointSeen
  <2>3. TypeOK'
    BY BaseStep DEF DomainBase, DomainTypeOK
  <2>4. challenges'[c].created \in Nat
    BY <2>3 DEF TypeOK, ChallengeRow
  <2> QED
    BY <1>0, <1>1, <2>1, <2>2, <2>4
<1>3. ASSUME NEW t \in Threads PROVE ConfirmationOK(t)'
  <2>1. req[t].pc \in {"token", "lookup", "confirm"} =>
          /\ req[t].challenge \in ChallengeIds
          /\ challenges[req[t].challenge].state # "fresh"
          /\ carries'[req[t].challenge] = carries[req[t].challenge]
    BY <1>0, <1>1 DEF TypeOK, OnChallenge, KindsOK, IssuedKept
  <2>2. ConfirmationOK(t)
    BY DEF EndpointSeen
  <2>3. CASE req'[t] = req[t] /\ (req[t].pc \in {"token", "show"} => held'[t] = held[t])
    <3>1. ASSUME req[t].pc = "token", held[t] # NoHost
          PROVE  ListedSinceNext(req[t].fingerprint, {held[t]},
                             challenges'[req[t].challenge].created)
      BY <1>a, <2>1, <2>2, <3>1 DEF ConfirmationOK
    <3>2. ASSUME req[t].pc \in {"lookup", "confirm"}
          PROVE  ListedSinceNext(req[t].fingerprint, carries[req[t].challenge],
                             challenges'[req[t].challenge].created)
      BY <1>a, <2>1, <2>2, <3>2 DEF ConfirmationOK
    <3>3. ASSUME req[t].pc = "show", held[t] # NoHost
          PROVE  ListedSinceNext(req[t].fingerprint, {held[t]}, req[t].since)
      <4>1. req[t].since \in Nat /\ req[t].since <= clock
        BY <1>0 DEF EndpointSeen, TypeOK, RequestRec
      <4>2. ListedSince(req[t].fingerprint, {held[t]}, req[t].since)
        BY <2>2, <3>3 DEF ConfirmationOK
      <4> QED
        BY <4>1, <4>2, ListedSinceKept
    <3> QED
      BY <2>1, <2>3, <3>1, <3>2, <3>3
         DEF ConfirmationOK, ListedSince, ListedSinceNext, ListedUnder
  <2>4. CASE req'[t].pc \notin {"token", "lookup", "confirm", "show"}
    BY <2>4 DEF ConfirmationOK
  <2>r. ASSUME NEW fp \in Agents, NEW since, manifest[fp] # NoHost
        PROVE  ListedSince(fp, {manifest[fp]}, since)
    <3>1. PICK i \in DOMAIN log : /\ IsLast(i, fp, Listings)
                                 /\ manifest[fp] = carries[log[i].challenge]
      BY <2>r DEF ManifestFollowsLog
    <3>2. ListedUnder(i, fp, {manifest[fp]})
      BY <3>1 DEF ListedUnder, IsLast
    <3>3. \A j \in DOMAIN log :
            ~(j > i /\ log[j].event \in Listings /\ log[j].fingerprint = fp)
      <4>1. log \in Seq(LogEntry)
        BY <1>0 DEF TypeOK
      <4> QED
        BY <3>1, <4>1 DEF IsLast
    <3> QED
      BY <3>2, <3>3 DEF ListedSince
  <2>8. CASE ReadsToShow(t)
    <3>1. PICK fp \in Agents : ShowRead(t, fp) /\ req'[t].fingerprint = fp
      BY <2>8 DEF ReadsToShow
    <3>2. /\ req'[t].pc = "show" /\ req'[t].since = clock
          /\ held'[t] = manifest[fp]
          /\ UNCHANGED <<log, carries>>
      <4>1. TypeOK /\ held \in [Threads -> Hosts \cup {NoHost}]
        BY DEF DomainBase, DomainTypeOK
      <4> QED
        BY <3>1, <4>1 DEF ShowRead, TypeOK
    <3>3. manifest[fp] # NoHost => ListedSince(fp, {manifest[fp]}, clock)
      BY <2>r
    <3> QED
      BY <3>1, <3>2, <3>3 DEF ConfirmationOK, ListedSince, ListedUnder
  <2>5. CASE Reads(t)
    <3>1. PICK fp \in Agents, c \in ChallengeIds :
            ConfirmRead(t, fp, c) /\ req'[t].fingerprint = fp /\ req'[t].challenge = c
      BY <2>5 DEF Reads
    <3>2. /\ req'[t].pc = "token"
          /\ held'[t] = manifest[fp]
          /\ UNCHANGED <<log, challenges, carries>>
      <4>1. TypeOK /\ held \in [Threads -> Hosts \cup {NoHost}]
        BY DEF DomainBase, DomainTypeOK
      <4> QED
        BY <3>1, <4>1 DEF ConfirmRead, Start, TypeOK
    <3>3. ASSUME manifest[fp] # NoHost
          PROVE  ListedSince(fp, {manifest[fp]}, challenges[c].created)
      BY <2>r, <3>3
    <3> QED
      BY <3>1, <3>2, <3>3 DEF ConfirmationOK, ListedSince, ListedUnder
  <2>6. CASE SameRequest(t) /\ GoesToLook(t)
    <3>1. /\ req[t].pc = "token" /\ req'[t].pc = "lookup"
          /\ held[t] \in carries[req[t].challenge]
          /\ kind[req[t].challenge] = "domain"
      BY <2>6 DEF GoesToLook, Confirmable
    <3>2. held[t] # NoHost
      <4>1. carries[req[t].challenge] \in Domains
        BY <1>0, <2>1, <3>1 DEF CarriesOK
      <4> QED
        BY <3>1, <4>1, DomainConstants DEF DomainConstants
    <3>3. ListedSince(req[t].fingerprint, {held[t]}, challenges[req[t].challenge].created)
      BY <2>2, <3>1, <3>2 DEF ConfirmationOK
    <3>4. ListedSince(req[t].fingerprint, carries[req[t].challenge],
                      challenges[req[t].challenge].created)
      BY <3>1, <3>3 DEF ListedSince, ListedUnder
    <3>5. ListedSinceNext(req[t].fingerprint, carries[req[t].challenge],
                      challenges'[req[t].challenge].created)
      BY <1>a, <2>1, <3>1, <3>4
    <3> QED
      BY <2>1, <2>6, <3>1, <3>5
         DEF ConfirmationOK, SameRequest, ListedSince, ListedSinceNext, ListedUnder
  <2>7. CASE SameRequest(t) /\ ComesBack(t)
    <3>1. req[t].pc = "lookup" /\ req'[t].pc = "confirm"
      BY <2>7 DEF ComesBack
    <3>2. ListedSinceNext(req[t].fingerprint, carries[req[t].challenge],
                      challenges'[req[t].challenge].created)
      BY <1>a, <2>1, <2>2, <3>1 DEF ConfirmationOK
    <3> QED
      BY <2>1, <2>7, <3>1, <3>2
         DEF ConfirmationOK, SameRequest, ListedSince, ListedSinceNext, ListedUnder
  <2> QED
    BY <2>3, <2>4, <2>5, <2>6, <2>7, <2>8, ConfirmationStep
<1>5. ASSUME NEW t \in Threads PROVE req'[t].since <= clock'
  <2>1. req[t].since \in Nat /\ req[t].since <= clock
    BY <1>0 DEF TypeOK, RequestRec, EndpointSeen
  <2>2. req'[t] = req[t] \/ req'[t].since \in {0, clock}
    BY RequestMoves
  <2> QED
    BY <1>0, <1>1, <2>1, <2>2
<1>4. ASSUME NEW c \in ChallengeIds PROVE RowUnderEndpoint(c)'
  <2>1. CASE verifications'[c] = verifications[c]
    <3>1. CASE c \in Verified
      <4>1. /\ challenges[c].state # "fresh"
            /\ ListedSince(verifications[c].fingerprint, verifications[c].domain,
                           challenges[c].created)
        BY <3>1 DEF TokenPerVerification, EndpointSeen, RowUnderEndpoint
      <4>2. ListedSinceNext(verifications[c].fingerprint, verifications[c].domain,
                        challenges'[c].created)
        BY <1>a, <4>1
      <4> QED
        BY <2>1, <4>2 DEF RowUnderEndpoint, ListedSince, ListedSinceNext, ListedUnder
    <3>2. CASE c \notin Verified
      BY <2>1, <3>2 DEF RowUnderEndpoint, Verified
    <3> QED
      BY <3>1, <3>2
  <2>2. ASSUME NEW t \in Threads,
               req[t].pc = "confirm", req[t].challenge = c,
               challenges[c].state = "pending",
               verifications'[c].fingerprint = req[t].fingerprint,
               verifications'[c].domain = carries[c]
        PROVE  RowUnderEndpoint(c)'
    <3>1. ListedSince(req[t].fingerprint, carries[c], challenges[c].created)
      BY <2>2 DEF EndpointSeen, ConfirmationOK
    <3>2. ListedSinceNext(req[t].fingerprint, carries[c], challenges'[c].created)
      BY <1>a, <2>2, <3>1
    <3> QED
      BY <2>2, <3>2 DEF RowUnderEndpoint, ListedSince, ListedSinceNext, ListedUnder
  <2> QED
    BY <2>1, <2>2, VerifiedEffect
<1> QED
  BY <1>2, <1>3, <1>4, <1>5 DEF EndpointSeen

LEMMA EndpointSeenHolds == DomainSpec => []EndpointSeen
<1>1. DomainInit => EndpointSeen
  BY DEF DomainInit, Init, EndpointSeen, ConfirmationOK, RowUnderEndpoint, Verified, Idle,
         NoChallengeRow
<1>2. DomainBase /\ Consumed /\ ManifestFollowsLog /\ TokenPerVerification /\ EndpointSeen
        /\ [DomainNext]_domainVars => EndpointSeen'
  BY EndpointSeenStep
<1> QED
  BY <1>1, <1>2, ConsumedHolds, ManifestIsLastListed, TokensAreForVerifications, PTL
     DEF DomainSpec

\* DomainService.confirm: the endpoint is read before the lookup and the token used after
\* it; the agent may move meanwhile, but what is verified is a domain that its endpoint
\* was under at some moment since the token was made.
THEOREM VerifiedWhileListed == DomainSpec => []VerifiedUnderEndpoint
<1>1. EndpointSeen => VerifiedUnderEndpoint
  BY DEF EndpointSeen, RowUnderEndpoint, ListedSince, VerifiedUnderEndpoint, Verified
<1> QED
  BY <1>1, EndpointSeenHolds, PTL

\* get_agent_row, then primary_verification: the host is of the row that was read first,
\* the verifications are of a later section and are held against that host, so that the
\* domain an answer names is one the endpoint was under when the answer was begun.
THEOREM AnswersNameListedDomains == DomainSpec => []ShownDomainWasListed
<1>1. ASSUME DomainBase, EndpointSeen, NEW t \in Threads, req[t].pc = "show",
             NEW now, NEW c \in Primaries(req[t].fingerprint, held[t], now)
      PROVE  ListedSince(req[t].fingerprint, verifications[c].domain, req[t].since)
  <2>1. verifications \in [ChallengeIds -> VerificationRec]
    BY <1>1, DomainTypeParts DEF DomainBase, ColumnsOK
  <2>2. c \in ChallengeIds /\ held[t] \in verifications[c].domain
    BY <1>1 DEF Primaries, ActiveVerifications, Verified, HostUnderDomain
  <2>3. verifications[c].domain \in SUBSET Hosts
    BY <2>1, <2>2, DomainConstants DEF VerificationRec, DomainConstants
  <2>4. held[t] # NoHost
    BY <2>2, <2>3, DomainConstants DEF DomainConstants
  <2>5. ListedSince(req[t].fingerprint, {held[t]}, req[t].since)
    BY <1>1, <2>4 DEF EndpointSeen, ConfirmationOK
  <2> QED
    BY <2>2, <2>5 DEF ListedSince, ListedUnder
<1>2. DomainBase /\ EndpointSeen => ShownDomainWasListed
  BY <1>1 DEF ShownDomainWasListed, ListedSince
<1> QED
  BY <1>2, BaseHolds, EndpointSeenHolds, PTL

-----------------------------------------------------------------------------
(* The phone book, in the table that is shared with the tokens.            *)

\* Tickets are the endpoint challenges; theBook, theIssued and theOpen are all of them.
dIssued == {c \in ChallengeIds : Endpoint(c) /\ challenges[c].state # "fresh"}
dOpen == {<<c, challenges[c].fingerprint>> : c \in {d \in Unused : Endpoint(d)}}

\* The tickets of a state, of those of both kinds.
LEMMA EndpointTickets ==
  /\ dIssued = {c \in theIssued : kind[c] = "endpoint"}
  /\ dOpen = {x \in theOpen : kind[x[1]] = "endpoint"}
BY DEF dIssued, dOpen, theIssued, theOpen, Endpoint

LEMMA EndpointTicketsNext ==
  /\ dIssued' = {c \in theIssued' : kind'[c] = "endpoint"}
  /\ dOpen' = {x \in theOpen' : kind'[x[1]] = "endpoint"}
BY DEF dIssued, dOpen, theIssued, theOpen, Endpoint

\* A step of the directory, on the tickets of endpoint challenges.
LEMMA BookStep ==
  ASSUME DomainBase, DirectoryStep
  PROVE  [DomainBook!Next]_(DomainBook!vars)
<1> DEFINE Goal == [DomainBook!Next]_(DomainBook!vars)
<1> SUFFICES Goal
  OBVIOUS
<1>0. /\ TypeOK /\ Effect /\ UNCHANGED kind
      /\ agents \in [Agents -> AgentRow]
      /\ \A c \in ChallengeIds : challenges[c].state = "fresh" => kind[c] = "endpoint"
      /\ \A c \in ChallengeIds : Completing(c) => kind[c] = "endpoint"
  BY EndpointEffect DEF DomainBase, TypeOK, KindsOK, Completing
<1>v. /\ UNCHANGED <<theBook, dIssued, dOpen>> => UNCHANGED DomainBook!vars
      /\ DomainBook!Next => Goal
      /\ UNCHANGED DomainBook!vars => Goal
  BY DEF DomainBook!vars, theBook, dIssued, dOpen
<1> HIDE DEF Goal
<1>s. ASSUME UNCHANGED challenges
      PROVE  UNCHANGED <<dIssued, dOpen>>
  BY <1>0, <1>s DEF dIssued, dOpen, Unused, Endpoint
<1>1. CASE Quiet
  BY <1>1, <1>s, <1>v DEF Quiet, theBook
<1>2. ASSUME NEW now \in Nat, Prune(now), UNCHANGED challenges PROVE Goal
  <3>1. PICK S \in SUBSET Agents : S = Lapsed(now)
    BY DEF Lapsed
  <3>2. \A fp \in S : agents[fp].status = "listed"
    BY <3>1 DEF Lapsed
  <3>3. \A fp \in Agents :
          agents'[fp].status = IF fp \in S THEN "expired" ELSE agents[fp].status
    BY <1>0, <1>2, <3>1 DEF Prune, AgentRow
  <3>4. DomainBook!Lapse(S)
    BY <1>2, <3>2, <3>3, <1>s DEF DomainBook!Lapse, dIssued, dOpen
  <3> QED
    BY <1>v, <3>4 DEF DomainBook!Next
<1>3. ASSUME NEW c \in ChallengeIds, NEW fp \in Agents, NEW now \in Nat,
             challenges[c].state = "fresh", InsertChallenge(c, fp, now), UNCHANGED agents
      PROVE  Goal
  <2>1. /\ c \in ChallengeIds \ theIssued
        /\ theIssued' = theIssued \cup {c}
        /\ \E withdrawn \in SUBSET theOpen : theOpen' = (theOpen \ withdrawn) \cup {<<c, fp>>}
    BY <1>0, <1>3, TicketIssued
  <2>2. PICK withdrawn \in SUBSET theOpen : theOpen' = (theOpen \ withdrawn) \cup {<<c, fp>>}
    BY <2>1
  <2>3. kind[c] = "endpoint" /\ <<c, fp>>[1] = c
    BY <1>0, <1>3
  <2> DEFINE gone == withdrawn \cap dOpen
  <2>4. dIssued' = dIssued \cup {c} /\ c \in ChallengeIds \ dIssued
    BY <1>0, <2>1, <2>3, EndpointTickets, EndpointTicketsNext
  <2>5. gone \in SUBSET dOpen /\ dOpen' = (dOpen \ gone) \cup {<<c, fp>>}
    BY <1>0, <2>2, <2>3, EndpointTickets, EndpointTicketsNext
  <2>6. theBook' = theBook
    BY <1>3 DEF theBook
  <2>7. DomainBook!Issue(c, fp)
    BY <2>4, <2>5, <2>6 DEF DomainBook!Issue, dIssued, dOpen, theBook
  <2> QED
    BY <1>v, <2>7 DEF DomainBook!Next
<1>4. ASSUME NEW c \in ChallengeIds, NEW fp \in Agents,
             challenges[c].fingerprint = fp, Completing(c), Registered(c, fp)
      PROVE  Goal
  <2>1. /\ <<c, fp>> \in theOpen
        /\ theOpen' = theOpen \ {<<c, fp>>}
        /\ theIssued' = theIssued
        /\ theBook' = [theBook EXCEPT ![fp] = "listed"]
    BY <1>0, <1>4, TicketRedeemed
  <2>2. kind[c] = "endpoint" /\ <<c, fp>>[1] = c
    BY <1>0, <1>4
  <2>3. /\ <<c, fp>> \in dOpen
        /\ dOpen' = dOpen \ {<<c, fp>>}
        /\ dIssued' = dIssued
    BY <1>0, <2>1, <2>2, EndpointTickets, EndpointTicketsNext
  <2>4. DomainBook!Redeem(c, fp)
    BY <2>1, <2>3 DEF DomainBook!Redeem, dIssued, dOpen, theBook
  <2> QED
    BY <1>v, <2>4 DEF DomainBook!Next
<1>5. ASSUME NEW fp \in Agents, NEW ev \in Heartbeats, NEW now \in Nat,
             Renewed(fp, ev, now), UNCHANGED challenges
      PROVE  Goal
  <2>1. \A a \in Agents : agents'[a].status = agents[a].status
    BY <1>0, <1>5 DEF Renewed, AgentRow
  <2>2. theBook' = theBook
    BY <2>1 DEF theBook
  <2> QED
    BY <1>5, <1>s, <1>v, <2>2
<1>6. ASSUME NEW fp \in Agents, Suspended(fp), UNCHANGED challenges
      PROVE  Goal
  <2>1. \A a \in Agents :
          agents'[a].status = IF a = fp THEN "suspended" ELSE agents[a].status
    BY <1>0, <1>6 DEF Suspended, AgentRow
  <2>2. DomainBook!Suspend(fp)
    BY <1>6, <1>s, <2>1 DEF DomainBook!Suspend, Suspended, dIssued, dOpen
  <2> QED
    BY <1>v, <2>2 DEF DomainBook!Next
<1>7. ASSUME NEW fp \in Agents, NEW now \in Nat, Reinstated(fp, now), UNCHANGED challenges
      PROVE  Goal
  <2>1. \A a \in Agents :
          agents'[a].status = IF a = fp THEN "listed" ELSE agents[a].status
    BY <1>0, <1>7 DEF Reinstated, AgentRow
  <2>2. DomainBook!Reinstate(fp)
    BY <1>7, <1>s, <2>1 DEF DomainBook!Reinstate, Reinstated, IsSuspended, dIssued, dOpen
  <2> QED
    BY <1>v, <2>2 DEF DomainBook!Next
<1> QED
  BY <1>0, <1>1, <1>2, <1>3, <1>4, <1>5, <1>6, <1>7 DEF Effect

\* A token is no ticket: what is stored of it and what is verified by it leaves the
\* phone book as it was.
LEMMA TokensAreNoTickets ==
  ASSUME DomainBase, DomainEffect, ~DirectoryStep
  PROVE  UNCHANGED <<theBook, dIssued, dOpen>>
<1>1. CASE TokenQuiet
  BY <1>1 DEF TokenQuiet, theBook, dIssued, dOpen, Unused, Endpoint
<1>2. ASSUME NEW t \in Threads, NEW now \in Nat, NEW domain \in Domains,
             now <= clock, TokenStored(t, now, domain)
      PROVE  UNCHANGED <<theBook, dIssued, dOpen>>
  <2>1. RowStored(t, now, domain) /\ UNCHANGED agents
    BY <1>2, TokenStoredRows DEF TokenStored
  <2>2. \A d \in ChallengeIds :
          \/ challenges'[d] = challenges[d] /\ kind'[d] = kind[d]
          \/ challenges[d].state = "fresh" /\ kind'[d] = "domain"
    BY <2>1 DEF RowStored
  <2>3. dIssued' = dIssued
    BY <2>2 DEF dIssued, Endpoint
  <2>4. \A d \in ChallengeIds :
          /\ d \in Unused' /\ Endpoint(d)' <=> d \in Unused /\ Endpoint(d)
          /\ d \in Unused /\ Endpoint(d) => challenges'[d] = challenges[d]
    BY <2>2 DEF Unused, Endpoint
  <2>5. dOpen' = dOpen
    BY <2>4 DEF dOpen, Unused
  <2> QED
    BY <2>1, <2>3, <2>5 DEF theBook
<1>3. ASSUME NEW t \in Threads, NEW now \in Nat, now <= clock, TokenTaken(t, now)
      PROVE  UNCHANGED <<theBook, dIssued, dOpen>>
  <2>1. RowTaken(t, now) /\ UNCHANGED <<agents, kind>>
    BY <1>3, TokenTakenRows DEF TokenTaken
  <2>2. \A d \in ChallengeIds :
          \/ challenges'[d] = challenges[d]
          \/ kind[d] = "domain"
    BY <2>1 DEF RowTaken
  <2>3. dIssued' = dIssued
    BY <2>1, <2>2 DEF dIssued, Endpoint
  <2>4. \A d \in ChallengeIds :
          /\ d \in Unused' /\ Endpoint(d)' <=> d \in Unused /\ Endpoint(d)
          /\ d \in Unused /\ Endpoint(d) => challenges'[d] = challenges[d]
    BY <2>1, <2>2 DEF Unused, Endpoint
  <2>5. dOpen' = dOpen
    BY <2>4 DEF dOpen, Unused
  <2> QED
    BY <2>1, <2>3, <2>5 DEF theBook
<1> QED
  BY <1>1, <1>2, <1>3 DEF DomainEffect

\* The handlers of both components, in one table of challenges, keep the promises of the
\* phone book, whose tickets are the endpoint challenges.
THEOREM DomainImplementsPhoneBook == DomainSpec => StillImplementsPhoneBook
<1>1. DomainInit => DomainBook!Init
  BY DEF DomainInit, Init, DomainBook!Init, NoRow, NoChallengeRow, Unused, Endpoint
<1>2. ASSUME DomainBase, [DomainNext]_domainVars
      PROVE  [DomainBook!Next]_(DomainBook!vars)
  <2>1. DomainEffect
    BY <1>2, DomainStepEffect DEF DomainBase, DomainTypeOK
  <2>2. CASE DirectoryStep
    BY <1>2, <2>2, BookStep
  <2>3. CASE ~DirectoryStep
    <3>1. UNCHANGED <<theBook, dIssued, dOpen>>
      BY <1>2, <2>1, <2>3, TokensAreNoTickets
    <3>2. UNCHANGED DomainBook!vars
      BY <3>1 DEF DomainBook!vars, theBook, dIssued, dOpen
    <3> QED
      BY <3>2
  <2> QED
    BY <2>2, <2>3
<1> QED
  BY <1>1, <1>2, BaseHolds, PTL DEF DomainSpec, StillImplementsPhoneBook, DomainBook!Spec

-----------------------------------------------------------------------------
(* The directory's own promises.  Its specification is not implied: a token *)
(* takes rows and ids that Directory knows nothing of.  But what is written *)
(* is written in the same way (Writes), and the invariants rest on that.    *)

\* An entry that says nothing of a listing, with no row of agents changed.
LEMMA SilentWrite ==
  ASSUME TypeOK, NEW ev \in Events, NEW a \in Agents,
         ev \notin StatusEvents \cup Renewals,
         log' = Append(log, Entry(ev, a, NoChallenge)), UNCHANGED agents
  PROVE  Writes
<1>1. PICK es \in Seq(LogEntry) :
        /\ log' = log \o es /\ Len(es) = 1
        /\ es[1].event = ev /\ es[1].fingerprint = a /\ es[1].ts = clock
  BY OneEntryAppended
<1>2. \A k \in 1..Len(es) : es[k].ts = clock
  BY <1>1
<1>3. \A fp \in Agents : RowStep(es, fp)
  BY <1>1 DEF RowStep
<1> QED
  BY <1>1, <1>2, <1>3 DEF Writes

LEMMA DomainWrites ==
  ASSUME DomainBase, [DomainNext]_domainVars
  PROVE  /\ TypeOK /\ Writes
         /\ clock' \in Nat /\ clock' >= clock
<1>0. TypeOK /\ DomainEffect /\ clock \in Nat /\ log \in Seq(LogEntry)
  BY DomainStepEffect DEF DomainBase, DomainTypeOK, TypeOK
<1>1. CASE DirectoryStep
  <2>1. Effect
    BY <1>1, EndpointEffect
  <2> QED
    BY <1>0, <2>1, EffectWrites, ClockEffect
<1>2. CASE TokenQuiet
  <2> DEFINE es == <<>>
  <2>1. es \in Seq(LogEntry) /\ Len(es) = 0 /\ log' = log \o es
    BY <1>0, <1>2 DEF TokenQuiet
  <2> HIDE DEF es
  <2>2. \A fp \in Agents : RowStep(es, fp)
    BY <1>2, <2>1 DEF RowStep, TokenQuiet
  <2>3. \A k \in 1..Len(es) : es[k].ts = clock
    BY <2>1
  <2>4. Writes
    BY <2>1, <2>2, <2>3 DEF Writes
  <2> QED
    BY <1>0, <1>2, <2>4 DEF TokenQuiet
<1>3. ASSUME NEW t \in Threads, NEW now \in Nat, NEW domain \in Domains,
             now <= clock, TokenStored(t, now, domain)
      PROVE  Writes /\ UNCHANGED clock
  <2>1. req[t].fingerprint \in Agents
    BY <1>3, TokenStoredRows DEF RowStored
  <2>2. /\ "domain.verify_requested" \in Events
        /\ "domain.verify_requested" \notin StatusEvents \cup Renewals
    BY DEF Events, StatusEvents, Renewals, Listings
  <2> QED
    BY <1>0, <1>3, <2>1, <2>2, SilentWrite DEF TokenStored
<1>4. ASSUME NEW t \in Threads, NEW now \in Nat, now <= clock, TokenTaken(t, now)
      PROVE  Writes /\ UNCHANGED clock
  <2>1. req[t].fingerprint \in Agents
    BY <1>4, TokenTakenRows DEF RowTaken
  <2>2. /\ "domain.verified" \in Events
        /\ "domain.verified" \notin StatusEvents \cup Renewals
    BY DEF Events, StatusEvents, Renewals, Listings
  <2> QED
    BY <1>0, <1>4, <2>1, <2>2, SilentWrite DEF TokenTaken, TokenConsumed
<1> QED
  BY <1>0, <1>1, <1>2, <1>3, <1>4 DEF DomainEffect

\* store.py: with tokens in the table and confirmations in flight, the log still tells
\* the status, the tenure and the last renewal of every agent, in time order.
THEOREM LogTellsAmongTokens ==
  DomainSpec => [](StatusMatchesLog /\ TenureMatchesLog /\ ExpiryBackedByLog /\ LogInTimeOrder)
<1>1. DomainInit => StatusMatchesLog /\ TenureMatchesLog /\ ExpiryBackedByLog
  BY DEF DomainInit, Init, StatusMatchesLog, StatusTold, TenureMatchesLog, TenureTold,
         ExpiryBackedByLog, ExpiryTold, Genesis, NoRow, StatusEvents, Listings
<1>2. DomainInit => InOrder
  BY DEF DomainInit, Init, InOrder, LogInTimeOrder, Genesis
<1>3. DomainBase /\ StatusMatchesLog /\ [DomainNext]_domainVars => StatusMatchesLog'
  BY DomainWrites, StatusStep
<1>4. DomainBase /\ TenureMatchesLog /\ [DomainNext]_domainVars => TenureMatchesLog'
  BY DomainWrites, TenureStep
<1>5. DomainBase /\ ExpiryBackedByLog /\ [DomainNext]_domainVars => ExpiryBackedByLog'
  BY DomainWrites, ExpiryStep
<1>6. DomainBase /\ InOrder /\ [DomainNext]_domainVars => InOrder'
  BY DomainWrites, OrderStep
<1>7. InOrder => LogInTimeOrder
  BY DEF InOrder
<1> QED
  BY <1>1, <1>2, <1>3, <1>4, <1>5, <1>6, <1>7, BaseHolds, PTL DEF DomainSpec

\* heartbeat, unsuspend: neither a token nor its confirmation, nor any other step, moves
\* the expiry of a row that it leaves lapsed.
THEOREM NoRenewalByTokens == DomainSpec => LapsedRowsNotRenewed
<1>1. DomainBase /\ [DomainNext]_domainVars
        => [\A fp \in Agents : agents'[fp].expires # agents[fp].expires
                                 => agents'[fp].status # "expired"]_vars
  BY DomainWrites, RenewalStep
<1> QED
  BY <1>1, BaseHolds, PTL DEF DomainSpec, LapsedRowsNotRenewed

=============================================================================
