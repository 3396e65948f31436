--------------------------- MODULE RefreshRotation ---------------------------
(***************************************************************************)
(* Rotation of the client-facing refresh tokens                            *)
(* (src/auth/refresh-rotation-store.ts and rotateRefreshGrant in           *)
(* src/transport/refresh-envelope.ts).                                     *)
(*                                                                         *)
(* A chain of refresh tokens is a family.  Each redemption of a token is a *)
(* call: the call that gets the lease runs the upstream exchange, which is *)
(* asynchronous, and then commits or fails; the other calls wait for its   *)
(* promise, replay its result, or are refused.  Calls are one-shot, so the *)
(* call that leads an exchange also names the token (jti) it mints and the *)
(* entry object its lease may allocate: entry objects are shared by        *)
(* reference in the code, and a leader keeps a reference to the one it was *)
(* leased on after the map has dropped it.                                 *)
(***************************************************************************)
EXTENDS Integers, FiniteSets

CONSTANTS
    Family,        \* the rotation chains, keyed by profileId:fid
    Call,          \* the redemptions that ever happen
    Root,          \* the jti minted with a family at the code exchange
    None,          \* the absent value (undefined)
    MaxFamilies,   \* maxFamilies
    MaxRevoked,    \* maxRevokedFamilies
    Ttl,           \* ttlMs, also the age limit of a refresh envelope
    Grace,         \* graceMs
    MaxLeg,        \* an upstream exchange ends within this long
    MaxTime,       \* bound on the clock
    MaxRestarts    \* bound on process restarts

ASSUME ConstantsAssumption ==
    /\ Root \notin Call /\ None \notin Call \cup Family \cup {Root}
    /\ IsFiniteSet(Family)
    /\ MaxFamilies \in Nat \ {0} /\ MaxRevoked \in Nat \ {0}
    /\ Ttl \in Nat \ {0} /\ Grace \in Nat /\ MaxLeg \in Nat
    /\ MaxTime \in Nat /\ MaxRestarts \in Nat

VARIABLES
    now,         \* Date.now()
    families,    \* the map: family -> the entry object it holds, or None
    lru,         \* the map's order: <<f, g>> when f was stored before g
    heap,        \* the entry objects
    revoked,     \* the tombstones: family -> expiry, 0 when there is none
    tombs,       \* the order of the tombstones
    calls,       \* the redemptions
    restarts     \* how often the process restarted

vars == <<now, families, lru, heap, revoked, tombs, calls, restarts>>

Jti == Call \cup {Root}
NoGrace == [prev |-> Root, next |-> None, until |-> 0]
GraceRecord == [prev : Jti, next : Call \cup {None}, until : Nat]

\* FamilyEntry.  pendingJti is always the jti of the call that set pending.
Entry == [active : Jti, expires : Nat, pending : Call \cup {None}, grace : GraceRecord]
FreshEntry(j, c) ==
    [active |-> j, expires |-> now + Ttl, pending |-> c, grace |-> NoGrace]

Leased(e, c) == [e EXCEPT !.pending = c]

Outcome == {"ok", "refused", "reused", "failed"}
CallRecord ==
    [ pc      : {"idle", "leading", "following"} \cup Outcome,
      fam     : Family \cup {None},
      jti     : Jti,                           \* the token presented
      entry   : Call \cup {None},              \* leader: the object it was leased on
      leader  : Call \cup {None},              \* follower: whose promise it awaits
      promise : {"none", "pending", "resolved", "rejected"},
      at      : Nat,                           \* when it last changed state
      got     : Call \cup {None} ]             \* the token it was answered with
IdleCall ==
    [ pc |-> "idle", fam |-> None, jti |-> Root, entry |-> None, leader |-> None,
      promise |-> "none", at |-> 0, got |-> None ]

----------------------------------------------------------------------------
(* The order of a JavaScript Map, as the pairs of keys in insertion order. *)

MoveToEnd(order, f, K) ==
    {p \in order : f # p[1] /\ f # p[2]} \cup {<<g, f>> : g \in K \ {f}}
Oldest(order, K) == CHOOSE f \in K : \A g \in K \ {f} : <<f, g>> \in order
Within(order, K) == {p \in order : p[1] \in K /\ p[2] \in K}

Tracked(fams) == {f \in Family : fams[f] # None}
Tombed(revs)  == {f \in Family : revs[f] # 0}

\* What evictExpired leaves of the two maps.
KeptFamilies ==
    [f \in Family |-> IF /\ families[f] # None
                         /\ heap[families[f]].expires > now
                      THEN families[f] ELSE None]

KeptRevoked == [f \in Family |-> IF revoked[f] > now THEN revoked[f] ELSE 0]
EvictExpired ==
    /\ families' = KeptFamilies
    /\ lru' = Within(lru, Tracked(KeptFamilies))
    /\ revoked' = KeptRevoked
    /\ tombs' = Within(tombs, Tombed(KeptRevoked))

OverCap(fams) == Cardinality(Tracked(fams)) > MaxFamilies

\* store followed by evictOverflow: f becomes the most recently used key.
Store(fams, order, f, o) ==
    LET stored == [fams EXCEPT ![f] = o]
        bumped == MoveToEnd(order, f, Tracked(stored))
        victim == Oldest(bumped, Tracked(stored))
        kept   == IF OverCap(stored) THEN [stored EXCEPT ![victim] = None]
                                     ELSE stored
    IN  /\ families' = kept
        /\ lru' = Within(bumped, Tracked(kept))

TombstoneForGrace == now + Grace
TombstoneUntil == now + Ttl

\* revoke followed by evictRevokedOverflow, on the maps evictExpired left.
Revoke(f) ==
    LET fams   == [KeptFamilies EXCEPT ![f] = None]
        marked == [KeptRevoked EXCEPT ![f] = TombstoneUntil]
        bumped == MoveToEnd(tombs, f, Tombed(marked))
        victim == Oldest(Within(bumped, Tombed(marked)), Tombed(marked))
        kept   == IF Cardinality(Tombed(marked)) > MaxRevoked
                  THEN [marked EXCEPT ![victim] = 0] ELSE marked
    IN  /\ families' = fams
        /\ lru' = Within(lru, Tracked(fams))
        /\ revoked' = kept
        /\ tombs' = Within(bumped, Tombed(kept))

IsRevoked(f) == revoked[f] > now

----------------------------------------------------------------------------
Init ==
    /\ now = 0
    /\ families = [f \in Family |-> None]
    /\ lru = {}
    /\ heap = [o \in Call |-> [FreshEntry(Root, None) EXCEPT !.expires = 0]]
    /\ revoked = [f \in Family |-> 0]
    /\ tombs = {}
    /\ calls = [c \in Call |-> IdleCall]
    /\ restarts = 0

\* A token of family f that some client holds: it was minted with the family or
\* returned by a committed rotation.  Old tokens stay in the hands of clients.
Issued(f, j) == j = Root \/ (j \in Call /\ calls[j].fam = f /\ calls[j].promise = "resolved")
IssuedAt(j)  == IF j = Root THEN 0 ELSE calls[j].at
EnvelopeValid(j) == now - IssuedAt(j) <= Ttl

\* The common part of the branches of beginRotation: c presents token j of f.
Presents(c, f, j) ==
    /\ calls[c].pc = "idle"
    /\ Issued(f, j)

Answer(c, f, j, pc, got) ==
    calls' = [calls EXCEPT ![c] =
                [@ EXCEPT !.pc = pc, !.fam = f, !.jti = j, !.at = now, !.got = got]]

\* resolveRefreshGrant: an envelope past its age limit never reaches the store.
RejectStale(c, f, j) ==
    /\ Presents(c, f, j) /\ ~EnvelopeValid(j)
    /\ Answer(c, f, j, "refused", None)
    /\ UNCHANGED <<now, families, lru, heap, revoked, tombs, restarts>>

\* The tombstone of the family is retained.
RejectRevoked(c, f, j) ==
    /\ Presents(c, f, j) /\ EnvelopeValid(j)
    /\ IsRevoked(f)
    /\ EvictExpired
    /\ Answer(c, f, j, "refused", None)
    /\ UNCHANGED <<now, heap, restarts>>

\* The entry of f when beginRotation looks at it.
Live(f) == KeptFamilies[f] # None
EntryOf(f) == heap[KeptFamilies[f]]
NotJoined(f, j) == FALSE
PendingOn(f, j) == EntryOf(f).pending # None /\ calls[EntryOf(f).pending].jti = j
InGrace(f, j) == /\ EntryOf(f).grace.next # None
                 /\ EntryOf(f).grace.prev = j
                 /\ EntryOf(f).grace.until > now

\* A concurrent redemption of the pending jti awaits the leader.
JoinPending(c, f, j) ==
    /\ Presents(c, f, j) /\ EnvelopeValid(j) /\ ~IsRevoked(f)
    /\ Live(f) /\ PendingOn(f, j)
    /\ EvictExpired
    /\ calls' = [calls EXCEPT ![c] =
                   [@ EXCEPT !.pc = "following", !.fam = f, !.jti = j, !.at = now,
                             !.leader = EntryOf(f).pending]]
    /\ UNCHANGED <<now, heap, restarts>>

\* A retry of the just-superseded jti gets the token already minted.
ReplayGrace(c, f, j) ==
    /\ Presents(c, f, j) /\ EnvelopeValid(j) /\ ~IsRevoked(f)
    /\ Live(f) /\ ~PendingOn(f, j) /\ InGrace(f, j)
    /\ EvictExpired
    /\ Answer(c, f, j, "ok", EntryOf(f).grace.next)
    /\ UNCHANGED <<now, heap, restarts>>

\* Any other superseded jti is reuse: the family is revoked.
DetectReuse(c, f, j) ==
    /\ Presents(c, f, j) /\ EnvelopeValid(j) /\ ~IsRevoked(f)
    /\ Live(f) /\ ~PendingOn(f, j) /\ ~InGrace(f, j)
    /\ EntryOf(f).active # j
    /\ Revoke(f)
    /\ Answer(c, f, j, "reused", None)
    /\ UNCHANGED <<now, heap, restarts>>

\* The active jti, or any jti of a family the store does not know: a lease.
Lead(c, f, j) ==
    /\ Presents(c, f, j) /\ EnvelopeValid(j) /\ ~IsRevoked(f)
    /\ Live(f) => ~PendingOn(f, j) /\ ~InGrace(f, j) /\ EntryOf(f).active = j
    /\ LET o == IF Live(f) THEN KeptFamilies[f] ELSE c
       IN  /\ heap' = [heap EXCEPT ![o] =
                                IF Live(f) THEN Leased(@, c) ELSE FreshEntry(j, c)]
           /\ Store(KeptFamilies, Within(lru, Tracked(KeptFamilies)), f, o)
           /\ calls' = [calls EXCEPT ![c] =
                          [@ EXCEPT !.pc = "leading", !.fam = f, !.jti = j, !.at = now,
                                    !.entry = o, !.promise = "pending"]]
    /\ revoked' = KeptRevoked
    /\ tombs' = Within(tombs, Tombed(KeptRevoked))
    /\ UNCHANGED <<now, restarts>>

BeginRotation(c, f, j) ==
    \/ RejectStale(c, f, j)
    \/ RejectRevoked(c, f, j)
    \/ JoinPending(c, f, j)
    \/ ReplayGrace(c, f, j)
    \/ DetectReuse(c, f, j)
    \/ Lead(c, f, j)

\* commit and fail clear pending when it was set for the same jti, which may
\* be the lease of another call on a newer entry of the family.
PendingSameJti(o, c) ==
    heap[o].pending # None /\ calls[heap[o].pending].jti = calls[c].jti
PendingAfter(o, c) == IF PendingSameJti(o, c) THEN None ELSE heap[o].pending

Settle(c, pc, promise, got) ==
    calls' = [calls EXCEPT ![c] = [@ EXCEPT !.pc = pc, !.promise = promise,
                                            !.at = now, !.got = got]]

\* commit looks for a tombstone again, after the exchange.
UncheckedAtCommit(c) == FALSE
RevokedAtCommit(c) == IsRevoked(calls[c].fam)

NotAdvanced(o, c) ==
    [heap[o] EXCEPT !.expires = now + Ttl, !.pending = PendingAfter(o, c)]
Advanced(o, c) ==
    [ active  |-> c, expires |-> now + Ttl, pending |-> PendingAfter(o, c),
      grace   |-> [prev |-> calls[c].jti, next |-> c, until |-> now + Grace] ]

\* The exchange succeeded: advance the family, on the entry the map holds now
\* or, when it holds none, on the object the lease was taken on.
Commit(c) ==
    /\ calls[c].pc = "leading"
    /\ ~RevokedAtCommit(c)
    /\ LET f == calls[c].fam
           o == IF families[f] # None THEN families[f] ELSE calls[c].entry
       IN  /\ heap' = [heap EXCEPT ![o] = Advanced(o, c)]
           /\ Store(families, lru, f, o)
           /\ revoked' = [revoked EXCEPT ![f] = IF @ > now THEN @ ELSE 0]
           /\ tombs' = Within(tombs, Tombed(revoked'))
    /\ Settle(c, "ok", "resolved", c)
    /\ UNCHANGED <<now, restarts>>

CommitRevokedSilently(c) ==
    /\ calls[c].pc = "leading"
    /\ RevokedAtCommit(c)
    /\ Settle(c, "refused", "pending", None)
    /\ UNCHANGED <<now, families, lru, heap, revoked, tombs, restarts>>

\* The exchange succeeded, but the family was revoked meanwhile: fail closed.
CommitRevoked(c) ==
    /\ calls[c].pc = "leading"
    /\ RevokedAtCommit(c)
    /\ Settle(c, "refused", "rejected", None)
    /\ UNCHANGED <<now, families, lru, heap, revoked, tombs, restarts>>

\* The exchange failed: release the lease, the presented token stays redeemable.
Fail(c) ==
    /\ calls[c].pc = "leading"
    /\ LET f == calls[c].fam
           o == families[f]
       IN  IF o # None /\ PendingSameJti(o, c)
           THEN /\ heap' = [heap EXCEPT ![o].pending = None]
                /\ Store(families, lru, f, o)
           ELSE UNCHANGED <<heap, families, lru>>
    /\ Settle(c, "failed", "rejected", None)
    /\ UNCHANGED <<now, revoked, tombs, restarts>>

RotatedToken(l) == l

\* A follower's await returns what the leader's promise was settled with.
Deliver(c) ==
    /\ calls[c].pc = "following"
    /\ LET l == calls[c].leader
       IN  /\ calls[l].promise \in {"resolved", "rejected"}
           /\ IF calls[l].promise = "resolved"
              THEN Settle(c, "ok", "none", RotatedToken(l))
              ELSE Settle(c, "failed", "none", None)
    /\ UNCHANGED <<now, families, lru, heap, revoked, tombs, restarts>>

\* Time passes; the environment ends an exchange within MaxLeg.
Tick ==
    /\ now < MaxTime
    /\ \A c \in Call : calls[c].pc = "leading" => now - calls[c].at < MaxLeg
    /\ now' = now + 1
    /\ UNCHANGED <<families, lru, heap, revoked, tombs, calls, restarts>>

\* The process restarts: the store is process-local, the clients keep their tokens.
Restart ==
    /\ restarts < MaxRestarts
    /\ restarts' = restarts + 1
    /\ families' = [f \in Family |-> None]
    /\ lru' = {}
    /\ revoked' = [f \in Family |-> 0]
    /\ tombs' = {}
    /\ calls' = [c \in Call |-> IF calls[c].pc \in {"leading", "following"}
                                THEN [calls[c] EXCEPT !.pc = "failed", !.promise = "none"]
                                ELSE calls[c]]
    /\ UNCHANGED <<now, heap>>

Next ==
    \/ \E c \in Call, f \in Family, j \in Jti : BeginRotation(c, f, j)
    \/ \E c \in Call : Commit(c) \/ CommitRevoked(c) \/ Fail(c) \/ Deliver(c)
    \/ Tick
    \/ Restart

Spec == Init /\ [][Next]_vars

\* The upstream exchange ends and a settled promise runs its continuations.
Fairness ==
    \A c \in Call : /\ WF_vars(Commit(c) \/ CommitRevoked(c) \/ Fail(c))
                    /\ WF_vars(Deliver(c))

FairSpec == Spec /\ Fairness

----------------------------------------------------------------------------
(* Properties *)

\* A call at work names the family and the object or the promise it works on.
WellLinked(r) ==
    /\ r.pc = "leading" => r.fam \in Family /\ r.entry \in Call
    /\ r.pc = "following" => r.leader \in Call

\* Type invariant.
TypeOK ==
    /\ now \in Nat
    /\ families \in [Family -> Call \cup {None}]
    /\ lru \subseteq Family \X Family
    /\ heap \in [Call -> Entry]
    /\ revoked \in [Family -> Nat]
    /\ tombs \subseteq Family \X Family
    /\ calls \in [Call -> CallRecord] /\ \A c \in Call : WellLinked(calls[c])
    /\ restarts \in Nat

\* The bound and the recency order of the map agree: the store never exceeds its
\* cap, and the order is total on the tracked families, so that evictOverflow
\* always has one oldest key (store, evictExpired and revoke keep both).
StoreConsistent ==
    /\ Cardinality(Tracked(families)) <= MaxFamilies
    /\ Cardinality(Tombed(revoked)) <= MaxRevoked
    /\ \A f, g \in Tracked(families) :
           f # g => (<<f, g>> \in lru <=> <<g, f>> \notin lru)
    /\ \A f, g \in Tombed(revoked) :
           f # g => (<<f, g>> \in tombs <=> <<g, f>> \notin tombs)

\* "A family that has ever been revoked can never silently downgrade to
\* trust-on-first-use while its marker is retained": a revoked family has no
\* entry, whatever exchange was in flight when it was revoked and whatever the
\* cap on families evicted.
TombstoneClosed == \A f \in Family : IsRevoked(f) => families[f] = None

\* Reuse is final while the process lives and keeps the tombstone: a token
\* minted before the reuse was detected never buys a new one, not even after
\* the tombstone expired, because the envelopes minted before it are then past
\* their own age limit (isRevoked, attemptRefreshDecrypt).  A token minted in
\* the very clock unit of the detection is exempt: at the last unit of its life
\* the tombstone is gone, since the envelope is valid while age <= Ttl and the
\* tombstone is gone when age >= Ttl.
ReuseRefused ==
    \A c, r \in Call :
        /\ restarts = 0
        /\ calls[c].promise = "pending" /\ calls'[c].promise = "resolved"
        /\ calls[r].pc = "reused" /\ calls[r].fam = calls[c].fam
        => IssuedAt(calls[c].jti) >= calls[r].at
ReuseIsFinal == [][ReuseRefused]_vars

\* Revocation is final: while its tombstone stands no step gives the family an
\* entry, and after it fell none redeems a token from before the reuse.
RevocationIsFinal == [][TombstoneClosed' /\ ReuseRefused]_vars

Answered(c) == calls[c].pc = "ok"
SameToken(c, d) == calls[c].fam = calls[d].fam /\ calls[c].jti = calls[d].jti

\* However often and however concurrently a token is redeemed, and whatever
\* fails in between, every successful redemption of it returns the same new
\* token ("exactly one new token is minted").
SingleSuccessor ==
    \A c, d \in Call :
        Answered(c) /\ Answered(d) /\ SameToken(c, d) => calls[c].got = calls[d].got

\* The same when entries expire: losing the entry of a family to its TTL does
\* not reopen a superseded token, because the token expires first.  (Up to the
\* last clock unit of its life: an envelope is valid while age <= Ttl and an entry
\* is evicted when age >= Ttl.)
ExpiryNeverReopens ==
    \A c, d \in Call :
        /\ Answered(c) /\ Answered(d) /\ SameToken(c, d) /\ calls[c].got # calls[d].got
        => \E e \in {calls[c].got, calls[d].got} :
              calls[e].at >= IssuedAt(calls[c].jti) + Ttl

Redeemed(f, j) == \E c \in Call : /\ calls[c].promise = "resolved"
                                  /\ calls[c].fam = f /\ calls[c].jti = j

\* A client that holds a token nobody redeemed is never locked out: while the
\* family is tracked, the one unredeemed token is the active one (also after a
\* failed exchange, and after a lost response).
UnusedTokenRedeemable ==
    \A f \in Family, j \in Jti :
        families[f] # None /\ Issued(f, j) /\ ~Redeemed(f, j)
        => heap[families[f]].active = j

\* Reuse is only ever detected on a token that bought a new one before: a retry
\* after a failed exchange is not mistaken for reuse.
ReuseOnlyOfRedeemed ==
    \A r \in Call : calls[r].pc = "reused" => Redeemed(calls[r].fam, calls[r].jti)

\* Every redemption is answered, followers included, also when the family is
\* revoked under the leader.
RedemptionSettles ==
    \A c \in Call : calls[c].pc \in {"leading", "following"} ~> calls[c].pc \in Outcome

----------------------------------------------------------------------------
(* The abstract chain this store implements when no cap or expiry bites. *)

NoPressure ==
    /\ MaxFamilies >= Cardinality(Family) /\ MaxRevoked >= Cardinality(Family)
    /\ Ttl > MaxTime
    /\ MaxRestarts = 0

\* Why the chain is single, in parts: the inductive invariant without pressure.
\* Nothing expires within the horizon.
Horizon ==
    /\ now <= MaxTime /\ restarts = 0
    /\ \A f \in Family : /\ families[f] # None => heap[families[f]].expires >= Ttl
                         /\ revoked[f] # 0 => revoked[f] >= Ttl
\* An entry object belongs to the family of the call that allocated it.
OwnEntries ==
    \A f \in Family : families[f] # None => /\ calls[families[f]].pc # "idle"
                                            /\ calls[families[f]].fam = f
\* A lease is on the entry in the map, for its active token, and pending there.
LeaderHoldsEntry ==
    /\ \A c \in Call : calls[c].pc = "leading" /\ ~IsRevoked(calls[c].fam) =>
          /\ families[calls[c].fam] = calls[c].entry
          /\ heap[calls[c].entry].pending = c
          /\ heap[calls[c].entry].active = calls[c].jti
    /\ \A f \in Family :
          families[f] # None /\ heap[families[f]].pending # None =>
             LET l == heap[families[f]].pending
             IN  calls[l].pc = "leading" /\ calls[l].fam = f
PromiseStates ==
    \A c \in Call : /\ calls[c].promise = "pending" <=> calls[c].pc = "leading"
                    /\ calls[c].promise = "resolved" =>
                          calls[c].pc = "ok" /\ calls[c].fam \in Family /\ calls[c].got = c
\* The active token of a family that was not revoked has no successor yet.
ActiveUnredeemed ==
    \A c \in Call :
        calls[c].promise = "resolved" /\ ~IsRevoked(calls[c].fam) =>
           /\ families[calls[c].fam] # None
           /\ heap[families[calls[c].fam]].active # calls[c].jti
\* Only tokens that were minted are presented.
TokensLinked ==
    \A c \in Call : calls[c].jti \in Call => calls[calls[c].jti].promise = "resolved"
GraceIsSuccessor ==
    \A f \in Family :
        families[f] # None /\ heap[families[f]].grace.next # None =>
           LET g == heap[families[f]].grace
           IN  /\ calls[g.next].promise = "resolved"
               /\ calls[g.next].fam = f /\ calls[g.next].jti = g.prev
FollowsSameToken ==
    \A c \in Call : calls[c].pc = "following" =>
        calls[calls[c].leader].pc # "idle" /\ SameToken(c, calls[c].leader)
AnswersAreSuccessors ==
    \A c \in Call : Answered(c) => /\ calls[c].got \in Call
                                    /\ calls[calls[c].got].promise = "resolved"
                                    /\ SameToken(c, calls[c].got)
OneMint ==
    \A c, d \in Call : /\ calls[c].promise = "resolved" /\ calls[d].promise = "resolved"
                       /\ SameToken(c, d)
                       => c = d
ChainInv ==
    /\ TypeOK /\ TombstoneClosed /\ Horizon /\ OwnEntries /\ LeaderHoldsEntry
    /\ PromiseStates /\ ActiveUnredeemed /\ TokensLinked /\ GraceIsSuccessor
    /\ FollowsSameToken /\ AnswersAreSuccessors /\ OneMint

\* Which token bought which: <<family, presented token, token minted>>.
Links == {<<calls[c].fam, calls[c].jti, c>> : c \in {d \in Call : calls[d].promise = "resolved"}}
Redeemable ==
    [f \in Family |-> IF IsRevoked(f) THEN {}
                      ELSE IF families[f] = None THEN {Root}
                      ELSE {heap[families[f]].active}]

Chain == INSTANCE TokenChain WITH links <- Links, redeemable <- Redeemable
\* The store implements the abstract chain: one redeemable token per family.
ImplementsChain == Chain!Spec
=============================================================================
