---------------------------- MODULE FragmentCache ----------------------------
(***************************************************************************)
(* The two caches in which fragments wait for their other half: local      *)
(* reassembly (transport_reassembly.c) and the fragment pairs an AP relays *)
(* (transport_forward.c).  Both are one algorithm over a set of ways; a    *)
(* cache here is one such set.  A packet has two fragments, FIRST and      *)
(* LAST, each in a packet buffer of its own.                               *)
(***************************************************************************)
EXTENDS Integers, FiniteSetsExt

CONSTANTS
  Ways,      \* LINKG_TRANSPORT_REASSEMBLY_WAYS, LINKG_TRANSPORT_FORWARD_PAIR_WAYS
  Ttl,       \* how long half a packet is kept
  GcEvery,   \* LINKG_TRANSPORT_REASSEMBLY_GC_INTERVAL_US, ..._FORWARD_PAIR_...
  None

ASSUME CacheAssumption == Ways \in Nat \ {0} /\ Ttl \in Nat \ {0} /\ GcEvery \in Nat

EmptyCache == [w \in 1..Ways |-> None]

Expired(x, now) == x # None /\ x.until <= now

\* The buffers a cache holds a reference to.
Held(C) == UNION {C[w].bufs : w \in {v \in 1..Ways : C[v] # None}}

\* Expired entries are cleared in the ways W.
Swept(C, W, now) == [w \in 1..Ways |-> IF w \in W /\ Expired(C[w], now) THEN None ELSE C[w]]

\* uint64_t: a clock read before the last sweep's makes the difference wrap.
GcDue(last, now) == last = 0 \/ now < last \/ now - last >= GcEvery

\* _linkg_transport_reassembly_gc_locked, _linkg_transport_forward_pair_gc_locked
Collected(C, last, now) == IF GcDue(last, now) THEN Swept(C, 1..Ways, now) ELSE C

\* Mutant of Found: any packet of the epoch.
FoundAnyPacket(C, x, now) ==
  {w \in 1..Ways : C[w] # None /\ ~Expired(C[w], now) /\ C[w].e = x.e}

\* _linkg_transport_reassembly_match: the entry of this packet and epoch, if it has
\* not expired.
Found(C, x, now) ==
  {w \in 1..Ways : C[w] # None /\ ~Expired(C[w], now) /\ C[w].p = x.p /\ C[w].e = x.e}

\* A free way, or the one that would expire first.
Victim(C) ==
  LET free == {w \in 1..Ways : C[w] = None}
  IN IF free # {} THEN Min(free)
     ELSE Min({w \in 1..Ways : \A v \in 1..Ways : C[w].until <= C[v].until})

\* _linkg_transport_reassembly_submit_locked, _linkg_transport_forward_pair_submit_locked
\* for the fragment x in buffer b: the cache afterwards and, when the fragment completes
\* its packet, the two buffers.  Ways behind the match are not looked at.  Both halves
\* are of one well-formed packet here: the exits that drop the entry with -EPROTO or
\* because the carrier has no room for the tail are left out.
Submitted(C, x, b, now) ==
  LET F == Found(C, x, now)
      S == Swept(C, {w \in 1..Ways : F = {} \/ w <= Min(F)}, now)
      w == IF F = {} THEN Victim(S) ELSE Min(F)
  IN IF F = {}
     THEN [cache |-> [S EXCEPT ![w] = [p |-> x.p, e |-> x.e, until |-> now + Ttl,
                                       bufs |-> {b}]],
           whole |-> {}]
     ELSE IF \E c \in S[w].bufs : c.f.i = b.f.i THEN [cache |-> S, whole |-> {}]
     ELSE [cache |-> [S EXCEPT ![w] = None], whole |-> S[w].bufs \cup {b}]
=============================================================================
