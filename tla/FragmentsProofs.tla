--------------------------- MODULE FragmentsProofs ---------------------------
(***************************************************************************)
(* Reference counts, lifetimes of cached fragments, lost frames and what   *)
(* is handed on, for any number of links, packets, cache ways and epochs.  *)
(* RefsExact and NoOldEntries are not inductive. The first needs to know   *)
(* where every buffer is (Exclusive: in one place at most) and where every *)
(* call is (Stages: what it still has before it); the second which life    *)
(* each lock, check and entry belongs to (LifeInv). Inv is all of it.      *)
(* Counting adds what the window knows of the frames that passed. That the *)
(* receiver implements PacketChannel rests on these and on Accounted: each *)
(* frame of this life is in one cache, in one item of one call or handed   *)
(* on, never in two of them.                                               *)
(***************************************************************************)
EXTENDS Fragments, WindowProofs

\* The sets the variables range over.
Lives == {"none", "idle", "reset", "reset2", "reset3", "unregister", "unregister2",
          "unregister3"}
CacheSet == [1..Ways -> Entries \cup {None}]
OutSet == [deliver: Seq(ItemSet), forward: Seq(ItemSet)]
RxRec == [pc: Pcs, e: 0..MaxEpoch, now: 0..MaxTime, base: SUBSET Buffers,
          todo: Seq(Frames), line: Seq(Frames), full: SUBSET ItemSet, out: OutSet,
          kept: SUBSET Buffers]

\* TypeOK without the reference counts, with the shape of records and functions.
PeerTypes ==
  /\ epoch \in 0..MaxEpoch /\ life \in Lives
  /\ window \in Windows /\ lost \in Nat /\ passed \in SUBSET Nat
\* With the types of all variables but refs.
Types ==
  /\ PeerTypes
  /\ clock \in 1..MaxTime /\ lastGc \in [Caches -> 0..MaxTime]
  /\ cache \in [Caches -> CacheSet]
  /\ owner \in [Caches -> Links \cup {None}]
  /\ arrived \in SUBSET Buffers
  /\ rx \in [Links -> RxRec]

-----------------------------------------------------------------------------
\* Lifetimes

\* The three phases of a reset or an unregistration.
Closing == {"reset", "unregister"}
Closing2 == {"reset2", "unregister2"}
Closing3 == {"reset3", "unregister3"}

\* Epochs are even while the Peer is active and odd while it is not.
Parity ==
  /\ life = "idle" => epoch % 2 = 0 /\ epoch # 0
  /\ life = "none" => epoch = 0 \/ epoch % 2 = 1
  /\ life \in Closing \cup Closing2 \cup Closing3 => epoch % 2 = 1 /\ epoch + 1 <= MaxEpoch

\* A thread between the first and the last fragment of its batch has the lock.
Locked ==
  \A l \in Links :
    /\ rx[l].pc \in {"check", "store"} => owner["local"] = l
    /\ rx[l].pc = "pairstore" => owner["relay"] = l

\* The lives in which cache c may still hold what came before the epoch turned odd.
Uncleared(c) == IF c = "local" THEN Closing ELSE Closing \cup Closing2

\* An entry is of this life, or of the one whose cache is about to be cleared.
Aged(c, e) == \/ life = "idle" /\ e = epoch
              \/ life \in Uncleared(c) /\ e = epoch - 1
\* So is every entry of both caches.
EntriesAged == \A c \in Caches, w \in 1..Ways : cache[c][w] # None => Aged(c, cache[c][w].e)

\* So is the fragment of a thread that has checked its epoch.
StoresAged ==
  \A l \in Links :
    /\ rx[l].pc = "store" => Aged("local", rx[l].e)
    /\ rx[l].pc = "pairstore" => Aged("relay", rx[l].e)

\* A call in progress began in an epoch of an active Peer, never in the one before the
\* first registration.
Begun == \A l \in Links : rx[l].pc # "idle" => rx[l].e # 0

\* What holds of epochs, locks and cached halves.
LifeInv == Parity /\ Locked /\ EntriesAged /\ StoresAged /\ Begun

-----------------------------------------------------------------------------
\* Where a thread is

\* Frames that need no other half to be relayed.
Whole(f) == f.p.local \/ ~Fragment(f)

\* The frames a thread still has to go through, and what they leave behind.
LinesOk(r) ==
  /\ SeqInj(r.todo) /\ SeqInj(r.line)
  /\ ToSet(r.todo) \subseteq ToSet(r.line) \cap LocalHalves
  /\ \A w \in r.full : w.f \in ToSet(r.line) \cap LocalHalves /\ w.f \notin ToSet(r.todo)
  /\ \A v, w \in r.full : v.f = w.f => v = w
  /\ r.todo = << >> => \A f \in ToSet(r.line) \cap LocalHalves : \E w \in r.full : w.f = f

\* Which stage of the call has what before it.
StageOk(r) ==
  /\ r.pc \in {"reassemble", "lock", "check", "store"} <=> r.todo # << >>
  /\ r.pc \in {"dispatch", "pair", "pairlock", "pairstore"} => r.line # << >>
  /\ r.pc \in {"pair", "pairlock", "pairstore"} => ~Whole(Head(r.line))
  /\ r.pc \in {"deliver", "forward", "return", "idle"} => r.line = << >>
  /\ r.pc \in {"forward", "return", "idle"} => r.out["deliver"] = << >>
  /\ r.pc \in {"return", "idle"} => r.out["forward"] = << >>
  /\ r.pc \notin {"deliver", "forward"} => r.kept = {}
  /\ r.pc = "idle" => r.base = {}

Stages == \A l \in Links : LinesOk(rx[l]) /\ StageOk(rx[l])

-----------------------------------------------------------------------------
\* Who holds which buffer

\* No buffer is owned twice within a thread.
SetApart(S) == \A v, w \in S : v # w => v.own \cap w.own = {}
SeqApart(s) == \A i, j \in 1..Len(s) : i # j => s[i].own \cap s[j].own = {}
Own(S) == UNION {w.own : w \in S}
\* Within a thread: completed packets, the two batches and what a handler has.
OwnApart(r) ==
  /\ SetApart(r.full) /\ SeqApart(r.out["deliver"]) /\ SeqApart(r.out["forward"])
  /\ Own(r.full) \cap Own(ToSet(r.out["deliver"])) = {}
  /\ Own(r.full) \cap Own(ToSet(r.out["forward"])) = {}
  /\ Own(ToSet(r.out["deliver"])) \cap Own(ToSet(r.out["forward"])) = {}
  /\ r.kept \cap (Own(r.full) \cup Own(ToSet(r.out["deliver"])) \cup Own(ToSet(r.out["forward"]))) = {}

\* An entry of cache c holds one half of its packet, and no other entry holds it.
Half(c, x) == \E b \in Buffers : x.bufs = {b} /\ b.f.p = x.p /\ Fragment(b.f) /\ (b.f.p.local <=> c = "local")
CacheOk(c, C) ==
  /\ \A w \in 1..Ways : C[w] # None => Half(c, C[w])
  /\ \A v, w \in 1..Ways : C[v] # None /\ C[w] # None /\ v # w => C[v].bufs \cap C[w].bufs = {}

\* The buffers of fragments that a thread has not brought to their cache yet.
Waiting(l, r) ==
  {Buf(l, f) : f \in ToSet(r.todo) \cup {g \in ToSet(r.line) : ~Whole(g)}}
Pending(l) == Waiting(l, rx[l])

\* The buffers a thread answers for, besides its link's own references.
Keeps(r) ==
  Own(r.full) \cup Own(ToSet(r.out["deliver"])) \cup Own(ToSet(r.out["forward"])) \cup r.kept
Keep(l) == Keeps(rx[l])
Cached == Held(cache["local"]) \cup Held(cache["relay"])

\* A buffer is in one cache entry, owned by one thread, or still to be stored by
\* the thread of the link it arrived on; what arrived once never arrives again.
Exclusive ==
  /\ \A l \in Links : OwnApart(rx[l])
  /\ \A c \in Caches : CacheOk(c, cache[c])
  /\ \A l, m \in Links : l # m => Keep(l) \cap Keep(m) = {}
  /\ \A l \in Links : Keep(l) \cap Cached = {}
  /\ \A l, m \in Links : Pending(l) \cap Keep(m) = {}
  /\ \A l \in Links : Pending(l) \cap Cached = {}
  /\ \A l \in Links : /\ Pending(l) \cup Keep(l) \subseteq arrived
                      /\ rx[l].base \subseteq {b \in arrived : b.l = l}
  /\ Cached \subseteq arrived

\* The buffers some cache or batch has, and the ones some link has.
Placed == Cached \cup UNION {Keep(l) : l \in Links}
Based == UNION {rx[l].base : l \in Links}

\* A buffer has one reference for the link that received it and one for the one cache
\* entry or batch that has it.
Counts ==
  /\ refs \in [Buffers -> Nat]
  /\ \A b \in Buffers :
       /\ b \in Placed /\ b \in Based => refs[b] = 2
       /\ b \in Placed /\ b \notin Based => refs[b] = 1
       /\ b \notin Placed /\ b \in Based => refs[b] = 1
       /\ b \notin Placed /\ b \notin Based => refs[b] = 0

\* What holds of buffers.
RefInv == Stages /\ Exclusive /\ Counts

-----------------------------------------------------------------------------
\* Receiving a batch

\* What a frame is made of.
LEMMA FrameFacts ==
  ASSUME NEW f \in Frames
  PROVE  /\ f.p \in Packets /\ f.i \in {1, 2} /\ f = Frame(f.p, f.i)
         /\ f.p.parts \in {1, 2} /\ f.p.local \in BOOLEAN
         /\ Number(f) \in Nat /\ Sq(f) \in 0..(SeqCount - 1)
  <1>p. PICK p \in Packets : \E i \in 1..p.parts : f = Frame(p, i)
    BY DEF Frames
  <1>1. PICK i \in 1..p.parts : f = Frame(p, i)
    BY <1>p
  <1>2. f.p = p /\ f.i = i
    BY <1>1 DEF Frame
  <1>3. p \in [first: 1..(SeqCount \div 2 - 2), parts: {1, 2}, local: BOOLEAN]
    BY FragmentsAssumption
  <1>4. p.parts \in {1, 2} /\ p.first \in 1..(SeqCount \div 2 - 2) /\ p.local \in BOOLEAN
    BY <1>3
  <1>5. i \in {1, 2}
    BY <1>4
  <1>6. p.first \in Nat \ {0}
    <2>1. PICK h \in Nat : h = SeqCount \div 2
      BY DistType
    <2>2. p.first \in 1..(h - 2)
      BY <1>4, <2>1
    <2> QED BY ONLY <2>2, h \in Nat
  <1>7. Number(f) \in Nat
    BY <1>2, <1>5, <1>6 DEF Number
  <1>8. Sq(f) \in 0..(SeqCount - 1)
    <2>1. Base \in Nat
      BY FragmentsAssumption
    <2>2. SeqCount \in Int /\ SeqCount > 0
      BY DistType
    <2>3. \A n \in Int : n % SeqCount \in 0..(SeqCount - 1)
      BY ONLY <2>2
    <2> QED BY <1>7, <2>1, <2>3 DEF Sq
  <1> QED BY <1>1, <1>2, <1>4, <1>5, <1>7, <1>8

\* The recursive function behind Accepted exists.
LEMMA AcceptedRun ==
  ASSUME NEW X, NEW s \in Seq(X), NEW w
  PROVE  \E g : /\ Accepted(w, s) = g[Len(s)]
                /\ g[0] = [w |-> w, lost |-> 0, ok |-> << >>]
                /\ \A i \in 1..Len(s) : g[i] = AcceptFrame(g[i - 1], s[i], ToSet(s))
  <1> DEFINE Zero == [w |-> w, lost |-> 0, ok |-> << >>]
             Step(r, i) == AcceptFrame(r, s[i], ToSet(s))
             F(n, f) == [i \in 0..n |-> IF i = 0 THEN Zero ELSE Step(f[i - 1], i)]
             T == {n \in Nat : \E g : g = F(n, g)}
             run == CHOOSE f : f = F(Len(s), f)
  <1>1. Accepted(w, s) = run[Len(s)]
    BY DEF Accepted
  <1> HIDE DEF Zero, Step
  <1>2. 0 \in T
    <2> DEFINE g == [i \in 0..0 |-> Zero]
    <2>1. g = F(0, g)
      OBVIOUS
    <2> QED BY <2>1
  <1>3. \A n \in Nat : n \in T => n + 1 \in T
    <2> SUFFICES ASSUME NEW n \in Nat, n \in T
                 PROVE  \E g : g = F(n + 1, g)
      <3> HIDE DEF F
      <3> QED OBVIOUS
    <2>1. PICK g : g = F(n, g)
      <3> HIDE DEF F
      <3> QED OBVIOUS
    <2> DEFINE h == F(n + 1, g)
    <2>2. ASSUME NEW i \in 0..n PROVE h[i] = g[i]
      <3>1. h[i] = IF i = 0 THEN Zero ELSE Step(g[i - 1], i)
        OBVIOUS
      <3>2. F(n, g)[i] = IF i = 0 THEN Zero ELSE Step(g[i - 1], i)
        OBVIOUS
      <3> QED BY ONLY <2>1, <3>1, <3>2
    <2> HIDE DEF h
    <2>3. \A i \in 1..(n + 1) : h[i - 1] = g[i - 1]
      BY <2>2
    <2>4. F(n + 1, g) = F(n + 1, h)
      BY <2>3
    <2>5. h = F(n + 1, h)
      BY <2>4 DEF h
    <2> QED BY <2>5
  <1>4. Len(s) \in Nat
    OBVIOUS
  <1>5. Len(s) \in T
    <2> HIDE DEF T
    <2> QED BY <1>2, <1>3, <1>4, SetInduction
  <1>6. run = F(Len(s), run)
    <2> HIDE DEF F
    <2> QED BY <1>5
  <1> HIDE DEF run
  <1>7. run[0] = Zero
    BY <1>4, <1>6
  <1>8. ASSUME NEW i \in 1..Len(s) PROVE run[i] = Step(run[i - 1], i)
    <2>1. F(Len(s), run)[i] = Step(run[i - 1], i)
      BY <1>4
    <2> QED BY ONLY <1>6, <2>1
  <1> QED BY <1>1, <1>7, <1>8 DEF Step, Zero

\* _linkg_transport_rx_accept_batch keeps the window's type and lets some of the frames
\* pass, each once.
LEMMA AcceptedFacts ==
  ASSUME NEW w \in Windows, NEW s \in Seq(Frames), SeqInj(s)
  PROVE  /\ Accepted(w, s).w \in Windows /\ Accepted(w, s).lost \in Nat
         /\ Accepted(w, s).ok \in Seq(Frames)
         /\ ToSet(Accepted(w, s).ok) \subseteq ToSet(s)
         /\ SeqInj(Accepted(w, s).ok)
  <1>1. PICK g : /\ Accepted(w, s) = g[Len(s)]
                 /\ g[0] = [w |-> w, lost |-> 0, ok |-> << >>]
                 /\ \A i \in 1..Len(s) : g[i] = AcceptFrame(g[i - 1], s[i], ToSet(s))
    BY AcceptedRun
  <1> DEFINE Ok(n) == /\ g[n].w \in Windows /\ g[n].lost \in Nat
                      /\ g[n].ok \in Seq(Frames)
                      /\ ToSet(g[n].ok) \subseteq {s[j] : j \in 1..n}
                      /\ SeqInj(g[n].ok)
             T == {n \in Nat : n <= Len(s) => Ok(n)}
  <1>2. 0 \in T
    <2>1. << >> \in Seq(Frames) /\ Len(<< >>) = 0 /\ 1..0 = {} /\ DOMAIN << >> = {}
      OBVIOUS
    <2>2. SeqInj(<< >>) /\ ToSet(<< >>) = {}
      BY <2>1 DEF SeqInj, ToSet
    <2>3. g[0].w = w /\ g[0].lost = 0 /\ g[0].ok = << >>
      BY <1>1
    <2>4. Ok(0)
      BY <2>1, <2>2, <2>3
    <2> HIDE DEF Ok
    <2> QED BY <2>4
  <1>3. \A n \in Nat : n \in T => n + 1 \in T
    <2> SUFFICES ASSUME NEW n \in Nat, n + 1 <= Len(s), Ok(n) PROVE Ok(n + 1)
      <3> HIDE DEF Ok
      <3> QED OBVIOUS
    <2>1. s[n + 1] \in Frames /\ n + 1 \in 1..Len(s) /\ (n + 1) - 1 = n
      OBVIOUS
    <2> DEFINE f == s[n + 1]
               S == {Sq(h) : h \in ToSet(s)}
               P == Prepared(g[n].w, Sq(f), S, Window)
               a == WindowAccept(P, Sq(f))
    <2>2. {s[j] : j \in 1..(n + 1)} = {s[j] : j \in 1..n} \cup {f}
      OBVIOUS
    <2>3. g[n + 1] = AcceptFrame(g[n], f, ToSet(s))
      BY <1>1, <2>1
    <2>4. ToSet(s) \in SUBSET Frames
      BY DEF ToSet
    <2>5. P \in Windows
      <3>1. S \in SUBSET (0..(SeqCount - 1)) /\ Sq(f) \in 0..(SeqCount - 1)
        BY <2>1, <2>4, FrameFacts
      <3>2. Window \in Nat /\ Window <= SeqCount \div 2
        BY FragmentsAssumption, DistType
      <3> HIDE DEF S, f
      <3> QED BY <3>1, <3>2, PreparedType
    <2>6. a.w \in Windows /\ a.ok \in BOOLEAN /\ a.lost \in Nat
      <3> HIDE DEF P
      <3>1. Sq(f) \in 0..(SeqCount - 1)
        BY <2>1, FrameFacts
      <3> QED BY <2>5, <3>1, AcceptType
    <2>7. g[n + 1] = [w |-> a.w, lost |-> g[n].lost + a.lost,
                      ok |-> IF a.ok THEN Append(g[n].ok, f) ELSE g[n].ok]
      BY <2>3 DEF AcceptFrame
    <2>8. f \notin ToSet(g[n].ok)
      BY DEF SeqInj
    <2>9. f \in Frames
      BY <2>1
    <2> HIDE DEF a, P, f, S
    <2>10. CASE a.ok
      <3>1. g[n + 1] = [w |-> a.w, lost |-> g[n].lost + a.lost, ok |-> Append(g[n].ok, f)]
        BY <2>7, <2>10
      <3>2. /\ Append(g[n].ok, f) \in Seq(Frames)
            /\ ToSet(Append(g[n].ok, f)) = ToSet(g[n].ok) \cup {f}
            /\ SeqInj(Append(g[n].ok, f))
        BY <2>8, <2>9, AppendFacts
      <3>3. g[n + 1].ok = Append(g[n].ok, f) /\ g[n + 1].w = a.w /\ g[n + 1].lost = g[n].lost + a.lost
        BY ONLY <3>1
      <3>4. g[n + 1].lost \in Nat
        BY ONLY <2>6, <3>3, Ok(n)
      <3> QED BY <2>2, <2>6, <3>2, <3>3, <3>4
    <2>11. CASE ~a.ok
      <3>1. g[n + 1] = [w |-> a.w, lost |-> g[n].lost + a.lost, ok |-> g[n].ok]
        BY <2>7, <2>11
      <3>2. g[n + 1].ok = g[n].ok /\ g[n + 1].w = a.w /\ g[n + 1].lost = g[n].lost + a.lost
        BY ONLY <3>1
      <3>3. g[n + 1].lost \in Nat
        BY ONLY <2>6, <3>2, Ok(n)
      <3> QED BY <2>2, <2>6, <3>2, <3>3
    <2> QED BY <2>10, <2>11
  <1>4. Len(s) \in T
    <2> HIDE DEF T
    <2> QED BY <1>2, <1>3, SetInduction
  <1>5. ToSet(s) = {s[j] : j \in 1..Len(s)}
    BY DEF ToSet
  <1> QED BY <1>1, <1>4, <1>5

-----------------------------------------------------------------------------
\* The caches

\* D is cache C with some entries cleared.
Sub(D, C) == D \in CacheSet /\ \A w \in 1..Ways : D[w] = None \/ D[w] = C[w]

\* Clearing entries keeps the rest as it is.
LEMMA SubFacts ==
  ASSUME NEW C \in CacheSet, NEW D, Sub(D, C), NEW c
  PROVE  /\ Held(D) \subseteq Held(C)
         /\ CacheOk(c, C) => CacheOk(c, D)
  <1>1. Held(D) \subseteq Held(C)
    BY DEF Held, Sub
  <1>2. ASSUME CacheOk(c, C) PROVE CacheOk(c, D)
    BY <1>2 DEF CacheOk, Sub
  <1> QED BY <1>1, <1>2

\* A sweep clears entries.
LEMMA SweptSub ==
  ASSUME NEW C \in CacheSet, NEW W, NEW now
  PROVE  /\ Sub(Swept(C, W, now), C)
         /\ \A w \in 1..Ways : C[w] # None /\ ~Expired(C[w], now) => Swept(C, W, now)[w] = C[w]
  BY DEF Sub, Swept, CacheSet

\* So does the collection that a call starts with.
LEMMA CollectedSub ==
  ASSUME NEW C \in CacheSet, NEW last, NEW now
  PROVE  Sub(Collected(C, last, now), C)
  <1>1. Sub(C, C)
    BY DEF Sub
  <1>2. Sub(Swept(C, 1..Ways, now), C)
    BY SweptSub
  <1> QED BY <1>1, <1>2 DEF Collected

\* The three ways a fragment may take in its cache: it gets an entry of its own, it is
\* a copy of the half that is there, or it completes the packet.
LEMMA SubmittedCases ==
  ASSUME NEW C \in CacheSet, NEW p \in Packets, NEW e \in 0..MaxEpoch, NEW b \in Buffers, NEW now \in Nat
  PROVE  LET r == Submitted(C, [p |-> p, e |-> e], b, now)
         IN \/ /\ r.whole = {}
               /\ \E S, w : /\ Sub(S, C)
                            /\ r.cache = [S EXCEPT ![w] = [p |-> p, e |-> e, until |-> now + Ttl, bufs |-> {b}]]
            \/ r.whole = {} /\ Sub(r.cache, C)
            \/ \E w \in 1..Ways :
                 /\ C[w] # None /\ C[w].p = p
                 /\ \A d \in C[w].bufs : d.f.i # b.f.i
                 /\ r.whole = C[w].bufs \cup {b}
                 /\ Sub(r.cache, C) /\ r.cache[w] = None
  <1> DEFINE x == [p |-> p, e |-> e]
             F == Found(C, x, now)
             S == Swept(C, {w \in 1..Ways : F = {} \/ w <= Min(F)}, now)
             w == IF F = {} THEN Victim(S) ELSE Min(F)
             new == [p |-> p, e |-> e, until |-> now + Ttl, bufs |-> {b}]
             r == Submitted(C, x, b, now)
  <1>1. Sub(S, C) /\ \A v \in 1..Ways : C[v] # None /\ ~Expired(C[v], now) => S[v] = C[v]
    BY SweptSub
  <1>2. x.p = p /\ x.e = e
    OBVIOUS
  <1>3. CASE F = {}
    <2>1. r = [cache |-> [S EXCEPT ![w] = [p |-> x.p, e |-> x.e, until |-> now + Ttl, bufs |-> {b}]],
               whole |-> {}]
      BY <1>3 DEF Submitted
    <2>2. r.whole = {} /\ r.cache = [S EXCEPT ![w] = new]
      BY <1>2, <2>1
    <2> QED BY <1>1, <2>2
  <1>4. CASE F # {}
    <2>1. F \subseteq 1..Ways
      BY DEF Found
    <2>2. Min(F) \in F
      <3>1. F \subseteq Nat
        BY <2>1, CacheAssumption
      <3> HIDE DEF F
      <3> QED BY <1>4, <3>1, MinIn
    <2>3. PICK m : m = Min(F)
      OBVIOUS
    <2>4. w = m /\ m \in 1..Ways
      BY <1>4, <2>1, <2>2, <2>3
    <2>5. C[m] # None /\ ~Expired(C[m], now) /\ C[m].p = p
      BY <1>2, <2>2, <2>3 DEF Found
    <2>6. S[m] = C[m]
      BY <1>1, <2>4, <2>5
    <2>7. CASE \E c \in S[w].bufs : c.f.i = b.f.i
      <3>1. r = [cache |-> S, whole |-> {}]
        BY <1>4, <2>7 DEF Submitted
      <3> HIDE DEF S
      <3>2. r.cache = S /\ r.whole = {}
        BY <3>1
      <3> QED BY <1>1, <3>2
    <2>8. CASE ~\E c \in S[w].bufs : c.f.i = b.f.i
      <3>1. r = [cache |-> [S EXCEPT ![w] = None], whole |-> S[w].bufs \cup {b}]
        BY <1>4, <2>8 DEF Submitted
      <3>0. r = [cache |-> [S EXCEPT ![m] = None], whole |-> C[m].bufs \cup {b}]
        BY <2>4, <2>6, <3>1
      <3> HIDE DEF S, w, r
      <3>2. r.cache = [S EXCEPT ![m] = None] /\ r.whole = C[m].bufs \cup {b}
        BY <3>0
      <3>3. Sub([S EXCEPT ![m] = None], C) /\ [S EXCEPT ![m] = None][m] = None
        BY <1>1, <2>4 DEF Sub, CacheSet
      <3>4. \A d \in C[m].bufs : d.f.i # b.f.i
        BY <2>4, <2>6, <2>8
      <3>5. /\ C[m] # None /\ C[m].p = p
            /\ \A d \in C[m].bufs : d.f.i # b.f.i
            /\ r.whole = C[m].bufs \cup {b}
            /\ Sub(r.cache, C) /\ r.cache[m] = None
        BY <2>5, <3>2, <3>3, <3>4
      <3>6. \E v \in 1..Ways :
              /\ C[v] # None /\ C[v].p = p
              /\ \A d \in C[v].bufs : d.f.i # b.f.i
              /\ r.whole = C[v].bufs \cup {b}
              /\ Sub(r.cache, C) /\ r.cache[v] = None
        BY <2>4, <3>5
      <3> QED BY <3>6 DEF r
    <2> QED BY <2>7, <2>8
  <1> QED BY <1>3, <1>4

\* A fragment that its cache does not hold yet: what the cache keeps is sound, the new
\* entry is of the fragment's epoch, and a packet is completed by two different halves,
\* which leave the cache.
LEMMA StoreFacts ==
  ASSUME NEW c, NEW C \in CacheSet, CacheOk(c, C), NEW e \in 0..MaxEpoch, NEW now \in Nat,
         NEW b \in Buffers, b \notin Held(C), Fragment(b.f), b.f.p.local <=> c = "local"
  PROVE  LET r == Submitted(C, [p |-> b.f.p, e |-> e], b, now)
         IN /\ r.cache \in CacheSet /\ CacheOk(c, r.cache)
            /\ \A w \in 1..Ways : r.cache[w] # None => r.cache[w] = C[w] \/ r.cache[w].e = e
            /\ \/ r.whole = {} /\ Held(r.cache) \subseteq Held(C) \cup {b}
               \/ \E d \in Held(C) : /\ d.f.p = b.f.p /\ d.f.i # b.f.i
                                     /\ r.whole = {d, b}
                                     /\ Held(r.cache) \subseteq Held(C) \ {d}
  <1> DEFINE p == b.f.p
             r == Submitted(C, [p |-> p, e |-> e], b, now)
             new == [p |-> p, e |-> e, until |-> now + Ttl, bufs |-> {b}]
             Goal == /\ r.cache \in CacheSet /\ CacheOk(c, r.cache)
                     /\ \A w \in 1..Ways : r.cache[w] # None => r.cache[w] = C[w] \/ r.cache[w].e = e
                     /\ \/ r.whole = {} /\ Held(r.cache) \subseteq Held(C) \cup {b}
                        \/ \E d \in Held(C) : /\ d.f.p = b.f.p /\ d.f.i # b.f.i
                                              /\ r.whole = {d, b}
                                              /\ Held(r.cache) \subseteq Held(C) \ {d}
  <1>1. b.f \in Frames
    BY DEF Buffers
  <1>2. p \in Packets
    BY <1>1, FrameFacts
  <1>3. \/ /\ r.whole = {}
           /\ \E S, w : Sub(S, C) /\ r.cache = [S EXCEPT ![w] = new]
        \/ r.whole = {} /\ Sub(r.cache, C)
        \/ \E w \in 1..Ways :
             /\ C[w] # None /\ C[w].p = p
             /\ \A d \in C[w].bufs : d.f.i # b.f.i
             /\ r.whole = C[w].bufs \cup {b}
             /\ Sub(r.cache, C) /\ r.cache[w] = None
    BY <1>2, SubmittedCases
  <1> HIDE DEF r
  <1>4. new \in Entries /\ new.e = e /\ new.bufs = {b} /\ new.p = b.f.p
    BY <1>2, CacheAssumption DEF Entries
  <1>5. CASE /\ r.whole = {}
             /\ \E S, w : Sub(S, C) /\ r.cache = [S EXCEPT ![w] = new]
    <2>1. PICK S, w : Sub(S, C) /\ r.cache = [S EXCEPT ![w] = new]
      BY <1>5
    <2> HIDE DEF new
    <2>2. Held(S) \subseteq Held(C) /\ CacheOk(c, S) /\ S \in CacheSet
      BY <2>1, SubFacts DEF Sub
    <2>3. r.cache \in CacheSet
      BY <1>4, <2>1, <2>2 DEF CacheSet
    <2>4. \A v \in 1..Ways : r.cache[v] = S[v] \/ r.cache[v] = new
      BY <2>1, <2>2 DEF CacheSet
    <2>5. \A v \in 1..Ways : v # w => r.cache[v] = S[v]
      BY <2>1, <2>2 DEF CacheSet
    <2>6. Held(r.cache) \subseteq Held(C) \cup {b}
      <3>1. ASSUME NEW v \in 1..Ways, r.cache[v] # None PROVE r.cache[v].bufs \subseteq Held(S) \cup {b}
        BY <1>4, <2>4, <3>1 DEF Held
      <3> QED BY <2>2, <3>1 DEF Held
    <2>7. Half(c, new)
      BY <1>4 DEF Half
    <2>8. \A v \in 1..Ways : r.cache[v] # None => Half(c, r.cache[v])
      BY <2>2, <2>4, <2>7 DEF CacheOk
    <2>9. ASSUME NEW u \in 1..Ways, NEW v \in 1..Ways, r.cache[u] # None, r.cache[v] # None, u # v
          PROVE  r.cache[u].bufs \cap r.cache[v].bufs = {}
      <3>1. \A k \in 1..Ways : S[k] # None => b \notin S[k].bufs
        BY <2>2 DEF Held
      <3>2. CASE u = w
        <4>1. r.cache[v] = S[v]
          BY <2>5, <2>9, <3>2
        <4> QED BY <1>4, <2>2, <2>4, <2>9, <3>1, <4>1 DEF CacheOk
      <3>3. CASE u # w
        <4>1. r.cache[u] = S[u]
          BY <2>5, <3>3
        <4> QED BY <1>4, <2>2, <2>4, <2>9, <3>1, <4>1 DEF CacheOk
      <3> QED BY <3>2, <3>3
    <2>10. CacheOk(c, r.cache)
      BY <2>8, <2>9 DEF CacheOk
    <2>11. \A v \in 1..Ways : r.cache[v] # None => r.cache[v] = C[v] \/ r.cache[v].e = e
      BY <1>4, <2>1, <2>4 DEF Sub
    <2>12. Goal
      BY <1>5, <2>3, <2>6, <2>10, <2>11
    <2> QED BY <2>12 DEF r
  <1>6. CASE r.whole = {} /\ Sub(r.cache, C)
    <2>1. Held(r.cache) \subseteq Held(C) /\ CacheOk(c, r.cache) /\ r.cache \in CacheSet
      BY <1>6, SubFacts DEF Sub
    <2>2. \A v \in 1..Ways : r.cache[v] # None => r.cache[v] = C[v]
      BY <1>6 DEF Sub
    <2>3. Goal
      BY <1>6, <2>1, <2>2
    <2> QED BY <2>3 DEF r
  <1>7. CASE \E w \in 1..Ways :
             /\ C[w] # None /\ C[w].p = p
             /\ \A d \in C[w].bufs : d.f.i # b.f.i
             /\ r.whole = C[w].bufs \cup {b}
             /\ Sub(r.cache, C) /\ r.cache[w] = None
    <2>1. PICK w \in 1..Ways :
             /\ C[w] # None /\ C[w].p = p
             /\ \A d \in C[w].bufs : d.f.i # b.f.i
             /\ r.whole = C[w].bufs \cup {b}
             /\ Sub(r.cache, C) /\ r.cache[w] = None
      BY <1>7
    <2>2. Held(r.cache) \subseteq Held(C) /\ CacheOk(c, r.cache) /\ r.cache \in CacheSet
      BY <2>1, SubFacts DEF Sub
    <2>3. \A v \in 1..Ways : r.cache[v] # None => r.cache[v] = C[v]
      BY <2>1 DEF Sub
    <2>4. PICK d : C[w].bufs = {d} /\ d.f.p = C[w].p
      BY <2>1 DEF CacheOk, Half
    <2>5. d \in Held(C) /\ d.f.p = b.f.p /\ d.f.i # b.f.i /\ r.whole = {d, b}
      BY <2>1, <2>4 DEF Held
    <2>6. d \notin Held(r.cache)
      <3>1. ASSUME NEW v \in 1..Ways, r.cache[v] # None PROVE d \notin r.cache[v].bufs
        <4>1. v # w /\ r.cache[v] = C[v]
          BY <2>1, <2>3, <3>1
        <4> QED BY <2>1, <2>4, <3>1, <4>1 DEF CacheOk
      <3> QED BY <3>1 DEF Held
    <2>7. Goal
      BY <2>2, <2>3, <2>5, <2>6
    <2> QED BY <2>7 DEF r
  <1> QED BY <1>3, <1>5, <1>6, <1>7

-----------------------------------------------------------------------------
\* Steps of one thread

\* What Counted says of one buffer.
LEMMA CountedFacts ==
  ASSUME refs \in [Buffers -> Nat], NEW plus, NEW minus, NEW b \in Buffers, plus \cap minus = {}
  PROVE  /\ DOMAIN Counted(plus, minus) = Buffers
         /\ b \in plus => Counted(plus, minus)[b] = refs[b] + 1
         /\ b \in minus => Counted(plus, minus)[b] = refs[b] - 1
         /\ b \notin plus /\ b \notin minus => Counted(plus, minus)[b] = refs[b]
  <1>1. refs[b] \in Nat
    OBVIOUS
  <1>2. CASE b \in plus
    <2>1. b \notin minus
      BY <1>2
    <2>2. Counted(plus, minus)[b] = refs[b] + 1 - 0
      BY <1>2, <2>1 DEF Counted
    <2> QED BY <1>1, <1>2, <2>1, <2>2 DEF Counted
  <1>3. CASE b \in minus
    <2>1. b \notin plus
      BY <1>3
    <2>2. Counted(plus, minus)[b] = refs[b] + 0 - 1
      BY <1>3, <2>1 DEF Counted
    <2> QED BY <1>1, <1>3, <2>1, <2>2 DEF Counted
  <1>4. CASE b \notin plus /\ b \notin minus
    <2>1. Counted(plus, minus)[b] = refs[b] + 0 - 0
      BY <1>4 DEF Counted
    <2> QED BY <1>1, <1>4, <2>1 DEF Counted
  <1> QED BY <1>2, <1>3, <1>4

\* References are counted when buffers come into and go out of use.
LEMMA CountsMove ==
  ASSUME Counts, NEW plus, NEW minus,
         plus \cap Placed = {}, minus \subseteq Placed,
         Placed' = (Placed \ minus) \cup plus, Based' = Based,
         refs' = Counted(plus, minus)
  PROVE  Counts'
  <1>1. refs \in [Buffers -> Nat] /\ plus \cap minus = {}
    BY DEF Counts
  <1>2. ASSUME NEW b \in Buffers
        PROVE  /\ b \in Placed' /\ b \in Based' => refs'[b] = 2
               /\ b \in Placed' /\ b \notin Based' => refs'[b] = 1
               /\ b \notin Placed' /\ b \in Based' => refs'[b] = 1
               /\ b \notin Placed' /\ b \notin Based' => refs'[b] = 0
    <2>1. /\ b \in plus => refs'[b] = refs[b] + 1
          /\ b \in minus => refs'[b] = refs[b] - 1
          /\ b \notin plus /\ b \notin minus => refs'[b] = refs[b]
      BY <1>1, CountedFacts
    <2>2. /\ b \in Placed /\ b \in Based => refs[b] = 2
          /\ b \in Placed /\ b \notin Based => refs[b] = 1
          /\ b \notin Placed /\ b \in Based => refs[b] = 1
          /\ b \notin Placed /\ b \notin Based => refs[b] = 0
      BY DEF Counts
    <2>3. CASE b \in plus
      BY <2>1, <2>2, <2>3
    <2>4. CASE b \in minus
      BY <1>1, <2>1, <2>2, <2>4
    <2>5. CASE b \notin plus /\ b \notin minus
      BY <2>1, <2>2, <2>5
    <2> QED BY <2>3, <2>4, <2>5
  <1>3. \A b \in Buffers : refs'[b] \in Nat
    BY <1>2
  <1>4. refs' = [b \in Buffers |-> refs'[b]]
    BY <1>1 DEF Counted
  <1>5. refs' \in [Buffers -> Nat]
    BY <1>3, <1>4
  <1> QED BY <1>2, <1>5 DEF Counts

\* refs that stay as they are, in the same form.
LEMMA CountedNone ==
  ASSUME refs \in [Buffers -> Nat]
  PROVE  refs = Counted({}, {})
  <1>1. \A b \in Buffers : Counted({}, {})[b] = refs[b]
    BY CountedFacts
  <1> QED BY <1>1 DEF Counted

\* A step of thread l that leaves it at r: what it holds and what the caches hold
\* changes by plus, buffers it was about to store, and minus, buffers that were held.
LEMMA ThreadStep ==
  ASSUME Types, RefInv, NEW l \in Links, NEW r \in RxRec, NEW plus, NEW minus,
         rx' = [rx EXCEPT ![l] = r], r.base = rx[l].base, arrived' = arrived,
         \A c \in Caches : CacheOk(c, cache'[c]),
         refs' = Counted(plus, minus),
         LinesOk(r), StageOk(r), OwnApart(r),
         Waiting(l, r) \subseteq Pending(l), plus \subseteq Pending(l) \ Waiting(l, r),
         minus \subseteq Keep(l) \cup Cached,
         Keeps(r) \cup Cached' = ((Keep(l) \cup Cached) \ minus) \cup plus,
         Keeps(r) \cap Cached' = {}
  PROVE  RefInv'
  <1>1. rx'[l] = r /\ \A m \in Links : m # l => rx'[m] = rx[m]
    BY DEF Types
  <1>2. Stages'
    BY <1>1 DEF RefInv, Stages
  <1>3. Keep(l)' = Keeps(r) /\ Pending(l)' = Waiting(l, r)
    BY <1>1 DEF Keep, Pending
  <1>4. \A m \in Links : m # l => Keep(m)' = Keep(m) /\ Pending(m)' = Pending(m)
    BY <1>1 DEF Keep, Pending
  <1>5. \A m \in Links : m # l => Pending(m) \cap Pending(l) = {}
    BY DEF Pending, Waiting, Buf
  <1>6. /\ \A m, k \in Links : m # k => Keep(m) \cap Keep(k) = {}
        /\ \A m \in Links : Keep(m) \cap Cached = {} /\ Pending(m) \cap Cached = {}
        /\ \A m, k \in Links : Pending(m) \cap Keep(k) = {}
        /\ \A m \in Links : Pending(m) \cup Keep(m) \subseteq arrived
        /\ Cached \subseteq arrived
    BY DEF RefInv, Exclusive
  <1>7. ASSUME NEW b, b \in Keeps(r) \/ b \in Cached'
        PROVE  /\ b \notin Waiting(l, r) /\ b \in arrived
               /\ \A m \in Links : m # l => b \notin Keep(m) /\ b \notin Pending(m)
    <2>1. b \in plus \/ b \in Keep(l) \/ b \in Cached
      BY <1>7
    <2> QED BY <1>5, <1>6, <2>1
  <1> HIDE DEF Keep, Keeps, Pending, Waiting, Cached
  <1>8. \A m, k \in Links : m # k => Keep(m)' \cap Keep(k)' = {}
    BY <1>3, <1>4, <1>6, <1>7
  <1>9. \A m \in Links : Keep(m)' \cap Cached' = {}
    BY <1>3, <1>4, <1>7
  <1>10. \A m, k \in Links : Pending(m)' \cap Keep(k)' = {}
    BY <1>3, <1>4, <1>6, <1>7
  <1>11. \A m \in Links : Pending(m)' \cap Cached' = {}
    BY <1>3, <1>4, <1>7
  <1>12. \A m \in Links : Pending(m)' \cup Keep(m)' \subseteq arrived'
    BY <1>3, <1>4, <1>6, <1>7
  <1>13. Cached' \subseteq arrived'
    BY <1>7
  <1>14. \A m \in Links : rx'[m].base = rx[m].base
    BY <1>1
  <1>15. \A m \in Links : rx'[m].base \subseteq {b \in arrived' : b.l = m}
    BY <1>14 DEF RefInv, Exclusive
  <1>16. (\A m \in Links : OwnApart(rx[m]))'
    BY <1>1 DEF RefInv, Exclusive
  <1>17. Exclusive'
    BY <1>8, <1>9, <1>10, <1>11, <1>12, <1>13, <1>15, <1>16 DEF Exclusive
  <1>18. Based' = Based
    BY <1>14 DEF Based
  <1>19. Placed' = (Placed \ minus) \cup plus
    <2>1. Placed = Cached \cup Keep(l) \cup UNION {Keep(m) : m \in Links \ {l}}
      BY DEF Placed
    <2>2. Placed' = Cached' \cup Keeps(r) \cup UNION {Keep(m) : m \in Links \ {l}}
      <3>1. Placed' = Cached' \cup Keep(l)' \cup UNION {Keep(m)' : m \in Links \ {l}}
        BY DEF Placed
      <3> QED BY <1>3, <1>4, <3>1
    <2>3. (UNION {Keep(m) : m \in Links \ {l}}) \cap minus = {}
      BY <1>6
    <2> QED BY <2>1, <2>2, <2>3
  <1>20. plus \cap Placed = {}
    BY <1>6 DEF Placed
  <1>21. minus \subseteq Placed
    BY DEF Placed
  <1>22. Counts'
    BY <1>18, <1>19, <1>20, <1>21, CountsMove DEF RefInv
  <1> QED BY <1>2, <1>17, <1>22 DEF RefInv

\* Records that differ at most in where the thread is and what it has read.
SameLoad(r, s) ==
  /\ s.base = r.base /\ s.todo = r.todo /\ s.line = r.line /\ s.full = r.full
  /\ s.out = r.out /\ s.kept = r.kept

\* They carry the same.
LEMMA LoadFacts ==
  ASSUME NEW r, NEW s, SameLoad(r, s)
  PROVE  /\ LinesOk(r) => LinesOk(s)
         /\ OwnApart(r) => OwnApart(s)
         /\ Keeps(s) = Keeps(r)
         /\ \A l : Waiting(l, s) = Waiting(l, r)
  BY DEF SameLoad, LinesOk, OwnApart, Keeps, Waiting

\* Staged takes a call to the stage its load is for.
LEMMA StagedFacts ==
  ASSUME NEW r \in RxRec
  PROVE  /\ Staged(r) \in RxRec /\ SameLoad(r, Staged(r)) /\ Staged(r).e = r.e
         /\ r.kept = {} => StageOk(Staged(r))
         /\ Staged(r).pc \in {"reassemble", "dispatch", "deliver", "forward", "return"}
  <1> DEFINE pc == IF r.todo # << >> THEN "reassemble"
                   ELSE IF r.line # << >> THEN "dispatch"
                   ELSE IF r.out["deliver"] # << >> THEN "deliver"
                   ELSE IF r.out["forward"] # << >> THEN "forward" ELSE "return"
  <1>1. Staged(r) = [r EXCEPT !.pc = pc]
    BY DEF Staged
  <1>2. /\ r.todo # << >> => pc = "reassemble"
        /\ r.todo = << >> /\ r.line # << >> => pc = "dispatch"
        /\ r.todo = << >> /\ r.line = << >> /\ r.out["deliver"] # << >> => pc = "deliver"
        /\ r.todo = << >> /\ r.line = << >> /\ r.out["deliver"] = << >> /\ r.out["forward"] # << >>
             => pc = "forward"
        /\ r.todo = << >> /\ r.line = << >> /\ r.out["deliver"] = << >> /\ r.out["forward"] = << >>
             => pc = "return"
    OBVIOUS
  <1>3. pc \in {"reassemble", "dispatch", "deliver", "forward", "return"}
    OBVIOUS
  <1> HIDE DEF pc
  <1>4. pc \in Pcs
    BY <1>3 DEF Pcs
  <1>5. [r EXCEPT !.pc = pc] \in RxRec
    BY <1>4 DEF RxRec
  <1>6. SameLoad(r, Staged(r)) /\ Staged(r).e = r.e /\ Staged(r).pc = pc
    BY <1>1 DEF SameLoad, RxRec
  <1>7. ASSUME r.kept = {} PROVE StageOk(Staged(r))
    BY <1>2, <1>3, <1>6, <1>7 DEF StageOk, SameLoad
  <1> QED BY <1>1, <1>3, <1>5, <1>6, <1>7

\* A batch that gets another item.
LEMMA OwnAppend ==
  ASSUME NEW s \in Seq(ItemSet), NEW x \in ItemSet, SeqApart(s), x.own \cap Own(ToSet(s)) = {}
  PROVE  /\ Append(s, x) \in Seq(ItemSet) /\ SeqApart(Append(s, x))
         /\ Own(ToSet(Append(s, x))) = Own(ToSet(s)) \cup x.own
  <1>1. Append(s, x) \in Seq(ItemSet) /\ ToSet(Append(s, x)) = ToSet(s) \cup {x}
    BY AppendFacts
  <1>2. Own(ToSet(Append(s, x))) = Own(ToSet(s)) \cup x.own
    BY <1>1 DEF Own
  <1>3. \A i \in 1..Len(s) : s[i].own \cap x.own = {}
    BY DEF Own, ToSet
  <1>4. Len(Append(s, x)) = Len(s) + 1 /\ Append(s, x)[Len(s) + 1] = x /\ Len(s) \in Nat
    OBVIOUS
  <1>5. \A i \in 1..Len(s) : Append(s, x)[i] = s[i]
    OBVIOUS
  <1>6. SeqApart(Append(s, x))
    <2> SUFFICES ASSUME NEW i \in 1..(Len(s) + 1), NEW j \in 1..(Len(s) + 1), i # j
                 PROVE  Append(s, x)[i].own \cap Append(s, x)[j].own = {}
      BY <1>4 DEF SeqApart
    <2>1. CASE i = Len(s) + 1
      <3>1. j \in 1..Len(s)
        BY <1>4, <2>1
      <3> QED BY <1>3, <1>4, <1>5, <2>1, <3>1
    <2>2. CASE j = Len(s) + 1
      <3>1. i \in 1..Len(s)
        BY <1>4, <2>2
      <3> QED BY <1>3, <1>4, <1>5, <2>2, <3>1
    <2>3. CASE i # Len(s) + 1 /\ j # Len(s) + 1
      <3>1. i \in 1..Len(s) /\ j \in 1..Len(s)
        BY <1>4, <2>3
      <3> QED BY <1>5, <3>1 DEF SeqApart
    <2> QED BY <2>1, <2>2, <2>3
  <1> QED BY <1>1, <1>2, <1>6

\* A batch that gives its first item away.
LEMMA OwnTail ==
  ASSUME NEW s \in Seq(ItemSet), s # << >>, SeqApart(s)
  PROVE  /\ Tail(s) \in Seq(ItemSet) /\ SeqApart(Tail(s)) /\ Head(s) \in ItemSet
         /\ Own(ToSet(s)) = Own(ToSet(Tail(s))) \cup Head(s).own
         /\ Head(s).own \cap Own(ToSet(Tail(s))) = {}
  <1>1. Head(s) \in ItemSet /\ Tail(s) \in Seq(ItemSet) /\ ToSet(s) = ToSet(Tail(s)) \cup {Head(s)}
    BY TailFacts
  <1>2. Own(ToSet(s)) = Own(ToSet(Tail(s))) \cup Head(s).own
    BY <1>1 DEF Own
  <1>3. Len(s) \in Nat \ {0} /\ Len(Tail(s)) = Len(s) - 1 /\ Head(s) = s[1]
    OBVIOUS
  <1>4. \A i \in 1..(Len(s) - 1) : Tail(s)[i] = s[i + 1] /\ i + 1 \in 1..Len(s) /\ i + 1 # 1
    BY <1>3
  <1>5. SeqApart(Tail(s))
    <2> SUFFICES ASSUME NEW i \in 1..(Len(s) - 1), NEW j \in 1..(Len(s) - 1), i # j
                 PROVE  Tail(s)[i].own \cap Tail(s)[j].own = {}
      BY <1>3 DEF SeqApart
    <2>1. i + 1 # j + 1
      BY <1>3
    <2> QED BY <1>4, <2>1 DEF SeqApart
  <1>6. DOMAIN Tail(s) = 1..(Len(s) - 1)
    BY <1>1, <1>3
  <1>7. ASSUME NEW x \in ToSet(Tail(s)) PROVE Head(s).own \cap x.own = {}
    <2>1. PICK i \in 1..(Len(s) - 1) : x = Tail(s)[i]
      BY <1>6 DEF ToSet
    <2>2. 1 \in 1..Len(s)
      BY <1>3
    <2> QED BY <1>3, <1>4, <2>1, <2>2 DEF SeqApart
  <1>8. Head(s).own \cap Own(ToSet(Tail(s))) = {}
    BY <1>7 DEF Own
  <1> QED BY <1>1, <1>2, <1>5, <1>8

\* What the two caches hold is of different kinds.
LEMMA HeldApart ==
  ASSUME NEW C, NEW D, CacheOk("local", C), CacheOk("relay", D)
  PROVE  Held(C) \cap Held(D) = {}
  <1> SUFFICES ASSUME NEW b, b \in Held(C), b \in Held(D) PROVE FALSE
    OBVIOUS
  <1>1. PICK v \in 1..Ways : C[v] # None /\ b \in C[v].bufs
    BY DEF Held
  <1>2. PICK w \in 1..Ways : D[w] # None /\ b \in D[w].bufs
    BY DEF Held
  <1>3. b.f.p.local <=> TRUE
    BY <1>1 DEF CacheOk, Half
  <1>4. b.f.p.local <=> FALSE
    BY <1>2 DEF CacheOk, Half
  <1> QED BY <1>3, <1>4

\* A thread goes on without touching buffers.
LEMMA MoveStep ==
  ASSUME Types, RefInv, NEW l \in Links, NEW r \in RxRec,
         rx' = [rx EXCEPT ![l] = r], SameLoad(rx[l], r), StageOk(r),
         UNCHANGED <<arrived, cache, refs>>
  PROVE  RefInv'
  <1>1. LinesOk(rx[l]) /\ OwnApart(rx[l])
    BY DEF RefInv, Stages, Exclusive
  <1>2. /\ LinesOk(r) /\ OwnApart(r) /\ Keeps(r) = Keep(l) /\ Waiting(l, r) = Pending(l)
        /\ r.base = rx[l].base
    BY <1>1, LoadFacts DEF Keep, Pending, SameLoad
  <1>3. refs' = Counted({}, {})
    BY CountedNone DEF RefInv, Counts
  <1>4. Cached' = Cached
    BY DEF Cached
  <1>5. Keep(l) \cap Cached = {} /\ \A c \in Caches : CacheOk(c, cache'[c])
    BY DEF RefInv, Exclusive
  <1> QED BY <1>2, <1>3, <1>4, <1>5, ThreadStep

\* A thread sweeps a cache and goes on.
LEMMA SweepStep ==
  ASSUME Types, RefInv, NEW l \in Links, NEW r \in RxRec, NEW c \in Caches, NEW now \in 0..MaxTime,
         rx' = [rx EXCEPT ![l] = r], SameLoad(rx[l], r), StageOk(r),
         UNCHANGED arrived, Sweep(c, now)
  PROVE  /\ RefInv' /\ cache' \in [Caches -> CacheSet] /\ lastGc' \in [Caches -> 0..MaxTime]
         /\ \A d \in Caches : Sub(cache'[d], cache[d])
  <1> DEFINE C == cache[c]
             D == Collected(C, lastGc[c], now)
             minus == Held(C) \ Held(D)
  <1>1. LinesOk(rx[l]) /\ OwnApart(rx[l])
    BY DEF RefInv, Stages, Exclusive
  <1>2. /\ LinesOk(r) /\ OwnApart(r) /\ Keeps(r) = Keep(l) /\ Waiting(l, r) = Pending(l)
        /\ r.base = rx[l].base
    BY <1>1, LoadFacts DEF Keep, Pending, SameLoad
  <1>3. cache \in [Caches -> CacheSet] /\ C \in CacheSet
    BY DEF Types
  <1>4. cache' = [cache EXCEPT ![c] = D] /\ refs' = Counted({}, minus)
    BY DEF Sweep
  <1>5. Sub(D, C)
    BY <1>3, CollectedSub
  <1>l. lastGc' \in [Caches -> 0..MaxTime]
    BY DEF Sweep, Types
  <1> HIDE DEF C, D
  <1>6. cache'[c] = D /\ \A d \in Caches : d # c => cache'[d] = cache[d]
    BY <1>3, <1>4
  <1>7. \A d \in Caches : Sub(cache'[d], cache[d])
    <2>1. \A d \in Caches : Sub(cache[d], cache[d])
      BY <1>3 DEF Sub
    <2> QED BY <1>5, <1>6, <2>1 DEF C
  <1>8. cache' \in [Caches -> CacheSet]
    <2>1. D \in CacheSet
      BY <1>5 DEF Sub
    <2> QED BY <1>3, <1>4, <2>1
  <1>9. \A d \in Caches : CacheOk(d, cache[d])
    BY DEF RefInv, Exclusive
  <1>10. \A d \in Caches : CacheOk(d, cache'[d]) /\ Held(cache'[d]) \subseteq Held(cache[d])
    BY <1>3, <1>7, <1>9, SubFacts
  <1>11. Held(cache["local"]) \cap Held(cache["relay"]) = {} /\ Caches = {"local", "relay"}
    BY <1>9, HeldApart DEF Caches
  <1>12. minus = Held(cache[c]) \ Held(cache'[c])
    BY <1>6 DEF C
  <1> HIDE DEF minus
  <1>13. Cached' = Cached \ minus /\ minus \subseteq Cached
    BY <1>6, <1>10, <1>11, <1>12 DEF Cached
  <1>14. Keep(l) \cap Cached = {}
    BY DEF RefInv, Exclusive
  <1>15. Keeps(r) \cup Cached' = ((Keep(l) \cup Cached) \ minus) \cup {}
    BY <1>2, <1>13, <1>14
  <1>16. RefInv'
    BY <1>2, <1>4, <1>10, <1>13, <1>14, <1>15, ThreadStep
  <1> QED BY <1>7, <1>8, <1>16, <1>l

-----------------------------------------------------------------------------
\* The steps of a receive thread keep the types and the counts

\* What the invariant says of one thread.
LEMMA Here ==
  ASSUME Types, RefInv, NEW l \in Links
  PROVE  /\ rx[l] \in RxRec /\ LinesOk(rx[l]) /\ StageOk(rx[l]) /\ OwnApart(rx[l])
         /\ Keep(l) \cap Cached = {} /\ Pending(l) \cap Cached = {} /\ Pending(l) \cap Keep(l) = {}
         /\ \A c \in Caches : CacheOk(c, cache[c]) /\ cache[c] \in CacheSet
         /\ Held(cache["local"]) \cap Held(cache["relay"]) = {}
         /\ refs \in [Buffers -> Nat]
  <1>1. /\ rx[l] \in RxRec /\ LinesOk(rx[l]) /\ StageOk(rx[l]) /\ OwnApart(rx[l])
        /\ Keep(l) \cap Cached = {} /\ Pending(l) \cap Cached = {} /\ Pending(l) \cap Keep(l) = {}
        /\ \A c \in Caches : CacheOk(c, cache[c]) /\ cache[c] \in CacheSet
        /\ refs \in [Buffers -> Nat]
    BY DEF Types, RefInv, Stages, Exclusive, Counts
  <1>2. Held(cache["local"]) \cap Held(cache["relay"]) = {}
    BY <1>1, HeldApart DEF Caches
  <1> QED BY <1>1, <1>2

\* Steps that change a thread's record and none of the Peer's, clock's or buffers' types.
LEMMA StepTypes ==
  ASSUME Types, NEW l \in Links, NEW r \in RxRec, rx' = [rx EXCEPT ![l] = r],
         UNCHANGED <<peer, clock, arrived>>,
         lastGc' \in [Caches -> 0..MaxTime], cache' \in [Caches -> CacheSet],
         owner' \in [Caches -> Links \cup {None}]
  PROVE  Types'
  BY DEF Types, PeerTypes, peer

\* Reading the clock before the lock of the cache, for both caches.
LEMMA ClockSteps ==
  ASSUME Types, RefInv, NEW l \in Links, ReadClock(l) \/ PairClock(l)
  PROVE  Types' /\ RefInv'
  <1> DEFINE pc == IF rx[l].pc = "reassemble" THEN "lock" ELSE "pairlock"
  <1>r. PICK r : r = [rx[l] EXCEPT !.pc = pc, !.now = clock]
    OBVIOUS
  <1>1. rx[l] \in RxRec /\ StageOk(rx[l]) /\ rx \in [Links -> RxRec]
    BY Here DEF Types
  <1>2. rx' = [rx EXCEPT ![l] = r] /\ UNCHANGED <<peer, clock, cache, lastGc, owner, refs, arrived, got>>
    BY <1>1, <1>r DEF ReadClock, PairClock
  <1>3. pc \in Pcs /\ clock \in 0..MaxTime
    BY DEF Pcs, Types
  <1>4. r \in RxRec /\ SameLoad(rx[l], r) /\ r.pc = pc
    <2> HIDE DEF pc
    <2> QED BY <1>1, <1>3, <1>r DEF RxRec, SameLoad
  <1>5. (rx[l].pc = "reassemble" /\ r.pc = "lock") \/ (rx[l].pc = "pair" /\ r.pc = "pairlock")
    BY <1>4 DEF ReadClock, PairClock
  <1> HIDE DEF pc
  <1>6. StageOk(r)
    BY <1>1, <1>4, <1>5 DEF StageOk, SameLoad
  <1>7. RefInv'
    BY <1>2, <1>4, <1>6, MoveStep
  <1>8. Types'
    BY <1>2, <1>4, StepTypes DEF Types
  <1> QED BY <1>7, <1>8

\* Entering reassembly: the lock and the sweep.
LEMMA EnterStep ==
  ASSUME Types, RefInv, NEW l \in Links, EnterReassembly(l)
  PROVE  Types' /\ RefInv' /\ \A d \in Caches : Sub(cache'[d], cache[d])
  <1>r. PICK r : r = [rx[l] EXCEPT !.pc = "check", !.now = rx[l].now]
    OBVIOUS
  <1>1. rx[l] \in RxRec /\ StageOk(rx[l]) /\ rx \in [Links -> RxRec]
    BY Here DEF Types
  <1>2. rx[l].now \in 0..MaxTime
    BY <1>1 DEF RxRec
  <1>3. rx' = [rx EXCEPT ![l] = r]
    BY <1>1, <1>r DEF EnterReassembly, RxRec
  <1>4. r \in RxRec /\ SameLoad(rx[l], r) /\ r.pc = "check"
    <2>1. "check" \in Pcs
      BY DEF Pcs
    <2> QED BY <1>1, <1>2, <1>r, <2>1 DEF RxRec, SameLoad
  <1>5. StageOk(r)
    BY <1>1, <1>4 DEF StageOk, SameLoad, EnterReassembly
  <1>6. UNCHANGED <<peer, clock, arrived>> /\ Sweep("local", rx[l].now) /\ "local" \in Caches
    BY DEF EnterReassembly, Caches
  <1>7. /\ RefInv' /\ cache' \in [Caches -> CacheSet] /\ lastGc' \in [Caches -> 0..MaxTime]
        /\ \A d \in Caches : Sub(cache'[d], cache[d])
    BY <1>2, <1>3, <1>4, <1>5, <1>6, SweepStep
  <1>8. owner' \in [Caches -> Links \cup {None}]
    BY DEF EnterReassembly, Types
  <1>9. Types'
    BY <1>3, <1>4, <1>6, <1>7, <1>8, StepTypes
  <1> QED BY <1>7, <1>9

\* A fragment to relay is on its way to the pairs.
LEMMA PairStep ==
  ASSUME Types, RefInv, NEW l \in Links, DispatchPair(l)
  PROVE  Types' /\ RefInv'
  <1>r. PICK r : r = [rx[l] EXCEPT !.pc = "pair", !.now = rx[l].now]
    OBVIOUS
  <1>1. rx[l] \in RxRec /\ StageOk(rx[l]) /\ rx \in [Links -> RxRec]
    BY Here DEF Types
  <1>2. rx[l].now \in 0..MaxTime
    BY <1>1 DEF RxRec
  <1>3. rx' = [rx EXCEPT ![l] = r] /\ UNCHANGED <<peer, clock, cache, lastGc, owner, refs, arrived, got>>
    BY <1>1, <1>r DEF DispatchPair, RxRec
  <1>4. r \in RxRec /\ SameLoad(rx[l], r) /\ r.pc = "pair"
    <2>1. "pair" \in Pcs
      BY DEF Pcs
    <2> QED BY <1>1, <1>2, <1>r, <2>1 DEF RxRec, SameLoad
  <1>5. StageOk(r)
    BY <1>1, <1>4 DEF StageOk, SameLoad, DispatchPair, Whole
  <1>6. RefInv'
    BY <1>3, <1>4, <1>5, MoveStep
  <1>7. Types'
    BY <1>3, <1>4, StepTypes DEF Types
  <1> QED BY <1>6, <1>7

\* A fragment is done with, and full are the packets that are complete: the thread goes
\* on to the next fragment, or drops from its line the halves that are still alone.
LEMMA ReassembledFacts ==
  ASSUME NEW l, NEW r \in RxRec, LinesOk(r), r.todo # << >>, r.kept = {}, NEW full \in SUBSET ItemSet,
         r.full \subseteq full, \A w \in full : w \in r.full \/ w.f = Head(r.todo),
         \A v, w \in full : v.f = w.f => v = w
  PROVE  LET s == Reassembled(r, full)
         IN /\ s \in RxRec /\ LinesOk(s) /\ StageOk(s)
            /\ s.base = r.base /\ s.full = full /\ s.out = r.out /\ s.kept = {} /\ s.e = r.e
            /\ Waiting(l, s) \subseteq Waiting(l, r) \ {Buf(l, Head(r.todo))}
            /\ s.pc # "store" /\ s.pc # "pairstore"
            /\ s.pc = "check" => Len(r.todo) # 1
  <1> DEFINE f == Head(r.todo)
             rest == Tail(r.todo)
             keep == (Frames \ LocalHalves) \cup {w.f : w \in full}
             kept == Selected(r.line, keep)
             s == Reassembled(r, full)
  <1>1. r.todo \in Seq(Frames) /\ r.line \in Seq(Frames) /\ r.full \in SUBSET ItemSet
    BY DEF RxRec
  <1>2. /\ f \in Frames /\ rest \in Seq(Frames) /\ ToSet(r.todo) = ToSet(rest) \cup {f}
        /\ SeqInj(rest) /\ f \notin ToSet(rest) /\ (Len(r.todo) = 1 <=> rest = << >>)
    BY <1>1, TailFacts DEF LinesOk
  <1>3. /\ kept \in Seq(Frames) /\ ToSet(kept) = ToSet(r.line) \cap keep /\ SeqInj(kept)
    BY <1>1, SelectedFacts DEF LinesOk
  <1> HIDE DEF kept
  <1>4. \A w \in full : w.f \in ToSet(r.line) \cap LocalHalves /\ w.f \notin ToSet(rest)
    BY <1>2 DEF LinesOk
  <1>5. f \in LocalHalves /\ ToSet(rest) \subseteq ToSet(r.line) \cap LocalHalves
    BY <1>2 DEF LinesOk
  <1>6. \A g \in LocalHalves : Whole(g)
    BY DEF LocalHalves, Whole
  <1>7. CASE rest # << >>
    <2>1. s = [r EXCEPT !.todo = rest, !.pc = "check", !.full = full]
      BY <1>7 DEF Reassembled
    <2> HIDE DEF s, rest, f
    <2>2. s \in RxRec
      BY <1>2, <2>1 DEF RxRec, Pcs
    <2>3. /\ s.base = r.base /\ s.full = full /\ s.out = r.out /\ s.kept = {} /\ s.e = r.e
          /\ s.pc = "check" /\ s.todo = rest /\ s.line = r.line
      BY <2>1 DEF RxRec
    <2>4. LinesOk(s)
      BY <1>2, <1>4, <1>5, <1>7, <2>3 DEF LinesOk
    <2>5. StageOk(s)
      BY <1>7, <2>3 DEF StageOk
    <2>6. Waiting(l, s) \subseteq Waiting(l, r) \ {Buf(l, f)}
      <3>1. Waiting(l, s) \subseteq Waiting(l, r)
        BY <1>2, <2>3 DEF Waiting
      <3>2. Buf(l, f) \notin Waiting(l, s)
        BY <1>2, <1>5, <1>6, <2>3 DEF Waiting, Buf
      <3> QED BY <3>1, <3>2
    <2> QED BY <1>2, <1>7, <2>2, <2>3, <2>4, <2>5, <2>6 DEF s, f, rest
  <1>8. CASE rest = << >>
    <2> DEFINE t == [r EXCEPT !.todo = rest, !.full = full, !.line = kept]
    <2>1. s = Staged(t)
      BY <1>8 DEF Reassembled, kept
    <2> HIDE DEF s, rest, f
    <2>2. t \in RxRec
      BY <1>2, <1>3 DEF RxRec
    <2>3. /\ t.base = r.base /\ t.full = full /\ t.out = r.out /\ t.kept = {} /\ t.e = r.e
          /\ t.todo = rest /\ t.line = kept
      BY DEF RxRec
    <2> HIDE DEF t
    <2>4. ToSet(rest) = {}
      BY <1>8 DEF ToSet
    <2>5. LinesOk(t)
      <3>1. \A w \in full : w.f \in keep
        OBVIOUS
      <3>2. \A g \in ToSet(kept) \cap LocalHalves : \E w \in full : w.f = g
        BY <1>3
      <3> HIDE DEF keep
      <3>3. \A w \in t.full : w.f \in ToSet(t.line) \cap LocalHalves /\ w.f \notin ToSet(t.todo)
        BY <1>3, <1>4, <2>3, <2>4, <3>1
      <3> QED BY <1>2, <1>3, <2>3, <2>4, <3>2, <3>3 DEF LinesOk
    <2>6. /\ s \in RxRec /\ SameLoad(t, s) /\ s.e = t.e /\ StageOk(s)
          /\ s.pc \in {"reassemble", "dispatch", "deliver", "forward", "return"}
      BY <2>1, <2>2, <2>3, StagedFacts
    <2>7. LinesOk(s) /\ Waiting(l, s) = Waiting(l, t)
      BY <2>5, <2>6, LoadFacts
    <2>8. Waiting(l, t) \subseteq Waiting(l, r) \ {Buf(l, f)}
      <3>1. Waiting(l, t) \subseteq Waiting(l, r)
        BY <1>3, <2>3, <2>4 DEF Waiting
      <3>2. Buf(l, f) \notin Waiting(l, t)
        BY <1>5, <1>6, <2>3, <2>4 DEF Waiting, Buf
      <3> QED BY <3>1, <3>2
    <2>9. s.base = r.base /\ s.full = full /\ s.out = r.out /\ s.kept = {} /\ s.e = r.e
      BY <2>3, <2>6 DEF SameLoad
    <2>10. s.pc # "store" /\ s.pc # "pairstore" /\ s.pc # "check"
      BY <2>6
    <2> QED BY <2>6, <2>7, <2>8, <2>9, <2>10 DEF s, f, rest
  <1> QED BY <1>7, <1>8

\* The epoch check under the lock.
LEMMA CheckStep ==
  ASSUME Types, RefInv, NEW l \in Links, CheckFragment(l)
  PROVE  Types' /\ RefInv'
  <1>1. /\ rx[l] \in RxRec /\ StageOk(rx[l]) /\ LinesOk(rx[l]) /\ OwnApart(rx[l])
        /\ rx \in [Links -> RxRec] /\ Keep(l) \cap Cached = {}
        /\ \A c \in Caches : CacheOk(c, cache[c])
    BY Here DEF Types
  <1>2. rx[l].todo # << >> /\ rx[l].kept = {} /\ rx[l].full \in SUBSET ItemSet
    BY <1>1 DEF CheckFragment, StageOk, RxRec
  <1>3. UNCHANGED <<peer, clock, cache, lastGc, refs, arrived>>
    BY DEF CheckFragment
  <1>4. owner' \in [Caches -> Links \cup {None}]
    BY DEF CheckFragment, Unlocked, Types
  <1>5. CASE StillCurrent(rx[l].e)
    <2>1. PICK r : r = [rx[l] EXCEPT !.pc = "store"]
      OBVIOUS
    <2>2. rx' = [rx EXCEPT ![l] = r]
      BY <1>1, <1>5, <2>1 DEF CheckFragment
    <2>3. r \in RxRec /\ SameLoad(rx[l], r) /\ r.pc = "store"
      BY <1>1, <2>1 DEF RxRec, SameLoad, Pcs
    <2>4. StageOk(r)
      BY <1>1, <2>3 DEF StageOk, SameLoad, CheckFragment
    <2>5. RefInv'
      BY <1>3, <2>2, <2>3, <2>4, MoveStep
    <2>6. Types'
      BY <1>3, <1>4, <2>2, <2>3, StepTypes DEF Types
    <2> QED BY <2>5, <2>6
  <1>6. CASE ~StillCurrent(rx[l].e)
    <2>1. PICK r : r = Reassembled(rx[l], rx[l].full)
      OBVIOUS
    <2>2. rx' = [rx EXCEPT ![l] = r]
      BY <1>1, <1>6, <2>1 DEF CheckFragment
    <2>3. \A v, w \in rx[l].full : v.f = w.f => v = w
      BY <1>1 DEF LinesOk
    <2>4. /\ r \in RxRec /\ LinesOk(r) /\ StageOk(r)
          /\ r.base = rx[l].base /\ r.full = rx[l].full /\ r.out = rx[l].out /\ r.kept = {}
          /\ Waiting(l, r) \subseteq Waiting(l, rx[l]) \ {Buf(l, Head(rx[l].todo))}
      BY <1>1, <1>2, <2>1, <2>3, ReassembledFacts
    <2>5. OwnApart(r) /\ Keeps(r) = Keep(l)
      BY <1>1, <1>2, <2>4 DEF OwnApart, Keeps, Keep
    <2>6. refs' = Counted({}, {}) /\ Cached' = Cached
      BY <1>3, Here, CountedNone DEF Cached
    <2>7. Waiting(l, r) \subseteq Pending(l)
      BY <2>4 DEF Pending
    <2>8. RefInv'
      BY <1>1, <1>3, <2>2, <2>4, <2>5, <2>6, <2>7, ThreadStep
    <2>9. Types'
      BY <1>3, <1>4, <2>2, <2>4, StepTypes DEF Types
    <2> QED BY <2>8, <2>9
  <1> QED BY <1>5, <1>6

\* The buffer of the next fragment of a thread, in either cache, is nowhere yet.
LEMMA NextFragment ==
  ASSUME Types, RefInv, NEW l \in Links, NEW f,
         \/ rx[l].todo # << >> /\ f = Head(rx[l].todo)
         \/ rx[l].pc = "pairstore" /\ f = Head(rx[l].line)
  PROVE  /\ f \in Frames /\ Buf(l, f) \in Buffers /\ Buf(l, f).f = f /\ Buf(l, f) \in Pending(l)
         /\ Buf(l, f) \notin Cached /\ Buf(l, f) \notin Keep(l)
         /\ Fragment(f)
         /\ f.p.local <=> rx[l].todo # << >>
  <1>1. /\ rx[l] \in RxRec /\ StageOk(rx[l]) /\ LinesOk(rx[l])
        /\ Pending(l) \cap Cached = {} /\ Pending(l) \cap Keep(l) = {}
    BY Here
  <1>2. rx[l].todo \in Seq(Frames) /\ rx[l].line \in Seq(Frames)
    BY <1>1 DEF RxRec
  <1>3. ASSUME rx[l].todo # << >>, f = Head(rx[l].todo)
        PROVE  f \in LocalHalves /\ f \in ToSet(rx[l].todo)
    <2>1. f \in ToSet(rx[l].todo)
      BY <1>2, <1>3, TailFacts
    <2> QED BY <1>1, <2>1 DEF LinesOk
  <1>4. ASSUME rx[l].pc = "pairstore", f = Head(rx[l].line)
        PROVE  f \in Frames /\ ~Whole(f) /\ f \in ToSet(rx[l].line) /\ rx[l].todo = << >>
    <2>1. rx[l].line # << >> /\ ~Whole(f) /\ rx[l].todo = << >>
      BY <1>1, <1>4 DEF StageOk
    <2> QED BY <1>2, <1>4, <2>1, TailFacts
  <1>5. f \in Frames /\ Fragment(f) /\ (f.p.local <=> rx[l].todo # << >>)
    BY <1>3, <1>4 DEF LocalHalves, Whole
  <1>6. Buf(l, f) \in Pending(l)
    BY <1>3, <1>4 DEF Pending, Waiting
  <1>7. Buf(l, f) \in Buffers /\ Buf(l, f).f = f
    BY <1>5 DEF Buf, Buffers
  <1> QED BY <1>1, <1>5, <1>6, <1>7

\* The first of two different halves of a packet.
LEMMA Halves ==
  ASSUME NEW d \in Buffers, NEW b \in Buffers, d.f.i # b.f.i
  PROVE  \/ d.f.i = 1 /\ b.f.i = 2 /\ {x \in {d, b} : x.f.i = 1} = {d}
         \/ d.f.i = 2 /\ b.f.i = 1 /\ {x \in {d, b} : x.f.i = 1} = {b}
  <1>1. d.f.i \in {1, 2} /\ b.f.i \in {1, 2}
    BY FrameFacts DEF Buffers
  <1> QED BY <1>1

\* A cache holds buffers.
LEMMA HeldType ==
  ASSUME NEW c, NEW C, CacheOk(c, C)
  PROVE  Held(C) \subseteq Buffers
  BY DEF CacheOk, Half, Held

\* Storing a local fragment.
LEMMA StoreStep ==
  ASSUME Types, RefInv, NEW l \in Links, StoreFragment(l)
  PROVE  /\ Types' /\ RefInv' /\ cache'["relay"] = cache["relay"]
         /\ \A w \in 1..Ways : cache'["local"][w] # None =>
              cache'["local"][w] = cache["local"][w] \/ cache'["local"][w].e = rx[l].e
  <1> DEFINE f == Head(rx[l].todo)
             b == Buf(l, f)
             C == cache["local"]
             R == cache["relay"]
             first(W) == {c \in W : c.f.i = 1}
  <1>1. /\ rx[l] \in RxRec /\ StageOk(rx[l]) /\ LinesOk(rx[l]) /\ OwnApart(rx[l])
        /\ rx \in [Links -> RxRec] /\ Keep(l) \cap Cached = {}
        /\ \A c \in Caches : CacheOk(c, cache[c]) /\ cache[c] \in CacheSet
        /\ Held(C) \cap Held(R) = {} /\ "local" \in Caches /\ "relay" \in Caches
    BY Here DEF Types, Caches
  <1>2. rx[l].todo # << >> /\ rx[l].kept = {} /\ rx[l].full \in SUBSET ItemSet
    BY <1>1 DEF StoreFragment, StageOk, RxRec
  <1>3. /\ f \in Frames /\ b \in Buffers /\ b.f = f /\ b \in Pending(l)
        /\ b \notin Cached /\ b \notin Keep(l) /\ Fragment(f) /\ f.p.local
    BY <1>2, NextFragment
  <1>4. PICK r : r = Submitted(C, [p |-> f.p, e |-> rx[l].e], b, rx[l].now)
    OBVIOUS
  <1>5. PICK full : full = IF r.whole = {} THEN rx[l].full
                           ELSE rx[l].full \cup {[f |-> f, bufs |-> r.whole, own |-> first(r.whole)]}
    BY Zenon
  <1>6. PICK s : s = Reassembled(rx[l], full)
    OBVIOUS
  <1> DEFINE plus == (Held(r.cache) \cup first(r.whole)) \ Held(C)
             minus == (Held(C) \ (Held(r.cache) \cup r.whole)) \cup TailReleased(C, r.whole)
  <1>7. /\ cache' = [cache EXCEPT !["local"] = r.cache]
        /\ refs' = Counted(plus, minus)
        /\ rx' = [rx EXCEPT ![l] = s]
        /\ owner' = Unlocked("local", l)
        /\ UNCHANGED <<peer, clock, lastGc, arrived, got>>
    BY <1>1, <1>4, <1>5, <1>6, Zenon DEF StoreFragment
  <1> HIDE DEF b, C, R, f
  <1>8. b \notin Held(C) /\ Cached = Held(C) \cup Held(R)
    BY <1>3 DEF Cached, C, R
  <1>9. rx[l].e \in 0..MaxEpoch /\ rx[l].now \in Nat /\ C \in CacheSet /\ CacheOk("local", C)
    BY <1>1, FragmentsAssumption DEF RxRec, C
  <1>10. /\ r.cache \in CacheSet /\ CacheOk("local", r.cache)
         /\ \A w \in 1..Ways : r.cache[w] # None => r.cache[w] = C[w] \/ r.cache[w].e = rx[l].e
         /\ \/ r.whole = {} /\ Held(r.cache) \subseteq Held(C) \cup {b}
            \/ \E d \in Held(C) : /\ d.f.p = b.f.p /\ d.f.i # b.f.i
                                  /\ r.whole = {d, b}
                                  /\ Held(r.cache) \subseteq Held(C) \ {d}
    <2>1. Fragment(b.f) /\ (b.f.p.local <=> "local" = "local")
      BY <1>3
    <2>2. r = Submitted(C, [p |-> b.f.p, e |-> rx[l].e], b, rx[l].now)
      BY <1>3, <1>4
    <2> QED BY <1>3, <1>8, <1>9, <2>1, <2>2, StoreFacts
  <1>11. cache' \in [Caches -> CacheSet] /\ cache'["local"] = r.cache /\ cache'["relay"] = R
    BY <1>1, <1>7, <1>10 DEF Types, R, Caches
  <1>12. \A c \in Caches : CacheOk(c, cache'[c])
    BY <1>1, <1>10, <1>11 DEF Caches, R
  <1>13. Cached' = Held(r.cache) \cup Held(R)
    BY <1>11 DEF Cached
  <1>14. owner' \in [Caches -> Links \cup {None}]
    BY <1>7 DEF Unlocked, Types
  <1>15. /\ full \in SUBSET ItemSet /\ rx[l].full \subseteq full
         /\ \A w \in full : w \in rx[l].full \/ w.f = f
         /\ \A v, w \in full : v.f = w.f => v = w
    <2>1. \A v, w \in rx[l].full : v.f = w.f => v = w
      BY <1>1 DEF LinesOk
    <2>2. \A w \in rx[l].full : w.f # f
      <3>1. f \in ToSet(rx[l].todo)
        BY <1>1, <1>2, TailFacts DEF RxRec, f
      <3> QED BY <1>1, <3>1 DEF LinesOk
    <2>3. CASE r.whole = {}
      BY <1>2, <1>5, <2>1, <2>3
    <2>4. CASE r.whole # {}
      <3> DEFINE item == [f |-> f, bufs |-> r.whole, own |-> first(r.whole)]
      <3>1. r.whole \subseteq Buffers
        BY <1>3, <1>9, <1>10, <2>4, HeldType
      <3>2. first(r.whole) \subseteq Buffers
        BY <3>1
      <3>3. item \in ItemSet /\ item.f = f
        BY <1>3, <3>1, <3>2 DEF ItemSet
      <3>4. full = rx[l].full \cup {item}
        BY <1>5, <2>4
      <3> HIDE DEF item
      <3> QED BY <1>2, <2>1, <2>2, <3>3, <3>4
    <2> QED BY <2>3, <2>4
  <1>16. /\ s \in RxRec /\ LinesOk(s) /\ StageOk(s)
         /\ s.base = rx[l].base /\ s.full = full /\ s.out = rx[l].out /\ s.kept = {}
         /\ Waiting(l, s) \subseteq Waiting(l, rx[l]) \ {b}
    BY <1>1, <1>2, <1>6, <1>15, ReassembledFacts DEF f, b
  <1>17. Waiting(l, s) \subseteq Pending(l) /\ b \notin Waiting(l, s)
    BY <1>16 DEF Pending
  <1>18. ASSUME r.whole = {}, Held(r.cache) \subseteq Held(C) \cup {b} PROVE RefInv'
    <2>1. full = rx[l].full
      BY <1>5, <1>18
    <2>2. OwnApart(s) /\ Keeps(s) = Keep(l)
      BY <1>1, <1>2, <1>16, <2>1 DEF OwnApart, Keeps, Keep
    <2>3. TailReleased(C, r.whole) = {} /\ first(r.whole) = {}
      BY <1>18 DEF TailReleased
    <2>4. plus \subseteq {b} /\ plus = Held(r.cache) \ Held(C) /\ minus = Held(C) \ Held(r.cache)
      BY <1>18, <2>3
    <2> HIDE DEF plus, minus
    <2>5. minus \subseteq Keep(l) \cup Cached /\ plus \subseteq Pending(l) \ Waiting(l, s)
      BY <1>3, <1>8, <1>17, <2>4
    <2>6. Keeps(s) \cup Cached' = ((Keep(l) \cup Cached) \ minus) \cup plus
      BY <1>1, <1>8, <1>13, <2>2, <2>4
    <2>7. Keeps(s) \cap Cached' = {}
      BY <1>1, <1>3, <1>8, <1>13, <1>18, <2>2
    <2>8. RefInv'
      BY <1>7, <1>12, <1>16, <1>17, <2>2, <2>5, <2>6, <2>7, ThreadStep
    <2> QED BY <2>8
  <1>19. ASSUME NEW d \in Held(C), d.f.p = b.f.p, d.f.i # b.f.i,
                r.whole = {d, b}, Held(r.cache) \subseteq Held(C) \ {d}
         PROVE  RefInv'
    <2> DEFINE item == [f |-> f, bufs |-> r.whole, own |-> first(r.whole)]
    <2>1. full = rx[l].full \cup {item} /\ item.own = first(r.whole)
      BY <1>5, <1>19
    <2>2. d \in Cached /\ d \in Buffers
      BY <1>8, <1>9, <1>19, HeldType
    <2>3. \/ d.f.i = 1 /\ b.f.i = 2 /\ first(r.whole) = {d}
          \/ d.f.i = 2 /\ b.f.i = 1 /\ first(r.whole) = {b}
      BY <1>3, <1>19, <2>2, Halves
    <2> HIDE DEF item
    <2>4. first(r.whole) \cap Keep(l) = {}
      BY <1>1, <1>3, <2>2, <2>3
    <2>5. Own(full) = Own(rx[l].full) \cup first(r.whole)
      BY <2>1 DEF Own
    <2>6. Keeps(s) = Keep(l) \cup first(r.whole)
      BY <1>2, <1>16, <2>5 DEF Keeps, Keep
    <2>7. SetApart(full)
      <3>1. \A w \in rx[l].full : w.own \cap first(r.whole) = {}
        BY <2>4 DEF Keep, Keeps, Own
      <3> QED BY <1>1, <2>1, <3>1 DEF SetApart, OwnApart
    <2>8. OwnApart(s)
      <3>1. /\ first(r.whole) \cap Own(ToSet(rx[l].out["deliver"])) = {}
            /\ first(r.whole) \cap Own(ToSet(rx[l].out["forward"])) = {}
        BY <2>4 DEF Keep, Keeps
      <3> QED BY <1>1, <1>16, <2>5, <2>7, <3>1 DEF OwnApart
    <2>9. \/ plus = {} /\ minus = Held(C) \ (Held(r.cache) \cup {d}) /\ first(r.whole) = {d}
          \/ plus = {b} /\ minus = Held(C) \ Held(r.cache) /\ first(r.whole) = {b}
      <3>1. CASE d.f.i = 1 /\ b.f.i = 2 /\ first(r.whole) = {d}
        <4>1. TailReleased(C, r.whole) = {}
          BY <1>8, <1>19, <3>1 DEF TailReleased
        <4> QED BY <1>8, <1>19, <3>1, <4>1
      <3>2. CASE d.f.i = 2 /\ b.f.i = 1 /\ first(r.whole) = {b}
        <4>1. TailReleased(C, r.whole) = {d}
          BY <1>8, <1>19, <3>2 DEF TailReleased
        <4> QED BY <1>8, <1>19, <3>2, <4>1
      <3> QED BY <2>3, <3>1, <3>2
    <2> HIDE DEF plus, minus
    <2>10. minus \subseteq Keep(l) \cup Cached /\ plus \subseteq Pending(l) \ Waiting(l, s)
      BY <1>3, <1>8, <1>17, <2>9
    <2>11. Keeps(s) \cup Cached' = ((Keep(l) \cup Cached) \ minus) \cup plus
      BY <1>1, <1>3, <1>8, <1>13, <1>19, <2>6, <2>9
    <2>12. Keeps(s) \cap Cached' = {}
      BY <1>1, <1>3, <1>8, <1>13, <1>19, <2>6, <2>9
    <2> QED BY <1>7, <1>12, <1>16, <1>17, <2>8, <2>10, <2>11, <2>12, ThreadStep
  <1>20. RefInv'
    BY <1>10, <1>18, <1>19
  <1>21. Types'
    BY <1>7, <1>11, <1>14, <1>16, StepTypes DEF Types
  <1>22. \A w \in 1..Ways : cache'["local"][w] # None =>
           cache'["local"][w] = cache["local"][w] \/ cache'["local"][w].e = rx[l].e
    BY ONLY <1>10, <1>11 DEF C
  <1>23. cache'["relay"] = cache["relay"]
    BY ONLY <1>11 DEF R
  <1> QED BY ONLY <1>20, <1>21, <1>22, <1>23

\* The first frame of the line is done with.
LEMMA LineFacts ==
  ASSUME NEW l, NEW r \in RxRec, LinesOk(r), r.todo = << >>, r.line # << >>, NEW t,
         t.todo = r.todo, t.line = Tail(r.line), t.full = {w \in r.full : w.f # Head(r.line)}
  PROVE  LinesOk(t) /\ Waiting(l, t) \subseteq Waiting(l, r) \ {Buf(l, Head(r.line))}
  <1> DEFINE f == Head(r.line)
  <1>1. r.line \in Seq(Frames)
    BY DEF RxRec
  <1>2. /\ f \in Frames /\ Tail(r.line) \in Seq(Frames) /\ ToSet(r.line) = ToSet(Tail(r.line)) \cup {f}
        /\ SeqInj(Tail(r.line)) /\ f \notin ToSet(Tail(r.line))
    BY <1>1, TailFacts DEF LinesOk
  <1>3. ToSet(r.todo) = {} /\ ToSet(t.todo) = {}
    BY DEF ToSet
  <1> HIDE DEF f
  <1>f. f = Head(r.line)
    BY DEF f
  <1>4. LinesOk(t)
    <2>1. \A w \in t.full : w.f \in ToSet(t.line) \cap LocalHalves /\ w.f \notin ToSet(t.todo)
      BY <1>2, <1>3, <1>f DEF LinesOk
    <2>2. \A g \in ToSet(t.line) \cap LocalHalves : \E w \in t.full : w.f = g
      <3> SUFFICES ASSUME NEW g \in ToSet(t.line) \cap LocalHalves PROVE \E w \in t.full : w.f = g
        OBVIOUS
      <3>1. g # f /\ g \in ToSet(r.line) \cap LocalHalves
        BY <1>2
      <3>2. PICK w \in r.full : w.f = g
        BY <3>1 DEF LinesOk
      <3> QED BY <1>f, <3>1, <3>2
    <2>3. SeqInj(t.todo) /\ SeqInj(t.line)
      BY <1>2 DEF LinesOk
    <2>4. \A v, w \in t.full : v.f = w.f => v = w
      BY DEF LinesOk
    <2> QED BY <1>3, <2>1, <2>2, <2>3, <2>4 DEF LinesOk
  <1>5. Waiting(l, t) \subseteq Waiting(l, r)
    BY <1>2, <1>3 DEF Waiting
  <1>6. Buf(l, f) \notin Waiting(l, t)
    BY <1>2, <1>3 DEF Waiting, Buf
  <1> QED BY <1>4, <1>5, <1>6, <1>f

\* A frame of a life that is over is dropped, and with it the packet it completed.
LEMMA StaleStep ==
  ASSUME Types, RefInv, NEW l \in Links, DispatchStale(l)
  PROVE  Types' /\ RefInv'
  <1> DEFINE r == rx[l]
             f == Head(r.line)
             minus == OwnedBy(r, f)
  <1>1. /\ r \in RxRec /\ StageOk(r) /\ LinesOk(r) /\ OwnApart(r)
        /\ rx \in [Links -> RxRec] /\ Keep(l) \cap Cached = {}
        /\ \A c \in Caches : CacheOk(c, cache[c])
    BY Here DEF Types
  <1>2. r.line # << >> /\ r.todo = << >> /\ r.kept = {} /\ r.line \in Seq(Frames)
    BY <1>1 DEF DispatchStale, StageOk, RxRec
  <1>3. PICK t : t = [r EXCEPT !.line = Tail(@), !.full = {w \in @ : w.f # f}]
    OBVIOUS
  <1>4. PICK s : s = Staged(t)
    OBVIOUS
  <1>5. /\ rx' = [rx EXCEPT ![l] = s]
        /\ refs' = Counted({}, minus)
        /\ UNCHANGED <<peer, clock, cache, lastGc, owner, arrived, got>>
    <2>1. rx' = [rx EXCEPT ![l] = Staged([r EXCEPT !.line = Tail(@), !.full = {w \in @ : w.f # f}])]
      BY DEF DispatchStale
    <2>2. rx' = [rx EXCEPT ![l] = s]
      BY <1>3, <1>4, <2>1
    <2> QED BY <2>2 DEF DispatchStale
  <1>6. Tail(r.line) \in Seq(Frames)
    BY <1>2, TailFacts
  <1>7. t \in RxRec
    BY <1>1, <1>3, <1>6 DEF RxRec
  <1>8. /\ t.todo = r.todo /\ t.line = Tail(r.line) /\ t.full = {w \in r.full : w.f # f}
        /\ t.out = r.out /\ t.kept = r.kept /\ t.base = r.base
    BY <1>1, <1>3 DEF RxRec
  <1>9. LinesOk(t) /\ Waiting(l, t) \subseteq Waiting(l, r) \ {Buf(l, f)}
    BY <1>1, <1>2, <1>8, LineFacts
  <1>10. s \in RxRec /\ SameLoad(t, s) /\ StageOk(s)
    BY <1>2, <1>4, <1>7, <1>8, StagedFacts
  <1>11. OwnApart(t)
    <2>1. Own(t.full) \subseteq Own(r.full)
      BY <1>8 DEF Own
    <2>2. SetApart(t.full)
      BY <1>1, <1>8 DEF SetApart, OwnApart
    <2> QED BY <1>1, <1>8, <2>1, <2>2 DEF OwnApart
  <1>12. Own(t.full) = Own(r.full) \ minus /\ minus \subseteq Own(r.full)
    <2>1. \A v, w \in r.full : v # w => v.own \cap w.own = {}
      BY <1>1 DEF OwnApart, SetApart
    <2> QED BY <1>8, <2>1 DEF Own, OwnedBy
  <1> HIDE DEF minus
  <1>13. Keeps(t) = Keep(l) \ minus /\ minus \subseteq Keep(l)
    <2>1. Keep(l) = Keeps(r)
      BY DEF Keep
    <2> QED BY <1>1, <1>2, <1>8, <1>12, <2>1 DEF Keeps, OwnApart
  <1>14. LinesOk(s) /\ OwnApart(s) /\ Keeps(s) = Keeps(t) /\ Waiting(l, s) = Waiting(l, t) /\ s.base = r.base
    BY <1>8, <1>9, <1>10, <1>11, LoadFacts DEF SameLoad
  <1>15. Cached' = Cached
    BY <1>5 DEF Cached
  <1>16. Waiting(l, s) \subseteq Pending(l)
    BY <1>9, <1>14 DEF Pending
  <1>17. Keeps(s) \cup Cached' = ((Keep(l) \cup Cached) \ minus) \cup {}
    BY <1>1, <1>13, <1>14, <1>15
  <1>18. Keeps(s) \cap Cached' = {}
    BY <1>1, <1>13, <1>14, <1>15
  <1>19. RefInv'
    BY <1>1, <1>5, <1>10, <1>13, <1>14, <1>16, <1>17, <1>18, ThreadStep
  <1>20. Types'
    BY <1>5, <1>10, StepTypes DEF Types
  <1> QED BY <1>19, <1>20

\* A whole frame or a complete packet moves on to a batch.
LEMMA FrameStep ==
  ASSUME Types, RefInv, NEW l \in Links, DispatchFrame(l)
  PROVE  Types' /\ RefInv'
  <1> DEFINE r == rx[l]
             f == Head(r.line)
             q == IF f.p.local THEN "deliver" ELSE "forward"
             whole == [f |-> f, bufs |-> {Buf(l, f)}, own |-> {}]
  <1>1. /\ r \in RxRec /\ StageOk(r) /\ LinesOk(r) /\ OwnApart(r)
        /\ rx \in [Links -> RxRec] /\ Keep(l) \cap Cached = {}
        /\ \A c \in Caches : CacheOk(c, cache[c])
        /\ refs \in [Buffers -> Nat]
    BY Here DEF Types
  <1>2. r.line # << >> /\ r.todo = << >> /\ r.kept = {} /\ r.line \in Seq(Frames)
    BY <1>1 DEF DispatchFrame, StageOk, RxRec
  <1> DEFINE item == IF Fragment(f) THEN CHOOSE w \in r.full : w.f = f ELSE whole
  <1>3. PICK t : t = [r EXCEPT !.line = Tail(@), !.out[q] = Append(@, item),
                               !.full = {w \in @ : w.f # f}]
    BY Zenon
  <1>4. PICK s : s = Staged(t)
    OBVIOUS
  <1>5. /\ rx' = [rx EXCEPT ![l] = s]
        /\ UNCHANGED <<peer, clock, cache, lastGc, owner, refs, arrived, got>>
    <2>1. rx' = [rx EXCEPT ![l] = Staged([r EXCEPT !.line = Tail(@), !.out[q] = Append(@, item),
                                                   !.full = {w \in @ : w.f # f}])]
      BY DEF DispatchFrame
    <2>2. rx' = [rx EXCEPT ![l] = s]
      BY <1>3, <1>4, <2>1, Zenon
    <2> QED BY <2>2 DEF DispatchFrame
  <1>6. f \in Frames /\ Tail(r.line) \in Seq(Frames) /\ f \in ToSet(r.line) /\ (f.p.local \/ ~Fragment(f))
    <2>1. f.p.local \/ ~Fragment(f)
      BY DEF DispatchFrame
    <2>2. f \in Frames /\ Tail(r.line) \in Seq(Frames) /\ f \in ToSet(r.line)
      BY <1>2, TailFacts
    <2> QED BY <2>1, <2>2
  <1>7. /\ item \in ItemSet
        /\ item.own \cap Own({w \in r.full : w.f # f}) = {}
        /\ Own(r.full) = Own({w \in r.full : w.f # f}) \cup item.own
        /\ item.own \subseteq Own(r.full)
    <2>1. CASE Fragment(f)
      <3>1. f \in LocalHalves
        BY <1>6, <2>1 DEF LocalHalves
      <3>2. \E w \in r.full : w.f = f
        BY <1>1, <1>2, <1>6, <3>1 DEF LinesOk
      <3>3. item \in r.full /\ item.f = f
        BY <2>1, <3>2
      <3>4. \A w \in r.full : w.f = f => w = item
        BY <1>1, <3>3 DEF LinesOk
      <3>5. \A w \in r.full : w # item => w.own \cap item.own = {}
        BY <1>1, <3>3 DEF OwnApart, SetApart
      <3>6. item \in ItemSet
        BY <1>1, <3>3 DEF RxRec
      <3> QED BY <3>3, <3>4, <3>5, <3>6, ZenonT(40) DEF Own
    <2>2. CASE ~Fragment(f)
      <3>1. Buf(l, f) \in Buffers
        BY <1>6 DEF Buffers, Buf
      <3>2. item = whole
        BY <2>2
      <3>3. item \in ItemSet /\ item.own = {}
        <4>1. whole \in ItemSet /\ whole.own = {}
          BY <1>6, <3>1 DEF ItemSet
        <4> HIDE DEF item, whole
        <4> QED BY <3>2, <4>1
      <3>4. \A w \in r.full : w.f # f
        BY <1>1, <2>2 DEF LinesOk, LocalHalves
      <3>5. {w \in r.full : w.f # f} = r.full
        BY <3>4
      <3> QED BY <3>3, <3>5
    <2> QED BY <2>1, <2>2
  <1> HIDE DEF item
  <1>8. r.out \in OutSet
    BY <1>1 DEF RxRec
  <1>q. q \in {"deliver", "forward"}
    OBVIOUS
  <1> HIDE DEF q
  <1>9. r.out[q] \in Seq(ItemSet) /\ SeqApart(r.out[q]) /\ item.own \cap Own(ToSet(r.out[q])) = {}
    BY <1>1, <1>7, <1>8, <1>q DEF OutSet, OwnApart
  <1>10. /\ Append(r.out[q], item) \in Seq(ItemSet) /\ SeqApart(Append(r.out[q], item))
         /\ Own(ToSet(Append(r.out[q], item))) = Own(ToSet(r.out[q])) \cup item.own
    BY <1>7, <1>9, OwnAppend
  <1>11. PICK out : out = [r.out EXCEPT ![q] = Append(@, item)]
    OBVIOUS
  <1>12. out \in OutSet
    BY <1>8, <1>q, <1>10, <1>11 DEF OutSet
  <1>13. out[q] = Append(r.out[q], item) /\ \A k \in {"deliver", "forward"} : k # q => out[k] = r.out[k]
    BY <1>8, <1>q, <1>11 DEF OutSet
  <1>14. t = [r EXCEPT !.line = Tail(@), !.out = out, !.full = {w \in @ : w.f # f}]
    BY <1>1, <1>3, <1>11
  <1>15. t \in RxRec
    BY <1>1, <1>6, <1>12, <1>14 DEF RxRec
  <1>16. /\ t.todo = r.todo /\ t.line = Tail(r.line) /\ t.full = {w \in r.full : w.f # f}
         /\ t.out = out /\ t.kept = r.kept /\ t.base = r.base
    BY <1>1, <1>14 DEF RxRec
  <1>17. LinesOk(t) /\ Waiting(l, t) \subseteq Waiting(l, r) \ {Buf(l, f)}
    BY <1>1, <1>2, <1>16, LineFacts
  <1>18. s \in RxRec /\ SameLoad(t, s) /\ StageOk(s)
    BY <1>2, <1>4, <1>15, <1>16, StagedFacts
  <1>19. SetApart(t.full)
    BY <1>1, <1>16 DEF SetApart, OwnApart
  <1>20. OwnApart(t) /\ Keeps(t) = Keep(l)
    <2>1. Keep(l) = Keeps(r)
      BY DEF Keep
    <2>2. CASE q = "deliver"
      BY <1>1, <1>2, <1>7, <1>10, <1>13, <1>16, <1>19, <2>1, <2>2 DEF OwnApart, Keeps
    <2>3. CASE q = "forward"
      BY <1>1, <1>2, <1>7, <1>10, <1>13, <1>16, <1>19, <2>1, <2>3 DEF OwnApart, Keeps
    <2> QED BY <1>q, <2>2, <2>3
  <1>21. LinesOk(s) /\ OwnApart(s) /\ Keeps(s) = Keep(l) /\ Waiting(l, s) = Waiting(l, t) /\ s.base = r.base
    BY <1>16, <1>17, <1>18, <1>20, LoadFacts DEF SameLoad
  <1>22. Cached' = Cached /\ refs' = Counted({}, {})
    BY <1>1, <1>5, CountedNone DEF Cached
  <1>23. Waiting(l, s) \subseteq Pending(l)
    BY <1>17, <1>21 DEF Pending
  <1>24. RefInv'
    BY <1>1, <1>5, <1>18, <1>21, <1>22, <1>23, ThreadStep
  <1>25. Types'
    BY <1>5, <1>18, StepTypes DEF Types
  <1> QED BY <1>24, <1>25

\* Under the lock of the pairs: the fragment is stale, or the sweep.
LEMMA EnterPairsStep ==
  ASSUME Types, RefInv, NEW l \in Links, EnterPairs(l)
  PROVE  Types' /\ RefInv' /\ \A d \in Caches : Sub(cache'[d], cache[d])
  <1>1. /\ rx[l] \in RxRec /\ StageOk(rx[l]) /\ LinesOk(rx[l]) /\ OwnApart(rx[l])
        /\ rx \in [Links -> RxRec] /\ Keep(l) \cap Cached = {}
        /\ \A c \in Caches : CacheOk(c, cache[c]) /\ cache[c] \in CacheSet
        /\ refs \in [Buffers -> Nat]
    BY Here DEF Types
  <1>2. rx[l].pc = "pairlock" /\ UNCHANGED <<peer, clock, arrived, got>>
    BY DEF EnterPairs
  <1>3. CASE StillCurrent(rx[l].e)
    <2>1. PICK r : r = [rx[l] EXCEPT !.pc = "pairstore"]
      OBVIOUS
    <2>2. rx' = [rx EXCEPT ![l] = r]
      BY <1>1, <1>3, <2>1 DEF EnterPairs
    <2>3. r \in RxRec /\ SameLoad(rx[l], r) /\ r.pc = "pairstore"
      BY <1>1, <2>1 DEF RxRec, SameLoad, Pcs
    <2>4. StageOk(r)
      BY <1>1, <1>2, <2>3 DEF StageOk, SameLoad
    <2>5. Sweep("relay", rx[l].now) /\ "relay" \in Caches /\ rx[l].now \in 0..MaxTime
      BY <1>1, <1>3 DEF EnterPairs, Caches, RxRec
    <2>6. /\ RefInv' /\ cache' \in [Caches -> CacheSet] /\ lastGc' \in [Caches -> 0..MaxTime]
          /\ \A d \in Caches : Sub(cache'[d], cache[d])
      BY <1>2, <2>2, <2>3, <2>4, <2>5, SweepStep
    <2>7. owner' \in [Caches -> Links \cup {None}]
      BY <1>3 DEF EnterPairs, Types
    <2>8. Types'
      BY <1>2, <2>2, <2>3, <2>6, <2>7, StepTypes
    <2> QED BY <2>6, <2>8
  <1>4. CASE ~StillCurrent(rx[l].e)
    <2> DEFINE f == Head(rx[l].line)
    <2>1. PICK t : t = [rx[l] EXCEPT !.line = Tail(@)]
      OBVIOUS
    <2>2. PICK s : s = Staged(t)
      OBVIOUS
    <2>3. rx' = [rx EXCEPT ![l] = s] /\ UNCHANGED <<cache, lastGc, refs, owner>>
      BY <1>1, <1>4, <2>1, <2>2 DEF EnterPairs
    <2>4. /\ rx[l].line # << >> /\ rx[l].todo = << >> /\ rx[l].kept = {}
          /\ rx[l].line \in Seq(Frames) /\ ~Whole(f)
      BY <1>1, <1>2 DEF StageOk, RxRec
    <2>5. Tail(rx[l].line) \in Seq(Frames)
      BY <2>4, TailFacts
    <2>6. t \in RxRec
      BY <1>1, <2>1, <2>5 DEF RxRec
    <2>7. /\ t.todo = rx[l].todo /\ t.line = Tail(rx[l].line) /\ t.full = rx[l].full
          /\ t.out = rx[l].out /\ t.kept = rx[l].kept /\ t.base = rx[l].base
      BY <1>1, <2>1 DEF RxRec
    <2>8. t.full = {w \in rx[l].full : w.f # f}
      BY <1>1, <2>4, <2>7 DEF LinesOk, LocalHalves, Whole
    <2>9. LinesOk(t) /\ Waiting(l, t) \subseteq Waiting(l, rx[l]) \ {Buf(l, f)}
      BY <1>1, <2>4, <2>7, <2>8, LineFacts
    <2>10. OwnApart(t) /\ Keeps(t) = Keep(l)
      BY <1>1, <2>7 DEF OwnApart, Keeps, Keep
    <2>11. s \in RxRec /\ SameLoad(t, s) /\ StageOk(s)
      BY <2>2, <2>4, <2>6, <2>7, StagedFacts
    <2>12. LinesOk(s) /\ OwnApart(s) /\ Keeps(s) = Keep(l) /\ Waiting(l, s) = Waiting(l, t) /\ s.base = rx[l].base
      BY <2>7, <2>9, <2>10, <2>11, LoadFacts DEF SameLoad
    <2>13. Cached' = Cached /\ refs' = Counted({}, {})
      BY <1>1, <2>3, CountedNone DEF Cached
    <2>14. Waiting(l, s) \subseteq Pending(l)
      BY <2>9, <2>12 DEF Pending
    <2>15. RefInv'
      BY <1>1, <1>2, <2>3, <2>11, <2>12, <2>13, <2>14, ThreadStep
    <2>16. Types'
      BY <1>2, <2>3, <2>11, StepTypes DEF Types
    <2>17. \A d \in Caches : Sub(cache'[d], cache[d])
      BY <1>1, <2>3 DEF Sub
    <2> QED BY <2>15, <2>16, <2>17
  <1> QED BY <1>3, <1>4

\* FIRST, then LAST of a pair, and nothing else.
LEMMA PairFacts ==
  ASSUME NEW d \in Buffers, NEW b \in Buffers, d.f.i # b.f.i
  PROVE  LET x == PairItems({d, b}, b)
         IN /\ x[1] \in {d, b} /\ x[2] \in {d, b} /\ x[1] # x[2] /\ {d, b} = {x[1], x[2]}
  <1>1. d.f.i \in {1, 2} /\ b.f.i \in {1, 2}
    BY FrameFacts DEF Buffers
  <1> DEFINE u == CHOOSE c \in {d, b} : c.f.i = 1
             v == CHOOSE c \in {d, b} : c.f.i = 2
  <1>2. u \in {d, b} /\ u.f.i = 1
    BY <1>1
  <1>3. v \in {d, b} /\ v.f.i = 2
    BY <1>1
  <1>4. PairItems({d, b}, b) = <<u, v>>
    BY DEF PairItems
  <1> HIDE DEF u, v
  <1>5. <<u, v>>[1] = u /\ <<u, v>>[2] = v
    OBVIOUS
  <1>6. u # v
    BY <1>2, <1>3
  <1> QED BY <1>2, <1>3, <1>4, <1>5, <1>6

\* Two items at the end of a batch.
LEMMA OwnTwo ==
  ASSUME NEW s \in Seq(ItemSet), NEW x \in ItemSet, NEW y \in ItemSet, SeqApart(s),
         x.own \cap Own(ToSet(s)) = {}, y.own \cap Own(ToSet(s)) = {}, x.own \cap y.own = {}
  PROVE  /\ s \o <<x, y>> \in Seq(ItemSet) /\ SeqApart(s \o <<x, y>>)
         /\ Own(ToSet(s \o <<x, y>>)) = Own(ToSet(s)) \cup x.own \cup y.own
  <1>1. /\ Append(s, x) \in Seq(ItemSet) /\ SeqApart(Append(s, x))
        /\ Own(ToSet(Append(s, x))) = Own(ToSet(s)) \cup x.own
    BY OwnAppend
  <1>2. y.own \cap Own(ToSet(Append(s, x))) = {}
    BY <1>1
  <1>3. PICK t \in Seq(ItemSet) : t = Append(s, x)
    BY <1>1
  <1>4. /\ Append(t, y) \in Seq(ItemSet) /\ SeqApart(Append(t, y))
        /\ Own(ToSet(Append(t, y))) = Own(ToSet(t)) \cup y.own
    BY <1>1, <1>2, <1>3, OwnAppend
  <1>5. s \o <<x, y>> = Append(t, y)
    BY <1>3
  <1> QED BY <1>1, <1>3, <1>4, <1>5

\* Storing a fragment to relay.
LEMMA StorePairStep ==
  ASSUME Types, RefInv, NEW l \in Links, StorePair(l)
  PROVE  /\ Types' /\ RefInv' /\ cache'["local"] = cache["local"]
         /\ \A w \in 1..Ways : cache'["relay"][w] # None =>
              cache'["relay"][w] = cache["relay"][w] \/ cache'["relay"][w].e = rx[l].e
  <1> DEFINE f == Head(rx[l].line)
             b == Buf(l, f)
             L == cache["local"]
             C == cache["relay"]
             item(c) == [f |-> c.f, bufs |-> {c}, own |-> {c}]
             F == rx[l].out["forward"]
  <1>1. /\ rx[l] \in RxRec /\ StageOk(rx[l]) /\ LinesOk(rx[l]) /\ OwnApart(rx[l])
        /\ rx \in [Links -> RxRec] /\ Keep(l) \cap Cached = {}
        /\ \A c \in Caches : CacheOk(c, cache[c]) /\ cache[c] \in CacheSet
        /\ Held(L) \cap Held(C) = {} /\ "local" \in Caches /\ "relay" \in Caches
    BY Here DEF Types, Caches
  <1>2. /\ rx[l].pc = "pairstore" /\ rx[l].line # << >> /\ rx[l].todo = << >> /\ rx[l].kept = {}
        /\ rx[l].line \in Seq(Frames) /\ ~Whole(f)
    BY <1>1, Zenon DEF StorePair, StageOk, RxRec
  <1>3. /\ f \in Frames /\ b \in Buffers /\ b.f = f /\ b \in Pending(l)
        /\ b \notin Cached /\ b \notin Keep(l) /\ Fragment(f) /\ ~f.p.local
    BY <1>2, NextFragment
  <1>4. PICK r : r = Submitted(C, [p |-> f.p, e |-> rx[l].e], b, rx[l].now)
    OBVIOUS
  <1>5. PICK pair : pair = PairItems(r.whole, b)
    OBVIOUS
  <1>6. PICK fwd : fwd = IF r.whole = {} THEN F ELSE F \o <<item(pair[1]), item(pair[2])>>
    BY ZenonT(40)
  <1>7. PICK t : t = [rx[l] EXCEPT !.line = Tail(@), !.out["forward"] = fwd]
    OBVIOUS
  <1>8. PICK s : s = Staged(t)
    OBVIOUS
  <1> DEFINE plus == (Held(r.cache) \cup r.whole) \ Held(C)
             minus == Held(C) \ (Held(r.cache) \cup r.whole)
  <1>9. /\ cache' = [cache EXCEPT !["relay"] = r.cache]
        /\ refs' = Counted(plus, minus)
        /\ owner' = [owner EXCEPT !["relay"] = None]
        /\ UNCHANGED <<peer, clock, lastGc, arrived, got>>
    BY <1>4, Zenon DEF StorePair
  <1>10. rx' = [rx EXCEPT ![l] = s]
    BY <1>4, <1>5, <1>6, <1>7, <1>8, Zenon DEF StorePair
  <1> HIDE DEF b, C, L, f, F
  <1>f. f = Head(rx[l].line) /\ F = rx[l].out["forward"]
    BY DEF f, F
  <1>11. b \notin Held(C) /\ Cached = Held(C) \cup Held(L)
    BY <1>3 DEF Cached, C, L
  <1>12. rx[l].e \in 0..MaxEpoch /\ rx[l].now \in Nat /\ C \in CacheSet /\ CacheOk("relay", C)
    BY <1>1, FragmentsAssumption DEF RxRec, C
  <1>13. /\ r.cache \in CacheSet /\ CacheOk("relay", r.cache)
         /\ \A w \in 1..Ways : r.cache[w] # None => r.cache[w] = C[w] \/ r.cache[w].e = rx[l].e
         /\ \/ r.whole = {} /\ Held(r.cache) \subseteq Held(C) \cup {b}
            \/ \E d \in Held(C) : /\ d.f.p = b.f.p /\ d.f.i # b.f.i
                                  /\ r.whole = {d, b}
                                  /\ Held(r.cache) \subseteq Held(C) \ {d}
    <2>1. Fragment(b.f) /\ (b.f.p.local <=> "relay" = "local")
      BY <1>3
    <2>2. r = Submitted(C, [p |-> b.f.p, e |-> rx[l].e], b, rx[l].now)
      BY <1>3, <1>4
    <2> QED BY <1>3, <1>11, <1>12, <2>1, <2>2, StoreFacts
  <1>14. cache' \in [Caches -> CacheSet] /\ cache'["relay"] = r.cache /\ cache'["local"] = L
    BY <1>1, <1>9, <1>13 DEF Types, L, Caches
  <1>15. \A c \in Caches : CacheOk(c, cache'[c])
    BY <1>1, <1>13, <1>14 DEF Caches, L
  <1>16. Cached' = Held(r.cache) \cup Held(L)
    BY <1>14 DEF Cached
  <1>17. owner' \in [Caches -> Links \cup {None}]
    BY <1>9 DEF Types
  <1>18. Tail(rx[l].line) \in Seq(Frames) /\ rx[l].out \in OutSet /\ F \in Seq(ItemSet) /\ SeqApart(F)
    BY <1>1, <1>2, <1>f, TailFacts DEF RxRec, OutSet, OwnApart
  \* The invariant, once the batch has the right items.
  <1>19. ASSUME fwd \in Seq(ItemSet), SeqApart(fwd), NEW new,
                Own(ToSet(fwd)) = Own(ToSet(F)) \cup new, new \cap Keep(l) = {},
                plus \subseteq {b}, Keep(l) \cup new \cup Cached' = ((Keep(l) \cup Cached) \ minus) \cup plus,
                new \cap Cached' = {}, Cached' \subseteq Cached \cup {b}
         PROVE  RefInv' /\ Types'
    <2>1. t \in RxRec
      <3>1. [rx[l].out EXCEPT !["forward"] = fwd] \in OutSet
        BY <1>18, <1>19 DEF OutSet
      <3> QED BY <1>1, <1>7, <1>18, <3>1 DEF RxRec
    <2>2. /\ t.todo = rx[l].todo /\ t.line = Tail(rx[l].line) /\ t.full = rx[l].full
          /\ t.out["forward"] = fwd /\ t.out["deliver"] = rx[l].out["deliver"]
          /\ t.kept = {} /\ t.base = rx[l].base
      BY <1>1, <1>2, <1>7, <1>18 DEF RxRec, OutSet
    <2>3. t.full = {w \in rx[l].full : w.f # f}
      BY <1>1, <1>2, <2>2 DEF LinesOk, LocalHalves, Whole
    <2>4. LinesOk(t) /\ Waiting(l, t) \subseteq Waiting(l, rx[l]) \ {b}
      BY <1>1, <1>2, <1>f, <2>2, <2>3, LineFacts DEF b
    <2>5. Keeps(t) = Keep(l) \cup new
      BY <1>2, <1>19, <1>f, <2>2 DEF Keeps, Keep
    <2>6. OwnApart(t)
      <3>1. new \cap Own(rx[l].full) = {} /\ new \cap Own(ToSet(rx[l].out["deliver"])) = {}
        BY <1>19 DEF Keep, Keeps
      <3> QED BY <1>1, <1>19, <1>f, <2>2, <3>1 DEF OwnApart
    <2>7. s \in RxRec /\ SameLoad(t, s) /\ StageOk(s)
      BY <1>8, <2>1, <2>2, StagedFacts
    <2>8. /\ LinesOk(s) /\ OwnApart(s) /\ Keeps(s) = Keep(l) \cup new
          /\ Waiting(l, s) = Waiting(l, t) /\ s.base = rx[l].base
      BY <2>2, <2>4, <2>5, <2>6, <2>7, LoadFacts DEF SameLoad
    <2>9. Waiting(l, s) \subseteq Pending(l) /\ b \notin Waiting(l, s)
      BY <2>4, <2>8 DEF Pending
    <2>10. minus \subseteq Keep(l) \cup Cached
      BY <1>11
    <2> HIDE DEF minus, plus
    <2>11. plus \subseteq Pending(l) \ Waiting(l, s)
      BY <1>3, <1>19, <2>9
    <2>12. Keeps(s) \cap Cached' = {}
      BY <1>1, <1>3, <1>19, <2>8
    <2>13. Keeps(s) \cup Cached' = ((Keep(l) \cup Cached) \ minus) \cup plus
      BY <1>19, <2>8
    <2>14. RefInv'
      BY <1>9, <1>10, <1>15, <2>7, <2>8, <2>9, <2>10, <2>11, <2>12, <2>13, ThreadStep
    <2>15. Types'
      BY <1>9, <1>10, <1>14, <1>17, <2>7, StepTypes DEF Types
    <2> QED BY <2>14, <2>15
  <1>20. ASSUME r.whole = {}, Held(r.cache) \subseteq Held(C) \cup {b} PROVE RefInv' /\ Types'
    <2>1. fwd = F
      BY <1>6, <1>20
    <2>2. plus = Held(r.cache) \ Held(C) /\ minus = Held(C) \ Held(r.cache) /\ plus \subseteq {b}
      BY <1>20
    <2> HIDE DEF plus, minus
    <2>n. PICK new : new = {}
      OBVIOUS
    <2>3. Keep(l) \cup new \cup Cached' = ((Keep(l) \cup Cached) \ minus) \cup plus
      BY <1>1, <1>11, <1>16, <2>2, <2>n
    <2>4. Cached' \subseteq Cached \cup {b}
      BY <1>11, <1>16, <1>20
    <2>5. Own(ToSet(fwd)) = Own(ToSet(F)) \cup new /\ new \cap Keep(l) = {} /\ new \cap Cached' = {}
      BY <2>1, <2>n
    <2>6. fwd \in Seq(ItemSet) /\ SeqApart(fwd)
      BY <1>18, <2>1
    <2> QED BY <1>19, <2>2, <2>3, <2>4, <2>5, <2>6
  <1>21. ASSUME NEW d \in Held(C), d.f.p = b.f.p, d.f.i # b.f.i,
                r.whole = {d, b}, Held(r.cache) \subseteq Held(C) \ {d}
         PROVE  RefInv' /\ Types'
    <2>1. d \in Buffers /\ d \in Cached /\ d # b
      BY <1>11, <1>12, <1>21, HeldType
    <2>2. PICK u, v : u = pair[1] /\ v = pair[2]
      OBVIOUS
    <2>3. u \in {d, b} /\ v \in {d, b} /\ u # v /\ {d, b} = {u, v}
      BY <1>3, <1>5, <1>21, <2>1, <2>2, PairFacts
    <2>4. u \in Buffers /\ v \in Buffers /\ u.f \in Frames /\ v.f \in Frames
      BY <1>3, <2>1, <2>3 DEF Buffers
    <2>5. item(u) \in ItemSet /\ item(v) \in ItemSet /\ item(u).own = {u} /\ item(v).own = {v}
      BY <2>4 DEF ItemSet
    <2>6. fwd = F \o <<item(u), item(v)>>
      BY <1>6, <1>21, <2>2
    <2> HIDE DEF item
    <2>7. {u, v} \cap Keep(l) = {}
      BY <1>1, <1>3, <2>1, <2>3
    <2>8. Own(ToSet(F)) \subseteq Keep(l)
      BY <1>f DEF Keep, Keeps
    <2>9. item(u).own \cap Own(ToSet(F)) = {} /\ item(v).own \cap Own(ToSet(F)) = {} /\ item(u).own \cap item(v).own = {}
      BY <2>3, <2>5, <2>7, <2>8
    <2>10. PICK x \in ItemSet, y \in ItemSet : x = item(u) /\ y = item(v)
      BY <2>5
    <2>11. /\ fwd \in Seq(ItemSet) /\ SeqApart(fwd)
           /\ Own(ToSet(fwd)) = Own(ToSet(F)) \cup x.own \cup y.own
      BY <1>18, <2>6, <2>9, <2>10, OwnTwo
    <2>12. Own(ToSet(fwd)) = Own(ToSet(F)) \cup {d, b}
      BY <2>3, <2>5, <2>10, <2>11
    <2>13. plus = {b} /\ minus = Held(C) \ (Held(r.cache) \cup {d})
      BY <1>11, <1>21
    <2> HIDE DEF plus, minus
    <2>14. Keep(l) \cup {d, b} \cup Cached' = ((Keep(l) \cup Cached) \ minus) \cup plus
      BY <1>1, <1>3, <1>11, <1>16, <1>21, <2>13
    <2>15. {d, b} \cap Cached' = {}
      BY <1>1, <1>3, <1>11, <1>16, <1>21
    <2>16. Cached' \subseteq Cached \cup {b}
      BY <1>11, <1>16, <1>21
    <2> QED BY <1>19, <2>3, <2>7, <2>11, <2>12, <2>13, <2>14, <2>15, <2>16
  <1>22. RefInv' /\ Types'
    BY <1>13, <1>20, <1>21
  <1>23. \A w \in 1..Ways : cache'["relay"][w] # None =>
           cache'["relay"][w] = cache["relay"][w] \/ cache'["relay"][w].e = rx[l].e
    BY ONLY <1>13, <1>14 DEF C
  <1>24. cache'["local"] = cache["local"]
    BY ONLY <1>14 DEF L
  <1> QED BY ONLY <1>22, <1>23, <1>24

\* t is what r is left with when the first item of its batch q, which owns own, is taken.
Took(r, q, own, t) ==
  /\ q \in {"deliver", "forward"} /\ r.out[q] # << >> /\ own = Head(r.out[q]).own
  /\ t.full = r.full /\ t.out = [r.out EXCEPT ![q] = Tail(r.out[q])]

\* The first item of a batch leaves it, for the handler or for the pool.
LEMMA ItemFacts ==
  ASSUME NEW r \in RxRec, OwnApart(r), NEW q, NEW t, NEW own, Took(r, q, own, t)
  PROVE  /\ t.out \in OutSet /\ own \in SUBSET Buffers /\ own \subseteq Keeps(r)
         /\ r.out["deliver"] = << >> => t.out["deliver"] = << >>
         /\ t.kept = r.kept => OwnApart(t) /\ Keeps(t) = Keeps(r) \ own
         /\ t.kept = r.kept \cup own => OwnApart(t) /\ Keeps(t) = Keeps(r)
  <1>t. /\ q \in {"deliver", "forward"} /\ r.out[q] # << >> /\ own = Head(r.out[q]).own
        /\ t.full = r.full /\ t.out = [r.out EXCEPT ![q] = Tail(r.out[q])]
    BY DEF Took
  <1> DEFINE D == r.out["deliver"]
             F == r.out["forward"]
  <1>1. D \in Seq(ItemSet) /\ F \in Seq(ItemSet) /\ r.out \in OutSet /\ SeqApart(D) /\ SeqApart(F)
    BY DEF RxRec, OutSet, OwnApart
  <1>2. CASE q = "deliver"
    <2>1. D # << >> /\ own = Head(D).own
      BY <1>2, <1>t
    <2>2. /\ Tail(D) \in Seq(ItemSet) /\ SeqApart(Tail(D)) /\ Head(D) \in ItemSet
          /\ Own(ToSet(D)) = Own(ToSet(Tail(D))) \cup own /\ own \cap Own(ToSet(Tail(D))) = {}
      BY <1>1, <2>1, OwnTail
    <2>3. t.out["deliver"] = Tail(D) /\ t.out["forward"] = F /\ t.out \in OutSet
      BY <1>1, <1>2, <1>t, <2>2 DEF OutSet
    <2>4. own \in SUBSET Buffers
      BY <2>1, <2>2 DEF ItemSet
    <2> HIDE DEF D, F
    <2>5. /\ SetApart(r.full)
          /\ Own(r.full) \cap Own(ToSet(D)) = {} /\ Own(r.full) \cap Own(ToSet(F)) = {}
          /\ Own(ToSet(D)) \cap Own(ToSet(F)) = {}
          /\ r.kept \cap (Own(r.full) \cup Own(ToSet(D)) \cup Own(ToSet(F))) = {}
          /\ Keeps(r) = Own(r.full) \cup Own(ToSet(D)) \cup Own(ToSet(F)) \cup r.kept
      BY DEF OwnApart, Keeps, D, F
    <2>6. Keeps(t) = Own(r.full) \cup Own(ToSet(Tail(D))) \cup Own(ToSet(F)) \cup t.kept
      BY <1>t, <2>3 DEF Keeps
    <2>7. own \subseteq Keeps(r)
      BY <2>2, <2>5
    <2>8. ASSUME t.kept = r.kept PROVE OwnApart(t) /\ Keeps(t) = Keeps(r) \ own
      <3>1. Keeps(t) = Keeps(r) \ own
        BY <2>2, <2>5, <2>6, <2>8
      <3>2. OwnApart(t)
        BY <1>1, <1>t, <2>2, <2>3, <2>5, <2>8 DEF OwnApart
      <3> QED BY <3>1, <3>2
    <2>9. ASSUME t.kept = r.kept \cup own PROVE OwnApart(t) /\ Keeps(t) = Keeps(r)
      <3>1. Keeps(t) = Keeps(r)
        BY <2>2, <2>5, <2>6, <2>9
      <3>2. OwnApart(t)
        BY <1>1, <1>t, <2>2, <2>3, <2>5, <2>9 DEF OwnApart
      <3> QED BY <3>1, <3>2
    <2> QED BY <1>2, <2>1, <2>3, <2>4, <2>7, <2>8, <2>9 DEF D
  <1>3. CASE q = "forward"
    <2>1. F # << >> /\ own = Head(F).own
      BY <1>3, <1>t
    <2>2. /\ Tail(F) \in Seq(ItemSet) /\ SeqApart(Tail(F)) /\ Head(F) \in ItemSet
          /\ Own(ToSet(F)) = Own(ToSet(Tail(F))) \cup own /\ own \cap Own(ToSet(Tail(F))) = {}
      BY <1>1, <2>1, OwnTail
    <2>3. t.out["forward"] = Tail(F) /\ t.out["deliver"] = D /\ t.out \in OutSet
      BY <1>1, <1>3, <1>t, <2>2 DEF OutSet
    <2>4. own \in SUBSET Buffers
      BY <2>1, <2>2 DEF ItemSet
    <2> HIDE DEF D, F
    <2>5. /\ SetApart(r.full)
          /\ Own(r.full) \cap Own(ToSet(D)) = {} /\ Own(r.full) \cap Own(ToSet(F)) = {}
          /\ Own(ToSet(D)) \cap Own(ToSet(F)) = {}
          /\ r.kept \cap (Own(r.full) \cup Own(ToSet(D)) \cup Own(ToSet(F))) = {}
          /\ Keeps(r) = Own(r.full) \cup Own(ToSet(D)) \cup Own(ToSet(F)) \cup r.kept
      BY DEF OwnApart, Keeps, D, F
    <2>6. Keeps(t) = Own(r.full) \cup Own(ToSet(D)) \cup Own(ToSet(Tail(F))) \cup t.kept
      BY <1>t, <2>3 DEF Keeps
    <2>7. own \subseteq Keeps(r)
      BY <2>2, <2>5
    <2>8. ASSUME t.kept = r.kept PROVE OwnApart(t) /\ Keeps(t) = Keeps(r) \ own
      <3>1. Keeps(t) = Keeps(r) \ own
        BY <2>2, <2>5, <2>6, <2>8
      <3>2. OwnApart(t)
        BY <1>1, <1>t, <2>2, <2>3, <2>5, <2>8 DEF OwnApart
      <3> QED BY <3>1, <3>2
    <2>9. ASSUME t.kept = r.kept \cup own PROVE OwnApart(t) /\ Keeps(t) = Keeps(r)
      <3>1. Keeps(t) = Keeps(r)
        BY <2>2, <2>5, <2>6, <2>9
      <3>2. OwnApart(t)
        BY <1>1, <1>t, <2>2, <2>3, <2>5, <2>9 DEF OwnApart
      <3> QED BY <3>1, <3>2
    <2> QED BY <1>3, <2>1, <2>3, <2>4, <2>7, <2>8, <2>9 DEF D
  <1> QED BY <1>2, <1>3, <1>t

\* An item is handed over, or dropped because its life is over.
LEMMA FlushStep ==
  ASSUME Types, RefInv, NEW l \in Links, FlushItem(l)
  PROVE  Types' /\ RefInv'
  <1> DEFINE q == rx[l].pc
             own == Head(rx[l].out[q]).own
             out == [rx[l].out EXCEPT ![q] = Tail(rx[l].out[q])]
  <1>1. /\ rx[l] \in RxRec /\ StageOk(rx[l]) /\ LinesOk(rx[l]) /\ OwnApart(rx[l])
        /\ rx \in [Links -> RxRec] /\ Keep(l) \cap Cached = {}
        /\ \A c \in Caches : CacheOk(c, cache[c])
    BY Here DEF Types
  <1>2. q \in {"deliver", "forward"} /\ rx[l].out[q] # << >>
    BY DEF FlushItem
  <1>3. UNCHANGED <<peer, clock, cache, lastGc, owner, arrived>>
    BY DEF FlushItem
  <1>4. Cached' = Cached
    BY <1>3 DEF Cached
  \* What both outcomes have in common.
  <1>5. ASSUME NEW kept, NEW minus, NEW t,
               t = [rx[l] EXCEPT !.out = out, !.kept = kept],
               rx' = [rx EXCEPT ![l] = t], refs' = Counted({}, minus),
               \/ kept = rx[l].kept /\ minus = own
               \/ kept = rx[l].kept \cup own /\ minus = {}
        PROVE  Types' /\ RefInv'
    <2>1. /\ t.full = rx[l].full /\ t.out = out /\ t.kept = kept /\ t.base = rx[l].base
          /\ t.todo = rx[l].todo /\ t.line = rx[l].line /\ t.pc = q
      BY <1>1, <1>5 DEF RxRec
    <2>2. /\ out \in OutSet /\ own \in SUBSET Buffers /\ own \subseteq Keep(l)
          /\ rx[l].out["deliver"] = << >> => t.out["deliver"] = << >>
          /\ kept = rx[l].kept => OwnApart(t) /\ Keeps(t) = Keep(l) \ own
          /\ kept = rx[l].kept \cup own => OwnApart(t) /\ Keeps(t) = Keep(l)
      <3>1. Took(rx[l], q, own, t)
        BY <1>2, <2>1 DEF Took
      <3> HIDE DEF own, out, q
      <3> QED BY <1>1, <2>1, <3>1, ItemFacts DEF Keep
    <2> HIDE DEF own, out
    <2>3. rx[l].kept \in SUBSET Buffers
      BY <1>1 DEF RxRec
    <2>4. kept \in SUBSET Buffers
      BY <1>5, <2>2, <2>3
    <2>5. t \in RxRec
      BY <1>1, <1>5, <2>2, <2>4 DEF RxRec
    <2>6. LinesOk(t) /\ Waiting(l, t) = Pending(l)
      BY <1>1, <2>1 DEF LinesOk, Waiting, Pending
    <2>7. StageOk(t)
      BY <1>1, <1>2, <2>1, <2>2 DEF StageOk
    <2>8. OwnApart(t) /\ Keeps(t) = Keep(l) \ minus /\ minus \subseteq Keep(l)
      BY <1>5, <2>2
    <2>9. /\ Keeps(t) \cup Cached' = ((Keep(l) \cup Cached) \ minus) \cup {}
          /\ Keeps(t) \cap Cached' = {}
      BY <1>1, <1>4, <2>8
    <2>10. RefInv'
      BY <1>1, <1>3, <1>5, <2>1, <2>5, <2>6, <2>7, <2>8, <2>9, ThreadStep, ZenonT(40)
    <2>11. Types'
      BY <1>3, <1>5, <2>5, StepTypes DEF Types
    <2> QED BY <2>10, <2>11
  <1>6. CASE MayHand(rx[l].e)
    <2>1. PICK t : t = [rx[l] EXCEPT !.out = out, !.kept = rx[l].kept \cup own]
      OBVIOUS
    <2>2. rx' = [rx EXCEPT ![l].out[q] = Tail(@), ![l].kept = @ \cup own] /\ refs' = refs
      BY <1>6 DEF FlushItem
    <2>3. rx' = [rx EXCEPT ![l] = t]
      BY <1>1, <1>2, <2>1, <2>2 DEF RxRec, OutSet
    <2>4. refs' = Counted({}, {})
      BY <2>2, Here, CountedNone
    <2> HIDE DEF own, out, q
    <2> QED BY <1>5, <2>1, <2>3, <2>4
  <1>7. CASE ~MayHand(rx[l].e)
    <2>1. PICK t : t = [rx[l] EXCEPT !.out = out, !.kept = rx[l].kept]
      OBVIOUS
    <2>2. rx' = [rx EXCEPT ![l].out[q] = Tail(@)] /\ refs' = Counted({}, own)
      BY <1>7 DEF FlushItem
    <2>3. rx' = [rx EXCEPT ![l] = t]
      BY <1>1, <1>2, <2>1, <2>2 DEF RxRec, OutSet
    <2> HIDE DEF own, out, q
    <2> QED BY <1>5, <2>1, <2>2, <2>3
  <1> QED BY <1>6, <1>7

\* A handler has run: what its batch owned is released.
LEMMA HandedStep ==
  ASSUME Types, RefInv, NEW l \in Links, Delivered(l) \/ Forwarded(l)
  PROVE  Types' /\ RefInv'
  <1>1. /\ rx[l] \in RxRec /\ StageOk(rx[l]) /\ LinesOk(rx[l]) /\ OwnApart(rx[l])
        /\ rx \in [Links -> RxRec] /\ Keep(l) \cap Cached = {}
        /\ \A c \in Caches : CacheOk(c, cache[c])
    BY Here DEF Types
  <1>2. PICK t : t = [rx[l] EXCEPT !.kept = {}]
    OBVIOUS
  <1>3. PICK s : s = Staged(t)
    OBVIOUS
  <1>4. PICK minus : minus = rx[l].kept
    OBVIOUS
  <1>5. /\ rx' = [rx EXCEPT ![l] = s] /\ refs' = Counted({}, minus)
        /\ UNCHANGED <<peer, clock, cache, lastGc, owner, arrived, got>>
    BY <1>2, <1>3, <1>4 DEF Delivered, Forwarded
  <1>6. /\ t \in RxRec /\ t.kept = {} /\ t.todo = rx[l].todo /\ t.line = rx[l].line
        /\ t.full = rx[l].full /\ t.out = rx[l].out /\ t.base = rx[l].base
    BY <1>1, <1>2 DEF RxRec
  <1>7. LinesOk(t) /\ Waiting(l, t) = Pending(l)
    BY <1>1, <1>6 DEF LinesOk, Waiting, Pending
  <1>8. OwnApart(t) /\ Keeps(t) = Keep(l) \ minus /\ minus \subseteq Keep(l)
    BY <1>1, <1>4, <1>6 DEF OwnApart, Keeps, Keep
  <1>9. s \in RxRec /\ SameLoad(t, s) /\ StageOk(s)
    BY <1>3, <1>6, StagedFacts
  <1>10. /\ LinesOk(s) /\ OwnApart(s) /\ Keeps(s) = Keep(l) \ minus
         /\ Waiting(l, s) = Pending(l) /\ s.base = rx[l].base
    BY <1>6, <1>7, <1>8, <1>9, LoadFacts DEF SameLoad
  <1>11. Cached' = Cached
    BY <1>5 DEF Cached
  <1>12. /\ Keeps(s) \cup Cached' = ((Keep(l) \cup Cached) \ minus) \cup {}
         /\ Keeps(s) \cap Cached' = {} /\ minus \subseteq Keep(l) \cup Cached
    BY <1>1, <1>8, <1>10, <1>11
  <1>13. \A c \in Caches : CacheOk(c, cache'[c])
    BY <1>1, <1>5
  <1>14. RefInv'
    BY <1>5, <1>9, <1>10, <1>12, <1>13, ThreadStep
  <1>15. Types'
    BY <1>5, <1>9, StepTypes DEF Types
  <1> QED BY <1>14, <1>15

-----------------------------------------------------------------------------
\* Batches come and go

\* The references of links come and go.
LEMMA CountsBase ==
  ASSUME Counts, NEW plus, NEW minus,
         plus \cap Based = {}, minus \subseteq Based,
         Based' = (Based \ minus) \cup plus, Placed' = Placed,
         refs' = Counted(plus, minus)
  PROVE  Counts'
  <1>1. refs \in [Buffers -> Nat] /\ plus \cap minus = {}
    BY DEF Counts
  <1>2. ASSUME NEW b \in Buffers
        PROVE  /\ b \in Placed' /\ b \in Based' => refs'[b] = 2
               /\ b \in Placed' /\ b \notin Based' => refs'[b] = 1
               /\ b \notin Placed' /\ b \in Based' => refs'[b] = 1
               /\ b \notin Placed' /\ b \notin Based' => refs'[b] = 0
    <2>1. /\ b \in plus => refs'[b] = refs[b] + 1
          /\ b \in minus => refs'[b] = refs[b] - 1
          /\ b \notin plus /\ b \notin minus => refs'[b] = refs[b]
      BY <1>1, CountedFacts
    <2>2. /\ b \in Placed /\ b \in Based => refs[b] = 2
          /\ b \in Placed /\ b \notin Based => refs[b] = 1
          /\ b \notin Placed /\ b \in Based => refs[b] = 1
          /\ b \notin Placed /\ b \notin Based => refs[b] = 0
      BY DEF Counts
    <2>3. CASE b \in plus
      BY <2>1, <2>2, <2>3
    <2>4. CASE b \in minus
      BY <1>1, <2>1, <2>2, <2>4
    <2>5. CASE b \notin plus /\ b \notin minus
      BY <2>1, <2>2, <2>5
    <2> QED BY <2>3, <2>4, <2>5
  <1>3. \A b \in Buffers : refs'[b] \in Nat
    BY <1>2
  <1>4. refs' = [b \in Buffers |-> refs'[b]]
    BY <1>1 DEF Counted
  <1>5. refs' \in [Buffers -> Nat]
    BY <1>3, <1>4
  <1> QED BY <1>2, <1>5 DEF Counts

\* Thread l, which holds nothing, goes to r, which holds nothing but what just arrived.
LEMMA TurnStep ==
  ASSUME Types, RefInv, NEW l \in Links, NEW r \in RxRec, NEW plus, NEW minus,
         rx' = [rx EXCEPT ![l] = r], UNCHANGED cache, arrived \subseteq arrived',
         LinesOk(r), StageOk(r), OwnApart(r), Keep(l) = {}, Keeps(r) = {},
         Waiting(l, r) \subseteq arrived' \ arrived,
         r.base \subseteq {b \in arrived' : b.l = l},
         plus = r.base, minus = rx[l].base, plus = {} \/ minus = {},
         refs' = Counted(plus, minus)
  PROVE  RefInv'
  <1>1. rx'[l] = r /\ \A m \in Links : m # l => rx'[m] = rx[m]
    BY DEF Types
  <1>2. Stages'
    BY <1>1 DEF RefInv, Stages
  <1>3. Keep(l)' = {} /\ Pending(l)' = Waiting(l, r) /\ Cached' = Cached
    BY <1>1 DEF Keep, Pending, Cached
  <1>4. \A m \in Links : m # l => Keep(m)' = Keep(m) /\ Pending(m)' = Pending(m)
    BY <1>1 DEF Keep, Pending
  <1>5. \A m \in Links : Keep(m)' = Keep(m)
    BY <1>3, <1>4
  <1>6. /\ \A m, k \in Links : m # k => Keep(m) \cap Keep(k) = {}
        /\ \A m \in Links : Keep(m) \cap Cached = {} /\ Pending(m) \cap Cached = {}
        /\ \A m, k \in Links : Pending(m) \cap Keep(k) = {}
        /\ \A m \in Links : Pending(m) \cup Keep(m) \subseteq arrived
        /\ Cached \subseteq arrived
        /\ \A m \in Links : rx[m].base \subseteq {b \in arrived : b.l = m}
    BY DEF RefInv, Exclusive
  <1> HIDE DEF Keep, Keeps, Pending, Waiting, Cached
  <1>7. \A m, k \in Links : m # k => Keep(m)' \cap Keep(k)' = {}
    BY <1>5, <1>6
  <1>8. \A m \in Links : Keep(m)' \cap Cached' = {} /\ Pending(m)' \cap Cached' = {}
    BY <1>3, <1>4, <1>5, <1>6
  <1>9. \A m, k \in Links : Pending(m)' \cap Keep(k)' = {}
    BY <1>3, <1>4, <1>5, <1>6
  <1>10. \A m \in Links : Pending(m)' \cup Keep(m)' \subseteq arrived'
    BY <1>3, <1>4, <1>5, <1>6
  <1>11. \A m \in Links : rx'[m].base \subseteq {b \in arrived' : b.l = m}
    BY <1>1, <1>6
  <1>12. Cached' \subseteq arrived'
    BY <1>3, <1>6
  <1>13. /\ (\A m \in Links : OwnApart(rx[m]))'
         /\ (\A c \in Caches : CacheOk(c, cache[c]))'
    BY <1>1 DEF RefInv, Exclusive
  <1>14. Exclusive'
    BY <1>7, <1>8, <1>9, <1>10, <1>11, <1>12, <1>13 DEF Exclusive
  <1>15. Placed' = Placed
    BY <1>3, <1>5 DEF Placed
  <1> DEFINE others == UNION {rx[m].base : m \in Links \ {l}}
  <1>16. Based = others \cup minus
    BY DEF Based
  <1>17. Based' = others \cup plus
    <2>1. Based' = (UNION {rx'[m].base : m \in Links \ {l}}) \cup rx'[l].base
      BY DEF Based
    <2> QED BY <1>1, <2>1
  <1>18. others \cap plus = {} /\ others \cap minus = {}
    <2>1. \A b \in others : b.l # l
      BY <1>6
    <2>2. \A b \in plus \cup minus : b.l = l
      BY <1>6
    <2> HIDE DEF others
    <2> QED BY <2>1, <2>2
  <1> HIDE DEF others
  <1>19. Based' = (Based \ minus) \cup plus /\ plus \cap Based = {} /\ minus \subseteq Based
    BY <1>16, <1>17, <1>18
  <1>20. Counts'
    BY <1>15, <1>19, CountsBase DEF RefInv
  <1> QED BY <1>2, <1>14, <1>20 DEF RefInv

\* A thread with nothing before it holds nothing.
LEMMA EmptyThread ==
  ASSUME Types, RefInv, NEW l \in Links, rx[l].pc \in {"return", "idle"}
  PROVE  Keep(l) = {} /\ (rx[l].pc = "idle" => rx[l].base = {})
  <1>1. LinesOk(rx[l]) /\ StageOk(rx[l])
    BY Here
  <1>2. /\ rx[l].line = << >> /\ rx[l].out["deliver"] = << >> /\ rx[l].out["forward"] = << >>
        /\ rx[l].kept = {} /\ (rx[l].pc = "idle" => rx[l].base = {})
    BY <1>1 DEF StageOk
  <1>3. ToSet(<< >>) = {}
    BY DEF ToSet
  <1>4. rx[l].full = {}
    BY <1>1, <1>2, <1>3 DEF LinesOk
  <1>5. Own({}) = {}
    BY DEF Own
  <1> QED BY <1>2, <1>3, <1>4, <1>5 DEF Keep, Keeps

\* The record of an idle thread.
LEMMA IdleFacts ==
  /\ IdleRx \in RxRec /\ LinesOk(IdleRx) /\ StageOk(IdleRx) /\ OwnApart(IdleRx)
  /\ Keeps(IdleRx) = {} /\ \A l : Waiting(l, IdleRx) = {}
  <1>1. ToSet(<< >>) = {} /\ SeqInj(<< >>) /\ Len(<< >>) = 0 /\ SeqApart(<< >>)
    BY DEF ToSet, SeqInj, SeqApart
  <1>2. Own({}) = {}
    BY DEF Own
  <1>3. /\ IdleRx.pc = "idle" /\ IdleRx.base = {} /\ IdleRx.todo = << >> /\ IdleRx.line = << >>
        /\ IdleRx.full = {} /\ IdleRx.kept = {}
        /\ IdleRx.out["deliver"] = << >> /\ IdleRx.out["forward"] = << >>
    BY DEF IdleRx, NoQueue
  <1>4. IdleRx \in RxRec
    <2>1. NoQueue \in OutSet
      BY DEF NoQueue, OutSet
    <2>2. "idle" \in Pcs /\ 0 \in 0..MaxEpoch /\ 0 \in 0..MaxTime
      BY FragmentsAssumption DEF Pcs
    <2> QED BY <2>1, <2>2 DEF IdleRx, RxRec
  <1>5. LinesOk(IdleRx)
    BY <1>1, <1>3 DEF LinesOk
  <1>6. StageOk(IdleRx)
    BY <1>3 DEF StageOk
  <1>7. OwnApart(IdleRx) /\ Keeps(IdleRx) = {}
    BY <1>1, <1>2, <1>3 DEF OwnApart, SetApart, Keeps
  <1>8. \A l : Waiting(l, IdleRx) = {}
    BY <1>1, <1>3 DEF Waiting
  <1> QED BY <1>4, <1>5, <1>6, <1>7, <1>8

\* The call returns, and the link releases its references.
LEMMA ReturnStep ==
  ASSUME Types, RefInv, NEW l \in Links, Return(l)
  PROVE  Types' /\ RefInv'
  <1>1. Keep(l) = {}
    BY EmptyThread DEF Return
  <1>2. /\ rx' = [rx EXCEPT ![l] = IdleRx] /\ refs' = Counted({}, rx[l].base)
        /\ UNCHANGED <<peer, clock, cache, lastGc, owner, arrived, got>>
    BY DEF Return
  <1>3. PICK r \in RxRec : r = IdleRx
    BY IdleFacts
  <1>4. /\ LinesOk(r) /\ StageOk(r) /\ OwnApart(r) /\ Keeps(r) = {} /\ Waiting(l, r) = {}
        /\ r.base = {}
    BY <1>3, IdleFacts DEF IdleRx
  <1>5. RefInv'
    <2>1. PICK plus, minus : plus = {} /\ minus = rx[l].base
      OBVIOUS
    <2>2. /\ Waiting(l, r) \subseteq arrived' \ arrived /\ r.base \subseteq {b \in arrived' : b.l = l}
          /\ plus = r.base /\ minus = rx[l].base /\ plus = {} /\ refs' = Counted(plus, minus)
          /\ arrived \subseteq arrived' /\ UNCHANGED cache /\ rx' = [rx EXCEPT ![l] = r]
      BY <1>2, <1>3, <1>4, <2>1
    <2> QED BY <1>1, <1>4, <2>2, TurnStep
  <1>6. Types'
    BY <1>2, <1>3, StepTypes DEF Types
  <1> QED BY <1>5, <1>6

\* Frames arrive that the window does not know yet, or only duplicates.
LEMMA ReceiveStep ==
  ASSUME Types, RefInv, NEW l \in Links, NEW batch \in Batches, Receive(l, batch)
  PROVE  Types' /\ RefInv'
  <1> DEFINE B == {Buf(l, f) : f \in ToSet(batch)}
             ok == Accepted(window, batch).ok
             base == [IdleRx EXCEPT !.e = epoch, !.base = B, !.line = ok,
                                    !.todo = Selected(ok, LocalHalves)]
  <1>1. batch \in Seq(Frames) /\ SeqInj(batch) /\ window \in Windows
    BY FragmentsAssumption DEF SeqInj, Types, PeerTypes
  <1>2. /\ Accepted(window, batch).w \in Windows /\ Accepted(window, batch).lost \in Nat
        /\ ok \in Seq(Frames) /\ ToSet(ok) \subseteq ToSet(batch) /\ SeqInj(ok)
    BY <1>1, AcceptedFacts
  <1>3. ToSet(batch) \subseteq Frames
    BY <1>1 DEF ToSet
  <1>4. B \in SUBSET Buffers /\ \A b \in B : b.l = l
    BY <1>3 DEF Buf, Buffers
  <1>5. /\ rx[l].pc = "idle" /\ B \cap arrived = {} /\ arrived' = arrived \cup B
        /\ window' = Accepted(window, batch).w /\ lost' = lost + Accepted(window, batch).lost
        /\ passed' = passed \cup {Number(f) : f \in ToSet(ok)}
        /\ UNCHANGED <<epoch, life, clock, cache, lastGc, owner, got>>
    BY DEF Receive
  <1>6. lost' \in Nat
    BY <1>2, <1>5 DEF Types, PeerTypes
  <1>7. passed' \in SUBSET Nat
    <2>1. \A f \in ToSet(ok) : Number(f) \in Nat
      BY <1>2, <1>3, FrameFacts
    <2> QED BY <1>5, <2>1 DEF Types, PeerTypes
  <1>8. PeerTypes'
    BY <1>2, <1>5, <1>6, <1>7 DEF Types, PeerTypes
  <1>9. arrived' \in SUBSET Buffers
    BY <1>4, <1>5 DEF Types
  <1>10. ASSUME rx' \in [Links -> RxRec] PROVE Types'
    BY <1>5, <1>8, <1>9, <1>10 DEF Types
  <1>11. CASE ok = << >>
    <2>1. refs' = refs /\ rx' = rx
      BY <1>11 DEF Receive
    <2>2. Stages' /\ Counts'
      BY <1>5, <2>1 DEF RefInv, Stages, Counts, Placed, Cached, Based, Keep
    <2>3. \A m \in Links : Keep(m)' = Keep(m) /\ Pending(m)' = Pending(m)
      BY <2>1 DEF Keep, Pending
    <2>4. Cached' = Cached
      BY <1>5 DEF Cached
    <2>5. arrived \subseteq arrived'
      BY <1>5
    <2> HIDE DEF B, ok, base
    <2>6. Exclusive'
      BY <1>5, <2>1, <2>3, <2>4, <2>5 DEF RefInv, Exclusive
    <2>7. Types'
      BY <1>10, <2>1 DEF Types
    <2> QED BY <2>2, <2>6, <2>7 DEF RefInv
  <1>12. CASE ok # << >>
    <2>1. PICK t : t = base
      OBVIOUS
    <2>2. PICK s : s = Staged(t)
      OBVIOUS
    <2>3. PICK plus, minus : plus = B /\ minus = {}
      OBVIOUS
    <2>4. rx' = [rx EXCEPT ![l] = s] /\ refs' = Counted(plus, minus)
      BY <1>12, <2>1, <2>2, <2>3 DEF Receive
    <2> DEFINE todo == Selected(ok, LocalHalves)
    <2>5. todo \in Seq(Frames) /\ ToSet(todo) = ToSet(ok) \cap LocalHalves /\ SeqInj(todo)
      BY <1>2, SelectedFacts
    <2>6. epoch \in 0..MaxEpoch
      BY DEF Types, PeerTypes
    <2> HIDE DEF B, ok, todo
    <2>7. /\ t \in RxRec /\ t.line = ok /\ t.todo = todo /\ t.base = B /\ t.kept = {}
          /\ t.full = {} /\ t.out = NoQueue
      BY <1>2, <1>4, <2>1, <2>5, <2>6, IdleFacts DEF RxRec, IdleRx, todo
    <2>8. LinesOk(t)
      <3>1. ASSUME t.todo = << >> PROVE ToSet(t.line) \cap LocalHalves = {}
        <4>1. ToSet(<< >>) = {}
          BY DEF ToSet
        <4> QED BY <2>5, <2>7, <3>1, <4>1
      <3> QED BY <1>2, <2>5, <2>7, <3>1 DEF LinesOk
    <2>9. OwnApart(t) /\ Keeps(t) = {}
      <3>1. Own({}) = {} /\ ToSet(<< >>) = {} /\ SeqApart(<< >>) /\ SetApart({})
        BY DEF Own, ToSet, SeqApart, SetApart
      <3>2. t.out["deliver"] = << >> /\ t.out["forward"] = << >>
        BY <2>7 DEF NoQueue
      <3> QED BY <2>7, <3>1, <3>2 DEF OwnApart, Keeps
    <2>10. Waiting(l, t) \subseteq B
      BY <1>2, <2>5, <2>7 DEF Waiting, B
    <2>11. s \in RxRec /\ SameLoad(t, s) /\ StageOk(s)
      BY <2>2, <2>7, StagedFacts
    <2>12. /\ LinesOk(s) /\ OwnApart(s) /\ Keeps(s) = {} /\ Waiting(l, s) \subseteq B /\ s.base = B
      BY <2>7, <2>8, <2>9, <2>10, <2>11, LoadFacts DEF SameLoad
    <2>13. Keep(l) = {} /\ minus = rx[l].base /\ plus = s.base
      BY <1>5, <2>3, <2>12, EmptyThread
    <2>14. /\ Waiting(l, s) \subseteq arrived' \ arrived
           /\ s.base \subseteq {b \in arrived' : b.l = l} /\ arrived \subseteq arrived'
           /\ UNCHANGED cache
      BY <1>4, <1>5, <2>12
    <2>15. RefInv'
      BY <2>3, <2>4, <2>11, <2>12, <2>13, <2>14, TurnStep
    <2>16. Types'
      BY <1>10, <2>4, <2>11 DEF Types
    <2> QED BY <2>15, <2>16
  <1> QED BY <1>11, <1>12

-----------------------------------------------------------------------------
\* The life cycle and the clock

\* Steps that touch neither buffers nor caches.
LEMMA QuietSteps ==
  ASSUME Types, RefInv, Parity,
         Register \/ (\E op \in {"reset", "unregister"} : Quiesce(op)) \/ EndReset \/ Tick
  PROVE  Types' /\ RefInv'
  <1>1. UNCHANGED <<cache, lastGc, owner, refs, arrived, rx>>
    BY DEF Register, Quiesce, EndReset, Tick
  <1>2. RefInv'
    <2>1. /\ \A l \in Links : Keep(l)' = Keep(l) /\ Pending(l)' = Pending(l)
          /\ Cached' = Cached /\ Based' = Based
      BY <1>1 DEF Keep, Pending, Cached, Based
    <2>2. Stages'
      BY <1>1 DEF RefInv, Stages
    <2>3. Exclusive'
      BY <1>1, <2>1 DEF RefInv, Exclusive
    <2>4. Placed' = Placed
      BY <2>1 DEF Placed
    <2>5. Counts'
      BY <1>1, <2>1, <2>4 DEF RefInv, Counts
    <2> QED BY <2>2, <2>3, <2>5 DEF RefInv
  <1>3. /\ epoch \in 0..MaxEpoch /\ life \in Lives /\ window \in Windows /\ lost \in Nat
        /\ passed \in SUBSET Nat /\ clock \in 1..MaxTime /\ MaxTime \in Nat /\ MaxEpoch \in Nat
    BY FragmentsAssumption DEF Types, PeerTypes
  <1>4. ASSUME PeerTypes', clock' \in 1..MaxTime PROVE Types'
    BY <1>1, <1>4 DEF Types
  <1>5. CASE Register
    <2>1. epoch' \in Nat /\ epoch' <= MaxEpoch
      BY <1>3, <1>5 DEF Register
    <2>2. PeerTypes' /\ clock' = clock
      BY <1>3, <1>5, <2>1 DEF Register, PeerTypes, Lives
    <2> QED BY <1>2, <1>3, <1>4, <2>2
  <1>6. CASE \E op \in {"reset", "unregister"} : Quiesce(op)
    <2>1. epoch' = epoch + 1 /\ epoch + 2 <= MaxEpoch /\ life' \in {"reset", "unregister"}
      BY <1>6 DEF Quiesce
    <2>2. EmptyWindow \in Windows
      BY WindowAssumption DEF EmptyWindow, Windows
    <2>3. window' = EmptyWindow /\ lost' = 0 /\ passed' = {} /\ clock' = clock
      BY <1>6 DEF Quiesce
    <2>4. PeerTypes'
      BY <1>3, <2>1, <2>2, <2>3 DEF PeerTypes, Lives
    <2> QED BY <1>2, <1>3, <1>4, <2>3, <2>4
  <1>7. CASE EndReset
    <2>1. epoch' \in 0..MaxEpoch /\ life' \in Lives
      BY <1>3, <1>7 DEF EndReset, Parity, Closing3, Lives
    <2>2. PeerTypes' /\ clock' = clock
      BY <1>3, <1>7, <2>1 DEF EndReset, PeerTypes
    <2> QED BY <1>2, <1>3, <1>4, <2>2
  <1>8. CASE Tick
    <2>1. PeerTypes' /\ clock' \in 1..MaxTime
      BY <1>3, <1>8 DEF Tick, peer, PeerTypes
    <2> QED BY <1>2, <1>4, <2>1
  <1> QED BY <1>5, <1>6, <1>7, <1>8

\* A cache is cleared for the Peer that goes.
LEMMA ClearStep ==
  ASSUME Types, RefInv, NEW c \in Caches, Cleared(c), life' \in Lives
  PROVE  Types' /\ RefInv' /\ \A d \in Caches : Sub(cache'[d], cache[d])
  <1> DEFINE minus == Held(cache[c])
  <1>1. /\ cache' = [cache EXCEPT ![c] = EmptyCache] /\ refs' = Counted({}, minus)
        /\ UNCHANGED <<epoch, window, lost, passed, clock, lastGc, owner, arrived, rx, got>>
    BY DEF Cleared
  <1>2. cache \in [Caches -> CacheSet] /\ EmptyCache \in CacheSet
    BY DEF Types, EmptyCache, CacheSet
  <1>3. Types'
    BY <1>1, <1>2 DEF Types, PeerTypes
  <1>4. cache'[c] = EmptyCache /\ \A d \in Caches : d # c => cache'[d] = cache[d]
    BY <1>1, <1>2
  <1>5. \A d \in Caches : Sub(cache'[d], cache[d])
    BY <1>2, <1>4 DEF Sub, EmptyCache
  <1>6. \A d \in Caches : CacheOk(d, cache[d])
    BY DEF RefInv, Exclusive
  <1>7. \A d \in Caches : CacheOk(d, cache'[d])
    BY <1>2, <1>5, <1>6, SubFacts
  <1>8. Held(EmptyCache) = {}
    BY DEF Held, EmptyCache
  <1>9. Held(cache["local"]) \cap Held(cache["relay"]) = {} /\ Caches = {"local", "relay"}
    BY <1>6, HeldApart DEF Caches
  <1>10. Cached' = Cached \ minus /\ minus \subseteq Cached
    BY <1>4, <1>8, <1>9 DEF Cached
  <1> HIDE DEF minus
  <1>11. \A m \in Links : Keep(m)' = Keep(m) /\ Pending(m)' = Pending(m)
    BY <1>1 DEF Keep, Pending
  <1>12. Stages' /\ Based' = Based
    BY <1>1 DEF RefInv, Stages, Based
  <1>13. /\ \A m, k \in Links : m # k => Keep(m) \cap Keep(k) = {}
         /\ \A m \in Links : Keep(m) \cap Cached = {} /\ Pending(m) \cap Cached = {}
         /\ \A m, k \in Links : Pending(m) \cap Keep(k) = {}
         /\ \A m \in Links : Pending(m) \cup Keep(m) \subseteq arrived
         /\ Cached \subseteq arrived
         /\ \A m \in Links : rx[m].base \subseteq {b \in arrived : b.l = m} /\ OwnApart(rx[m])
    BY DEF RefInv, Exclusive
  <1> HIDE DEF Cached, Keep, Pending
  <1>14. Exclusive'
    BY <1>1, <1>7, <1>10, <1>11, <1>13 DEF Exclusive
  <1>15. Placed' = (Placed \ minus) \cup {} /\ minus \subseteq Placed
    BY <1>10, <1>11, <1>13 DEF Placed
  <1>16. Counts'
    <2>1. Counts /\ {} \cap Placed = {}
      BY DEF RefInv
    <2> QED BY <1>1, <1>12, <1>15, <2>1, CountsMove
  <1> QED BY <1>3, <1>5, <1>12, <1>14, <1>16 DEF RefInv

\* Both caches of a Peer that goes.
LEMMA ClearSteps ==
  ASSUME Types, RefInv, ClearLocal \/ ClearPairs
  PROVE  Types' /\ RefInv' /\ \A d \in Caches : Sub(cache'[d], cache[d])
  <1>1. life' \in Lives
    BY DEF ClearLocal, ClearPairs, Lives
  <1>2. PICK c \in Caches : Cleared(c)
    BY DEF ClearLocal, ClearPairs, Caches
  <1> QED BY <1>1, <1>2, ClearStep

-----------------------------------------------------------------------------
\* Lifetimes: the steps keep LifeInv

\* Where Staged takes a call, whatever its load.
LEMMA StagedPc ==
  ASSUME NEW t, "pc" \in DOMAIN t, "e" \in DOMAIN t
  PROVE  /\ Staged(t).pc \in {"reassemble", "dispatch", "deliver", "forward", "return"}
         /\ Staged(t).e = t.e
  <1> DEFINE pc == IF t.todo # << >> THEN "reassemble"
                   ELSE IF t.line # << >> THEN "dispatch"
                   ELSE IF t.out["deliver"] # << >> THEN "deliver"
                   ELSE IF t.out["forward"] # << >> THEN "forward" ELSE "return"
  <1>1. Staged(t) = [t EXCEPT !.pc = pc]
    BY DEF Staged
  <1>2. pc \in {"reassemble", "dispatch", "deliver", "forward", "return"}
    OBVIOUS
  <1> HIDE DEF pc
  <1> QED BY <1>1, <1>2

\* What a step of thread l must show for the lifetimes.
LEMMA ThreadLife ==
  ASSUME Types, LifeInv, Types', NEW l \in Links, UNCHANGED <<epoch, life>>,
         \A m \in Links : m # l => rx'[m] = rx[m],
         rx'[l].pc # "idle" => rx'[l].e # 0,
         rx'[l].pc \in {"check", "store"} => owner'["local"] = l,
         rx'[l].pc = "pairstore" => owner'["relay"] = l,
         \A m \in Links, c \in Caches : m # l /\ owner[c] = m => owner'[c] = m,
         \A c \in Caches, w \in 1..Ways : cache'[c][w] # None => Aged(c, cache'[c][w].e),
         rx'[l].pc = "store" => Aged("local", rx'[l].e),
         rx'[l].pc = "pairstore" => Aged("relay", rx'[l].e)
  PROVE  LifeInv'
  <1>1. Parity'
    BY DEF LifeInv, Parity
  <1>2. \A c, e : Aged(c, e)' <=> Aged(c, e)
    BY DEF Aged
  <1>3. Locked'
    <2>1. "local" \in Caches /\ "relay" \in Caches
      BY DEF Caches
    <2> QED BY <2>1 DEF LifeInv, Locked
  <1> HIDE DEF Aged
  <1>4. EntriesAged'
    BY <1>2 DEF EntriesAged
  <1>5. ASSUME NEW m \in Links PROVE /\ rx'[m].pc = "store" => Aged("local", rx'[m].e)
                                     /\ rx'[m].pc = "pairstore" => Aged("relay", rx'[m].e)
    BY DEF LifeInv, StoresAged
  <1>6. StoresAged'
    BY <1>2, <1>5 DEF StoresAged
  <1>7. Begun'
    BY DEF LifeInv, Begun
  <1> QED BY <1>1, <1>3, <1>4, <1>6, <1>7 DEF LifeInv

\* An entry that was there and one that a thread which checked its epoch adds are of the
\* right life; so is a cleared cache.
LEMMA SubAged ==
  ASSUME LifeInv, \A d \in Caches : Sub(cache'[d], cache[d])
  PROVE  \A c \in Caches, w \in 1..Ways : cache'[c][w] # None => Aged(c, cache'[c][w].e)
  BY DEF LifeInv, EntriesAged, Sub

\* A thread whose epoch matches is in the life of an active Peer.
LEMMA MatchesAged ==
  ASSUME Types, LifeInv, NEW l \in Links, rx[l].pc # "idle", Matches(rx[l].e), NEW c
  PROVE  Aged(c, rx[l].e)
  <1>1. rx[l].e # 0 /\ rx[l].e = epoch /\ epoch % 2 = 0 /\ epoch \in Nat
    BY DEF LifeInv, Begun, Matches, Types, PeerTypes
  <1>2. life \in Lives /\ Parity
    BY DEF Types, PeerTypes, LifeInv
  <1>3. life = "idle"
    BY <1>1, <1>2 DEF Parity, Lives, Closing, Closing2, Closing3
  <1> QED BY <1>1, <1>3 DEF Aged

\* Steps of a thread that stay clear of locks and caches.
LEMMA PlainLife ==
  ASSUME Types, RefInv, LifeInv, Types', NEW l \in Links,
         \/ ReadClock(l) \/ DispatchStale(l) \/ DispatchFrame(l) \/ DispatchPair(l)
         \/ PairClock(l) \/ FlushItem(l) \/ Delivered(l) \/ Forwarded(l) \/ Return(l)
  PROVE  LifeInv'
  <1>1. UNCHANGED <<epoch, life, cache, owner>>
    BY Zenon DEF ReadClock, DispatchStale, DispatchFrame, DispatchPair, PairClock, FlushItem,
           Delivered, Forwarded, Return, peer
  <1>2. rx[l] \in RxRec /\ rx \in [Links -> RxRec]
    BY DEF Types
  <1>3. "pc" \in DOMAIN rx[l] /\ "e" \in DOMAIN rx[l]
    BY <1>2 DEF RxRec
  <1>4. ASSUME NEW t, DOMAIN t = DOMAIN rx[l], t.e = rx[l].e, rx' = [rx EXCEPT ![l] = Staged(t)]
        PROVE  /\ rx'[l].e = rx[l].e /\ rx'[l].pc \notin {"check", "store", "pairstore"}
               /\ \A m \in Links : m # l => rx'[m] = rx[m]
    BY <1>2, <1>3, <1>4, StagedPc
  <1>5. /\ rx'[l].pc # "idle" => rx[l].pc # "idle" /\ rx'[l].e = rx[l].e
        /\ rx'[l].pc \notin {"check", "store", "pairstore"}
        /\ \A m \in Links : m # l => rx'[m] = rx[m]
    <2>1. CASE ReadClock(l) \/ DispatchPair(l) \/ PairClock(l) \/ Return(l)
      BY <1>2, <1>3, <2>1 DEF ReadClock, DispatchPair, PairClock, Return, IdleRx, RxRec
    <2>2. CASE DispatchStale(l)
      <3>1. PICK t : t = [rx[l] EXCEPT !.line = Tail(@), !.full = {w \in @ : w.f # Head(rx[l].line)}]
        OBVIOUS
      <3>2. DOMAIN t = DOMAIN rx[l] /\ t.e = rx[l].e
        BY <1>2, <3>1 DEF RxRec
      <3>3. rx' = [rx EXCEPT ![l] = Staged(t)] /\ rx[l].pc = "dispatch"
        BY <2>2, <3>1 DEF DispatchStale
      <3> QED BY <1>4, <3>2, <3>3
    <2>3. CASE DispatchFrame(l)
      <3> DEFINE f == Head(rx[l].line)
                 q == IF f.p.local THEN "deliver" ELSE "forward"
                 item == IF Fragment(f) THEN CHOOSE w \in rx[l].full : w.f = f
                         ELSE [f |-> f, bufs |-> {Buf(l, f)}, own |-> {}]
      <3>1. PICK t : t = [rx[l] EXCEPT !.line = Tail(@), !.out[q] = Append(@, item),
                                       !.full = {w \in @ : w.f # f}]
        BY ZenonT(40)
      <3>2. rx' = [rx EXCEPT ![l] = Staged(t)] /\ rx[l].pc = "dispatch"
        BY <2>3, <3>1 DEF DispatchFrame
      <3> HIDE DEF f, q, item
      <3>3. DOMAIN t = DOMAIN rx[l] /\ t.e = rx[l].e
        BY <1>2, <3>1 DEF RxRec
      <3> QED BY <1>4, <3>2, <3>3, ZenonT(40)
    <2>4. CASE Delivered(l) \/ Forwarded(l)
      <3>1. PICK t : t = [rx[l] EXCEPT !.kept = {}]
        OBVIOUS
      <3>2. DOMAIN t = DOMAIN rx[l] /\ t.e = rx[l].e
        BY <1>2, <3>1 DEF RxRec
      <3>3. rx' = [rx EXCEPT ![l] = Staged(t)] /\ rx[l].pc \in {"deliver", "forward"}
        BY <2>4, <3>1 DEF Delivered, Forwarded
      <3> QED BY <1>4, <3>2, <3>3
    <2>5. CASE FlushItem(l)
      <3>1. rx'[l].pc = rx[l].pc /\ rx'[l].e = rx[l].e /\ \A m \in Links : m # l => rx'[m] = rx[m]
        <4> DEFINE q == rx[l].pc
                   out == [rx[l].out EXCEPT ![q] = Tail(rx[l].out[q])]
                   own == Head(rx[l].out[q]).own
        <4>1. q \in {"deliver", "forward"}
          BY <2>5, ZenonT(40) DEF FlushItem
        <4>2. \/ rx' = [rx EXCEPT ![l].out[q] = Tail(@), ![l].kept = @ \cup own]
              \/ rx' = [rx EXCEPT ![l].out[q] = Tail(@)]
          BY <2>5, ZenonT(40) DEF FlushItem
        <4>3. PICK kept : rx' = [rx EXCEPT ![l] = [rx[l] EXCEPT !.out = out, !.kept = kept]]
          <5>1. CASE rx' = [rx EXCEPT ![l].out[q] = Tail(@), ![l].kept = @ \cup own]
            <6>1. rx' = [rx EXCEPT ![l] = [rx[l] EXCEPT !.out = out, !.kept = rx[l].kept \cup own]]
              BY <1>2, <4>1, <5>1 DEF RxRec, OutSet
            <6> QED BY <6>1
          <5>2. CASE rx' = [rx EXCEPT ![l].out[q] = Tail(@)]
            <6>1. rx' = [rx EXCEPT ![l] = [rx[l] EXCEPT !.out = out, !.kept = rx[l].kept]]
              BY <1>2, <4>1, <5>2, Zenon DEF RxRec, OutSet
            <6> QED BY <6>1
          <5> QED BY <4>2, <5>1, <5>2, Zenon
        <4> HIDE DEF out, own, q
        <4> QED BY <1>2, <4>3 DEF RxRec
      <3>2. rx[l].pc \in {"deliver", "forward"}
        BY <2>5, Zenon DEF FlushItem
      <3> QED BY <3>1, <3>2
    <2> QED BY <2>1, <2>2, <2>3, <2>4, <2>5
  <1>6. rx'[l].pc # "idle" => rx'[l].e # 0
    BY <1>5 DEF LifeInv, Begun
  <1>7. \A c \in Caches, w \in 1..Ways : cache'[c][w] # None => Aged(c, cache'[c][w].e)
    BY <1>1 DEF LifeInv, EntriesAged
  <1> QED BY <1>1, <1>5, <1>6, <1>7, ThreadLife

\* A call begins while the Peer is active.
LEMMA ReceiveLife ==
  ASSUME Types, RefInv, LifeInv, Types', NEW l \in Links, NEW batch \in Batches, Receive(l, batch)
  PROVE  LifeInv'
  <1>1. UNCHANGED <<epoch, life, cache, owner>> /\ life = "idle"
    BY DEF Receive
  <1>2. rx[l] \in RxRec /\ rx \in [Links -> RxRec] /\ epoch # 0
    BY <1>1 DEF Types, LifeInv, Parity
  <1>3. \A c \in Caches, w \in 1..Ways : cache'[c][w] # None => Aged(c, cache'[c][w].e)
    BY <1>1 DEF LifeInv, EntriesAged
  <1> DEFINE B == {Buf(l, f) : f \in ToSet(batch)}
             ok == Accepted(window, batch).ok
  <1>4. CASE ok = << >>
    <2>1. rx' = rx
      BY <1>4 DEF Receive
    <2>2. /\ rx[l].pc # "idle" => rx[l].e # 0
          /\ rx[l].pc \in {"check", "store"} => owner["local"] = l
          /\ rx[l].pc = "pairstore" => owner["relay"] = l
          /\ rx[l].pc = "store" => Aged("local", rx[l].e)
          /\ rx[l].pc = "pairstore" => Aged("relay", rx[l].e)
      BY DEF LifeInv, Begun, Locked, StoresAged
    <2> QED BY <1>1, <1>3, <2>1, <2>2, ThreadLife
  <1>5. CASE ok # << >>
    <2>1. PICK t : t = [IdleRx EXCEPT !.e = epoch, !.base = B, !.line = ok,
                                      !.todo = Selected(ok, LocalHalves)]
      OBVIOUS
    <2>2. rx' = [rx EXCEPT ![l] = Staged(t)]
      BY <1>5, <2>1 DEF Receive
    <2> HIDE DEF B, ok
    <2>3. "pc" \in DOMAIN t /\ "e" \in DOMAIN t /\ t.e = epoch
      BY <2>1 DEF IdleRx
    <2>4. /\ rx'[l].e = epoch /\ rx'[l].pc \notin {"check", "store", "pairstore"}
          /\ \A m \in Links : m # l => rx'[m] = rx[m]
      BY <1>2, <2>2, <2>3, StagedPc
    <2> QED BY <1>1, <1>2, <1>3, <2>4, ThreadLife
  <1> QED BY <1>4, <1>5

\* Taking a lock takes it from no thread, and giving it up neither.
LEMMA OwnerKept ==
  ASSUME Types, NEW l \in Links, NEW c \in Caches, owner[c] = None \/ owner[c] = l,
         NEW v \in {l, None}, owner' = [owner EXCEPT ![c] = v]
  PROVE  owner'[c] = v /\ \A m \in Links, d \in Caches : m # l /\ owner[d] = m => owner'[d] = m
  <1>1. owner \in [Caches -> Links \cup {None}]
    BY DEF Types
  <1> QED BY <1>1, NoneAssumption

\* Entering reassembly.
LEMMA EnterLife ==
  ASSUME Types, RefInv, LifeInv, NEW l \in Links, EnterReassembly(l)
  PROVE  LifeInv'
  <1>1. Types' /\ \A d \in Caches : Sub(cache'[d], cache[d])
    BY EnterStep
  <1>2. UNCHANGED <<epoch, life>> /\ owner' = [owner EXCEPT !["local"] = l] /\ owner["local"] = None
    BY DEF EnterReassembly, peer
  <1>3. rx[l] \in RxRec /\ rx \in [Links -> RxRec]
    BY DEF Types
  <1>4. /\ rx'[l].pc = "check" /\ rx'[l].e = rx[l].e /\ rx[l].pc # "idle"
        /\ \A m \in Links : m # l => rx'[m] = rx[m]
    BY <1>3 DEF EnterReassembly, RxRec
  <1>5. "local" \in Caches
    BY DEF Caches
  <1>6. owner'["local"] = l /\ \A m \in Links, d \in Caches : m # l /\ owner[d] = m => owner'[d] = m
    BY <1>2, <1>5, OwnerKept
  <1>7. rx'[l].e # 0
    BY <1>4 DEF LifeInv, Begun
  <1>8. \A c \in Caches, w \in 1..Ways : cache'[c][w] # None => Aged(c, cache'[c][w].e)
    BY <1>1, SubAged
  <1> QED BY <1>1, <1>2, <1>4, <1>6, <1>7, <1>8, ThreadLife

\* After the last fragment of a batch, and only then, the lock is free.
LEMMA ReassembledLock ==
  ASSUME Types, RefInv, LifeInv, NEW l \in Links, rx[l].pc \in {"check", "store"}, NEW full,
         rx' = [rx EXCEPT ![l] = Reassembled(rx[l], full)], owner' = Unlocked("local", l)
  PROVE  /\ rx'[l].pc \notin {"store", "pairstore", "idle"} /\ rx'[l].e # 0
         /\ rx'[l].pc = "check" => owner'["local"] = l
         /\ \A m \in Links : m # l => rx'[m] = rx[m]
         /\ \A m \in Links, c \in Caches : m # l /\ owner[c] = m => owner'[c] = m
  <1>1. rx[l] \in RxRec /\ StageOk(rx[l]) /\ rx \in [Links -> RxRec]
    BY Here DEF Types
  <1>2. rx[l].todo \in Seq(Frames) /\ rx[l].todo # << >>
    BY <1>1 DEF StageOk, RxRec
  <1>3. Len(rx[l].todo) = 1 <=> Tail(rx[l].todo) = << >>
    BY <1>2, TailFacts
  <1>4. owner["local"] = l /\ rx[l].e # 0
    BY DEF LifeInv, Locked, Begun
  <1>5. rx'[l] = Reassembled(rx[l], full) /\ \A m \in Links : m # l => rx'[m] = rx[m]
    BY <1>1
  <1>6. CASE Tail(rx[l].todo) = << >>
    <2> DEFINE kept == Selected(rx[l].line, (Frames \ LocalHalves) \cup {w.f : w \in full})
    <2>1. PICK t : t = [rx[l] EXCEPT !.todo = Tail(rx[l].todo), !.full = full, !.line = kept]
      OBVIOUS
    <2>2. rx'[l] = Staged(t)
      BY <1>5, <1>6, <2>1 DEF Reassembled
    <2> HIDE DEF kept
    <2>3. "pc" \in DOMAIN t /\ "e" \in DOMAIN t /\ t.e = rx[l].e
      BY <1>1, <2>1 DEF RxRec
    <2>4. rx'[l].pc \notin {"check", "store", "pairstore", "idle"} /\ rx'[l].e = rx[l].e
      BY <2>2, <2>3, StagedPc
    <2>5. owner' = [owner EXCEPT !["local"] = None] /\ "local" \in Caches
      BY <1>3, <1>6 DEF Unlocked, Caches
    <2>6. \A m \in Links, c \in Caches : m # l /\ owner[c] = m => owner'[c] = m
      BY <1>4, <2>5, OwnerKept
    <2> QED BY <1>4, <1>5, <2>4, <2>6
  <1>7. CASE Tail(rx[l].todo) # << >>
    <2>1. rx'[l] = [rx[l] EXCEPT !.todo = Tail(rx[l].todo), !.pc = "check", !.full = full]
      BY <1>5, <1>7 DEF Reassembled
    <2>2. rx'[l].pc = "check" /\ rx'[l].e = rx[l].e
      BY <1>1, <2>1 DEF RxRec
    <2>3. owner' = owner
      BY <1>3, <1>7 DEF Unlocked
    <2> QED BY <1>4, <1>5, <2>2, <2>3
  <1> QED BY <1>6, <1>7

\* Reading the epoch under the lock.
LEMMA CheckLife ==
  ASSUME Types, RefInv, LifeInv, NEW l \in Links, CheckFragment(l)
  PROVE  LifeInv'
  <1>1. Types'
    BY CheckStep
  <1>2. UNCHANGED <<epoch, life, cache>> /\ rx[l].pc = "check"
    BY DEF CheckFragment, peer
  <1>3. rx[l] \in RxRec /\ rx \in [Links -> RxRec]
    BY DEF Types
  <1>4. \A c \in Caches, w \in 1..Ways : cache'[c][w] # None => Aged(c, cache'[c][w].e)
    BY <1>2 DEF LifeInv, EntriesAged
  <1>5. CASE StillCurrent(rx[l].e)
    <2>1. /\ rx'[l].pc = "store" /\ rx'[l].e = rx[l].e /\ owner' = owner
          /\ \A m \in Links : m # l => rx'[m] = rx[m]
      BY <1>3, <1>5 DEF CheckFragment, RxRec
    <2>2. Aged("local", rx[l].e) /\ owner["local"] = l /\ rx[l].e # 0
      BY <1>2, <1>5, MatchesAged DEF StillCurrent, LifeInv, Locked, Begun
    <2> QED BY <1>1, <1>2, <1>4, <2>1, <2>2, ThreadLife
  <1>6. CASE ~StillCurrent(rx[l].e)
    <2>1. rx' = [rx EXCEPT ![l] = Reassembled(rx[l], rx[l].full)] /\ owner' = Unlocked("local", l)
      BY <1>3, <1>6 DEF CheckFragment
    <2>2. /\ rx'[l].pc \notin {"store", "pairstore", "idle"} /\ rx'[l].e # 0
          /\ rx'[l].pc = "check" => owner'["local"] = l
          /\ \A m \in Links : m # l => rx'[m] = rx[m]
          /\ \A m \in Links, c \in Caches : m # l /\ owner[c] = m => owner'[c] = m
      BY <1>2, <2>1, ReassembledLock
    <2> QED BY <1>1, <1>2, <1>4, <2>2, ThreadLife
  <1> QED BY <1>5, <1>6

\* Storing what was checked under the same lock.
LEMMA StoreLife ==
  ASSUME Types, RefInv, LifeInv, NEW l \in Links, StoreFragment(l)
  PROVE  LifeInv'
  <1>1. /\ Types' /\ cache'["relay"] = cache["relay"]
        /\ \A w \in 1..Ways : cache'["local"][w] # None =>
              cache'["local"][w] = cache["local"][w] \/ cache'["local"][w].e = rx[l].e
    BY StoreStep
  <1>2. UNCHANGED <<epoch, life>> /\ rx[l].pc = "store" /\ owner' = Unlocked("local", l)
    BY Zenon DEF StoreFragment, peer
  <1>3. rx[l] \in RxRec /\ rx \in [Links -> RxRec]
    BY DEF Types
  <1>4. PICK full : rx' = [rx EXCEPT ![l] = Reassembled(rx[l], full)]
    <2> DEFINE f == Head(rx[l].todo)
               r == Submitted(cache["local"], [p |-> f.p, e |-> rx[l].e], Buf(l, f), rx[l].now)
               full == IF r.whole = {} THEN rx[l].full
                       ELSE rx[l].full \cup {[f |-> f, bufs |-> r.whole,
                                              own |-> {c \in r.whole : c.f.i = 1}]}
    <2>1. rx' = [rx EXCEPT ![l] = Reassembled(rx[l], full)]
      BY <1>3 DEF StoreFragment
    <2> HIDE DEF full
    <2> QED BY <2>1
  <1>5. Aged("local", rx[l].e)
    BY <1>2 DEF LifeInv, StoresAged
  <1>6. \A c \in Caches, w \in 1..Ways : cache'[c][w] # None => Aged(c, cache'[c][w].e)
    BY <1>1, <1>5 DEF LifeInv, EntriesAged, Caches
  <1>7. /\ rx'[l].pc \notin {"store", "pairstore", "idle"} /\ rx'[l].e # 0
        /\ rx'[l].pc = "check" => owner'["local"] = l
        /\ \A m \in Links : m # l => rx'[m] = rx[m]
        /\ \A m \in Links, c \in Caches : m # l /\ owner[c] = m => owner'[c] = m
    BY <1>2, <1>4, ReassembledLock
  <1> QED BY <1>1, <1>2, <1>6, <1>7, ThreadLife

\* The epoch check and the sweep of the pairs.
LEMMA EnterPairsLife ==
  ASSUME Types, RefInv, LifeInv, NEW l \in Links, EnterPairs(l)
  PROVE  LifeInv'
  <1>1. Types' /\ \A d \in Caches : Sub(cache'[d], cache[d])
    BY EnterPairsStep
  <1>2. UNCHANGED <<epoch, life>> /\ rx[l].pc = "pairlock" /\ owner["relay"] = None
    BY DEF EnterPairs, peer
  <1>3. rx[l] \in RxRec /\ rx \in [Links -> RxRec] /\ rx[l].e # 0
    BY <1>2 DEF Types, LifeInv, Begun
  <1>4. \A c \in Caches, w \in 1..Ways : cache'[c][w] # None => Aged(c, cache'[c][w].e)
    BY <1>1, SubAged
  <1>5. CASE StillCurrent(rx[l].e)
    <2>1. /\ rx'[l].pc = "pairstore" /\ rx'[l].e = rx[l].e /\ owner' = [owner EXCEPT !["relay"] = l]
          /\ \A m \in Links : m # l => rx'[m] = rx[m]
      BY <1>3, <1>5 DEF EnterPairs, RxRec
    <2>2. Aged("relay", rx[l].e) /\ "relay" \in Caches
      BY <1>2, <1>5, MatchesAged DEF StillCurrent, Caches
    <2>3. owner'["relay"] = l /\ \A m \in Links, d \in Caches : m # l /\ owner[d] = m => owner'[d] = m
      BY <1>2, <2>1, <2>2, OwnerKept
    <2> QED BY <1>1, <1>2, <1>3, <1>4, <2>1, <2>2, <2>3, ThreadLife
  <1>6. CASE ~StillCurrent(rx[l].e)
    <2>1. PICK t : t = [rx[l] EXCEPT !.line = Tail(@)]
      OBVIOUS
    <2>2. rx' = [rx EXCEPT ![l] = Staged(t)] /\ owner' = owner
      BY <1>6, <2>1 DEF EnterPairs
    <2>3. "pc" \in DOMAIN t /\ "e" \in DOMAIN t /\ t.e = rx[l].e
      BY <1>3, <2>1 DEF RxRec
    <2>4. /\ rx'[l].e = rx[l].e /\ rx'[l].pc \notin {"check", "store", "pairstore"}
          /\ \A m \in Links : m # l => rx'[m] = rx[m]
      BY <1>3, <2>2, <2>3, StagedPc
    <2> QED BY <1>1, <1>2, <1>3, <1>4, <2>2, <2>4, ThreadLife
  <1> QED BY <1>5, <1>6

\* Storing a half to relay, under the lock that covered the check.
LEMMA StorePairLife ==
  ASSUME Types, RefInv, LifeInv, NEW l \in Links, StorePair(l)
  PROVE  LifeInv'
  <1>1. /\ Types' /\ cache'["local"] = cache["local"]
        /\ \A w \in 1..Ways : cache'["relay"][w] # None =>
              cache'["relay"][w] = cache["relay"][w] \/ cache'["relay"][w].e = rx[l].e
    BY StorePairStep
  <1>2. /\ UNCHANGED <<epoch, life>> /\ rx[l].pc = "pairstore" /\ "relay" \in Caches
        /\ owner' = [owner EXCEPT !["relay"] = None]
    BY Zenon DEF StorePair, peer, Caches
  <1>3. rx[l] \in RxRec /\ rx \in [Links -> RxRec] /\ rx[l].e # 0 /\ owner["relay"] = l
    BY <1>2 DEF Types, LifeInv, Begun, Locked
  <1>4. Aged("relay", rx[l].e)
    BY <1>2 DEF LifeInv, StoresAged
  <1>5. \A c \in Caches, w \in 1..Ways : cache'[c][w] # None => Aged(c, cache'[c][w].e)
    BY <1>1, <1>4 DEF LifeInv, EntriesAged, Caches
  <1>6. \A m \in Links, d \in Caches : m # l /\ owner[d] = m => owner'[d] = m
    BY <1>2, <1>3, OwnerKept
  <1>7. PICK fwd : rx' = [rx EXCEPT ![l] = Staged([rx[l] EXCEPT !.line = Tail(@), !.out["forward"] = fwd])]
    <2> DEFINE f == Head(rx[l].line)
               b == Buf(l, f)
               r == Submitted(cache["relay"], [p |-> f.p, e |-> rx[l].e], b, rx[l].now)
               item(c) == [f |-> c.f, bufs |-> {c}, own |-> {c}]
               pair == PairItems(r.whole, b)
               fwd == IF r.whole = {} THEN rx[l].out["forward"]
                      ELSE rx[l].out["forward"] \o <<item(pair[1]), item(pair[2])>>
    <2>1. rx' = [rx EXCEPT ![l] = Staged([rx[l] EXCEPT !.line = Tail(@), !.out["forward"] = fwd])]
      BY Zenon DEF StorePair
    <2> HIDE DEF fwd
    <2> QED BY <2>1
  <1>8. PICK t : t = [rx[l] EXCEPT !.line = Tail(@), !.out["forward"] = fwd]
    OBVIOUS
  <1>9. "pc" \in DOMAIN t /\ "e" \in DOMAIN t /\ t.e = rx[l].e
    BY <1>3, <1>8 DEF RxRec
  <1>10. /\ rx'[l].e = rx[l].e /\ rx'[l].pc \notin {"check", "store", "pairstore"}
         /\ \A m \in Links : m # l => rx'[m] = rx[m]
    BY <1>3, <1>7, <1>8, <1>9, StagedPc
  <1> QED BY <1>1, <1>2, <1>3, <1>5, <1>6, <1>10, ThreadLife

\* While a Peer is closed and its caches are cleared, no entry of a cleared cache is left
\* and no thread is about to add one.
LEMMA PeerLife ==
  ASSUME Types, LifeInv, Types',
         Register \/ (\E op \in {"reset", "unregister"} : Quiesce(op)) \/ EndReset
  PROVE  LifeInv'
  <1>1. UNCHANGED <<cache, owner, rx>>
    BY DEF Register, Quiesce, EndReset
  <1>2. epoch \in Nat /\ life \in Lives /\ Parity
    BY FragmentsAssumption DEF Types, PeerTypes, LifeInv
  <1>3. Locked' /\ Begun'
    BY <1>1 DEF LifeInv, Locked, Begun
  <1>4. ASSUME \A c \in Caches, e \in 0..MaxEpoch : Aged(c, e) => Aged(c, e)'
        PROVE  EntriesAged' /\ StoresAged'
    <2>1. "local" \in Caches /\ "relay" \in Caches /\ \A l \in Links : rx[l].e \in 0..MaxEpoch
      BY DEF Caches, Types, RxRec
    <2>2. \A c \in Caches, w \in 1..Ways : cache[c][w] # None => cache[c][w].e \in 0..MaxEpoch
      BY ZenonT(40) DEF Types, CacheSet, Entries
    <2> HIDE DEF Aged
    <2> QED BY <1>1, <1>4, <2>1, <2>2 DEF LifeInv, EntriesAged, StoresAged
  <1>5. CASE Register
    <2>1. Parity'
      <3>1. epoch' % 2 = 0 /\ epoch' # 0 /\ life' = "idle"
        BY <1>2, <1>5 DEF Register
      <3> QED BY <3>1 DEF Parity, Closing, Closing2, Closing3
    <2>2. \A c \in Caches, e \in 0..MaxEpoch : ~Aged(c, e)
      BY <1>5 DEF Register, Aged, Uncleared, Closing, Closing2
    <2> QED BY <1>3, <1>4, <2>1, <2>2 DEF LifeInv
  <1>6. CASE \E op \in {"reset", "unregister"} : Quiesce(op)
    <2>1. /\ life = "idle" /\ life' \in Closing /\ epoch' = epoch + 1 /\ epoch + 2 <= MaxEpoch
      BY <1>6 DEF Quiesce, Closing
    <2>2. epoch % 2 = 0 /\ epoch' % 2 = 1 /\ epoch' + 1 <= MaxEpoch
      BY <1>2, <2>1, FragmentsAssumption DEF Parity
    <2>3. Parity'
      BY <2>1, <2>2 DEF Parity, Closing, Closing2, Closing3
    <2>4. \A c \in Caches, e \in 0..MaxEpoch : Aged(c, e) => Aged(c, e)'
      BY <1>2, <2>1 DEF Aged, Uncleared, Closing, Closing2
    <2> QED BY <1>3, <1>4, <2>3, <2>4 DEF LifeInv
  <1>7. CASE EndReset
    <2>1. \/ life = "reset3" /\ epoch' = epoch + 1 /\ life' = "idle"
          \/ life = "unregister3" /\ epoch' = epoch /\ life' = "none"
      BY <1>7 DEF EndReset
    <2>2. epoch % 2 = 1
      BY <1>2, <2>1 DEF Parity, Closing3
    <2>3. (epoch + 1) % 2 = 0
      BY <1>2, <2>2
    <2>4. Parity'
      BY <1>2, <2>1, <2>2, <2>3 DEF Parity, Closing, Closing2, Closing3
    <2>5. \A c \in Caches, e \in 0..MaxEpoch : ~Aged(c, e)
      BY <2>1 DEF Aged, Uncleared, Closing, Closing2
    <2> QED BY <1>3, <1>4, <2>4, <2>5 DEF LifeInv
  <1> QED BY <1>5, <1>6, <1>7

\* Clearing a cache takes its lock, so no thread is between its check and its store.
LEMMA ClearLife ==
  ASSUME Types, RefInv, LifeInv, ClearLocal \/ ClearPairs
  PROVE  LifeInv'
  <1>1. UNCHANGED <<epoch, owner, rx>> /\ \A d \in Caches : Sub(cache'[d], cache[d])
    BY ClearSteps DEF ClearLocal, ClearPairs, Cleared
  <1>2. Locked' /\ Begun'
    BY <1>1 DEF LifeInv, Locked, Begun
  <1>3. cache \in [Caches -> CacheSet] /\ Caches = {"local", "relay"}
    BY DEF Types, Caches
  <1>4. CASE ClearLocal
    <2>1. /\ life \in Closing /\ life' \in Closing2 /\ owner["local"] = None
          /\ cache' = [cache EXCEPT !["local"] = EmptyCache]
      BY <1>4 DEF ClearLocal, Cleared, MayClear, Closing, Closing2
    <2>2. Parity'
      BY <1>1, <2>1 DEF LifeInv, Parity, Closing, Closing2, Closing3
    <2>3. \A e : Aged("relay", e) => Aged("relay", e)'
      BY <1>1, <2>1 DEF Aged, Uncleared, Closing, Closing2
    <2>4. cache'["relay"] = cache["relay"] /\ \A w \in 1..Ways : cache'["local"][w] = None
      BY <1>3, <2>1 DEF EmptyCache
    <2>5. EntriesAged'
      BY <1>3, <2>3, <2>4 DEF LifeInv, EntriesAged
    <2>6. \A l \in Links : rx[l].pc # "store"
      BY <2>1, NoneAssumption DEF LifeInv, Locked
    <2>7. StoresAged'
      BY <1>1, <2>3, <2>6 DEF LifeInv, StoresAged
    <2> QED BY <1>2, <2>2, <2>5, <2>7 DEF LifeInv
  <1>5. CASE ClearPairs
    <2>1. /\ life \in Closing2 /\ life' \in Closing3 /\ owner["relay"] = None
          /\ cache' = [cache EXCEPT !["relay"] = EmptyCache]
      BY <1>5 DEF ClearPairs, Cleared, MayClear, Closing2, Closing3
    <2>2. Parity'
      BY <1>1, <2>1 DEF LifeInv, Parity, Closing, Closing2, Closing3
    <2>3. \A e : ~Aged("local", e)
      BY <2>1 DEF Aged, Uncleared, Closing, Closing2
    <2>4. cache'["local"] = cache["local"] /\ \A w \in 1..Ways : cache'["relay"][w] = None
      BY <1>3, <2>1 DEF EmptyCache
    <2>5. EntriesAged'
      BY <1>3, <2>3, <2>4 DEF LifeInv, EntriesAged
    <2>6. \A l \in Links : rx[l].pc # "store" /\ rx[l].pc # "pairstore"
      BY <2>1, <2>3, NoneAssumption DEF LifeInv, Locked, StoresAged
    <2>7. StoresAged'
      BY <1>1, <2>6 DEF StoresAged
    <2> QED BY <1>2, <2>2, <2>5, <2>7 DEF LifeInv
  <1> QED BY <1>4, <1>5

-----------------------------------------------------------------------------
\* The theorems

\* The inductive invariant.
Inv == Types /\ RefInv /\ LifeInv

\* Nothing has arrived in the initial state and nothing is counted.
LEMMA InitInv == Init => Inv
  <1> SUFFICES ASSUME Init PROVE Inv
    OBVIOUS
  <1>1. /\ epoch = 0 /\ life = "none" /\ window = EmptyWindow /\ lost = 0 /\ passed = {}
        /\ clock = 1 /\ cache = [c \in Caches |-> EmptyCache] /\ lastGc = [c \in Caches |-> 0]
        /\ owner = [c \in Caches |-> None] /\ refs = [b \in Buffers |-> 0] /\ arrived = {}
        /\ rx = [l \in Links |-> IdleRx]
    BY DEF Init
  <1>2. EmptyWindow \in Windows
    BY WindowAssumption DEF EmptyWindow, Windows
  <1>3. EmptyCache \in CacheSet /\ Held(EmptyCache) = {} /\ \A w \in 1..Ways : EmptyCache[w] = None
    BY DEF EmptyCache, CacheSet, Held
  <1>4. \A l \in Links : rx[l] = IdleRx
    BY <1>1
  <1>5. Types
    <2>1. 0 \in 0..MaxEpoch /\ 0 \in 0..MaxTime /\ 1 \in 1..MaxTime /\ "none" \in Lives
      BY FragmentsAssumption DEF Lives
    <2>2. rx \in [Links -> RxRec]
      BY <1>1, IdleFacts
    <2>3. cache \in [Caches -> CacheSet] /\ lastGc \in [Caches -> 0..MaxTime]
      BY <1>1, <1>3, <2>1
    <2> QED BY <1>1, <1>2, <2>1, <2>2, <2>3 DEF Types, PeerTypes
  <1>6. \A l \in Links : Keep(l) = {} /\ Pending(l) = {} /\ rx[l].base = {}
    <2>1. IdleRx.base = {}
      BY DEF IdleRx
    <2> QED BY <1>4, <2>1, IdleFacts DEF Keep, Pending
  <1>7. \A c \in Caches : cache[c] = EmptyCache
    BY <1>1
  <1>8. Cached = {}
    BY <1>3, <1>7 DEF Cached, Caches
  <1>9. Stages
    BY <1>4, IdleFacts DEF Stages
  <1>10. \A c \in Caches : CacheOk(c, cache[c])
    BY <1>3, <1>7 DEF CacheOk
  <1>11. \A l \in Links : OwnApart(rx[l])
    BY <1>4, IdleFacts
  <1>12. Exclusive
    BY <1>6, <1>8, <1>10, <1>11 DEF Exclusive
  <1>13. Placed = {} /\ Based = {}
    BY <1>6, <1>8 DEF Placed, Based
  <1>14. Counts
    BY <1>1, <1>13 DEF Counts
  <1>15. LifeInv
    <2>1. \A l \in Links : rx[l].pc = "idle"
      BY <1>4 DEF IdleRx
    <2>2. Parity
      BY <1>1 DEF Parity, Closing, Closing2, Closing3
    <2>3. Locked /\ StoresAged /\ Begun
      BY <2>1 DEF Locked, StoresAged, Begun
    <2>4. EntriesAged
      BY <1>3, <1>7 DEF EntriesAged
    <2> QED BY <2>2, <2>3, <2>4 DEF LifeInv
  <1> QED BY <1>5, <1>9, <1>12, <1>14, <1>15 DEF Inv, RefInv

\* Every step keeps the invariant.
LEMMA NextInv == Inv /\ [Next]_vars => Inv'
  <1> SUFFICES ASSUME Inv, [Next]_vars PROVE Inv'
    OBVIOUS
  <1> USE DEF Inv
  <1>1. CASE \E l \in Links, batch \in Batches : Receive(l, batch)
    BY <1>1, ReceiveStep, ReceiveLife
  <1>2. ASSUME NEW l \in Links, RxStep(l) PROVE Inv'
    <2>1. CASE ReadClock(l) \/ PairClock(l)
      BY <2>1, ClockSteps, PlainLife
    <2>2. CASE EnterReassembly(l)
      BY <2>2, EnterStep, EnterLife
    <2>3. CASE CheckFragment(l)
      BY <2>3, CheckStep, CheckLife
    <2>4. CASE StoreFragment(l)
      BY <2>4, StoreStep, StoreLife
    <2>5. CASE DispatchStale(l)
      BY <2>5, StaleStep, PlainLife
    <2>6. CASE DispatchFrame(l)
      BY <2>6, FrameStep, PlainLife
    <2>7. CASE DispatchPair(l)
      BY <2>7, PairStep, PlainLife
    <2>8. CASE EnterPairs(l)
      BY <2>8, EnterPairsStep, EnterPairsLife
    <2>9. CASE StorePair(l)
      BY <2>9, StorePairStep, StorePairLife
    <2>10. CASE FlushItem(l)
      BY <2>10, FlushStep, PlainLife
    <2>11. CASE Delivered(l) \/ Forwarded(l)
      BY <2>11, HandedStep, PlainLife
    <2>12. CASE Return(l)
      BY <2>12, ReturnStep, PlainLife
    <2> QED BY <1>2, <2>1, <2>2, <2>3, <2>4, <2>5, <2>6, <2>7, <2>8, <2>9, <2>10, <2>11, <2>12
            DEF RxStep
  <1>3. CASE Register \/ (\E op \in {"reset", "unregister"} : Quiesce(op)) \/ EndReset
    BY <1>3, QuietSteps, PeerLife DEF LifeInv
  <1>4. CASE ClearLocal \/ ClearPairs
    BY <1>4, ClearSteps, ClearLife
  <1>5. CASE Tick
    <2>1. Types' /\ RefInv'
      BY <1>5, QuietSteps DEF LifeInv
    <2>2. UNCHANGED <<epoch, life, cache, owner, rx>>
      BY <1>5 DEF Tick, peer
    <2>3. LifeInv'
      BY <2>2 DEF LifeInv, Parity, Locked, EntriesAged, StoresAged, Begun, Aged
    <2> QED BY <2>1, <2>3
  <1>6. CASE UNCHANGED vars
    <2>1. UNCHANGED <<epoch, life, window, lost, passed, clock, cache, lastGc, owner, refs,
                      arrived, rx>>
      BY <1>6 DEF vars
    <2>2. Types'
      BY <2>1 DEF Types, PeerTypes
    <2>3. /\ \A l \in Links : Keep(l)' = Keep(l) /\ Pending(l)' = Pending(l)
          /\ Cached' = Cached /\ Based' = Based
      BY <2>1 DEF Keep, Pending, Cached, Based
    <2>4. Stages'
      BY <2>1 DEF RefInv, Stages
    <2>5. Exclusive'
      BY <2>1, <2>3 DEF RefInv, Exclusive
    <2>6. Counts'
      <3>1. Placed' = Placed
        BY <2>3 DEF Placed
      <3> QED BY <2>1, <2>3, <3>1 DEF RefInv, Counts
    <2>7. LifeInv'
      BY <2>1 DEF LifeInv, Parity, Locked, EntriesAged, StoresAged, Begun, Aged
    <2> QED BY <2>2, <2>4, <2>5, <2>6, <2>7 DEF RefInv
  <1> QED BY <1>1, <1>2, <1>3, <1>4, <1>5, <1>6 DEF Next

\* The inductive invariant of the receive path holds: types, who holds which buffer, the
\* counts, the locks and the life every cached half belongs to.
THEOREM FragmentsInvariant == Spec => []Inv
  BY InitInv, NextInv, PTL DEF Spec

\* Whenever the Peer is active, both caches hold halves of this life only, for any number
\* of links, resets and cache ways.
THEOREM NoOldEntriesHolds == Spec => []NoOldEntries
  <1>1. Inv => NoOldEntries
    <2> SUFFICES ASSUME Inv, epoch % 2 = 0, NEW c \in Caches, NEW w \in 1..Ways, cache[c][w] # None
                 PROVE  cache[c][w].e = epoch
      BY DEF NoOldEntries
    <2>1. Aged(c, cache[c][w].e) /\ Parity
      BY DEF Inv, LifeInv, EntriesAged
    <2>2. life \notin Closing \cup Closing2
      BY <2>1 DEF Parity
    <2> QED BY <2>1, <2>2 DEF Aged, Uncleared
  <1> QED BY <1>1, FragmentsInvariant, PTL

\* A set with at most one element.
LEMMA AtMostOne ==
  ASSUME NEW S, \A x, y \in S : x = y
  PROVE  /\ S = {} => Cardinality(S) = 0
         /\ S # {} => Cardinality(S) = 1
  <1>1. ASSUME S = {} PROVE Cardinality(S) = 0
    BY <1>1, FS_EmptySet
  <1>2. ASSUME S # {} PROVE Cardinality(S) = 1
    <2>1. PICK x \in S : TRUE
      BY <1>2
    <2>2. S = {x}
      BY <2>1
    <2> QED BY <2>2, FS_Singleton
  <1> QED BY <1>1, <1>2

\* Reference counts are exact: every buffer is counted once for the link it arrived on
\* while its call is running and once for the one cache entry or batch that has it, for
\* any number of links, packets and cache ways and however the steps of the receive
\* threads, the resets and the clock interleave; no buffer is freed while in use and none
\* is lost to the pool.
THEOREM ReferencesExact == Spec => []RefsExact
  <1>1. Inv => RefsExact
    <2> SUFFICES ASSUME Inv PROVE RefsExact
      OBVIOUS
    <2>1. Types /\ Exclusive /\ Counts
      BY DEF Inv, RefInv
    <2>2. TypeOK
      <3>1. /\ epoch \in 0..MaxEpoch /\ window \in Windows /\ lost \in Nat /\ passed \subseteq Nat
            /\ life \in {"none", "idle", "reset", "reset2", "reset3", "unregister", "unregister2",
                         "unregister3"}
        BY <2>1 DEF Types, PeerTypes, Lives
      <3>2. /\ clock \in 1..MaxTime /\ lastGc \in [Caches -> 0..MaxTime]
            /\ owner \in [Caches -> Links \cup {None}] /\ arrived \subseteq Buffers
            /\ refs \in [Buffers -> Nat]
        BY <2>1 DEF Types, Counts
      <3>3. \A c \in Caches, w \in 1..Ways : cache[c][w] = None \/ cache[c][w] \in Entries
        BY <2>1 DEF Types, CacheSet
      <3>4. ASSUME NEW l \in Links
            PROVE  /\ rx[l].pc \in Pcs /\ rx[l].e \in 0..MaxEpoch /\ rx[l].now \in 0..MaxTime
                   /\ rx[l].base \subseteq Buffers /\ rx[l].kept \subseteq Buffers
                   /\ rx[l].todo \in Seq(Frames) /\ rx[l].line \in Seq(Frames)
                   /\ rx[l].full \subseteq ItemSet
                   /\ \A q \in {"deliver", "forward"} : rx[l].out[q] \in Seq(ItemSet)
        <4>1. rx[l] \in RxRec
          BY <2>1 DEF Types
        <4> QED BY <4>1 DEF RxRec, OutSet
      <3> QED BY <3>1, <3>2, <3>3, <3>4 DEF TypeOK
    <2>3. ASSUME NEW l \in Links PROVE Owned(l) = Keep(l)
      BY DEF Owned, Keep, Keeps, Own
    <2>4. ASSUME NEW b \in Buffers
          PROVE  refs[b] = Cardinality({c \in Caches : b \in Held(cache[c])})
                           + Cardinality({l \in Links : b \in Owned(l)})
                           + Cardinality({l \in Links : b \in rx[l].base})
      <3> DEFINE C == {c \in Caches : b \in Held(cache[c])}
                 K == {l \in Links : b \in Owned(l)}
                 D == {l \in Links : b \in rx[l].base}
      <3>1. Held(cache["local"]) \cap Held(cache["relay"]) = {}
        BY <2>1, HeldApart DEF Exclusive, Caches
      <3>2. /\ C = {} => Cardinality(C) = 0
            /\ C # {} => Cardinality(C) = 1
        <4>1. \A x, y \in C : x = y
          BY <3>1 DEF Caches
        <4> HIDE DEF C
        <4> QED BY <4>1, AtMostOne
      <3>3. /\ K = {} => Cardinality(K) = 0
            /\ K # {} => Cardinality(K) = 1
        <4>1. \A x, y \in K : x = y
          BY <2>1, <2>3 DEF Exclusive
        <4> HIDE DEF K
        <4> QED BY <4>1, AtMostOne
      <3>4. /\ D = {} => Cardinality(D) = 0
            /\ D # {} => Cardinality(D) = 1
        <4>1. \A x, y \in D : x = y
          BY <2>1 DEF Exclusive
        <4> HIDE DEF D
        <4> QED BY <4>1, AtMostOne
      <3>5. C # {} <=> b \in Cached
        BY DEF Cached, Caches
      <3>6. K # {} <=> \E l \in Links : b \in Keep(l)
        BY <2>3
      <3>7. D # {} <=> b \in Based
        BY DEF Based
      <3>8. b \in Placed <=> C # {} \/ K # {}
        BY <3>5, <3>6 DEF Placed
      <3>9. ~(C # {} /\ K # {})
        BY <2>1, <3>5, <3>6 DEF Exclusive
      <3>10. /\ b \in Placed /\ b \in Based => refs[b] = 2
             /\ b \in Placed /\ b \notin Based => refs[b] = 1
             /\ b \notin Placed /\ b \in Based => refs[b] = 1
             /\ b \notin Placed /\ b \notin Based => refs[b] = 0
        BY <2>1 DEF Counts
      <3> HIDE DEF C, K, D
      <3>11. refs[b] = Cardinality(C) + Cardinality(K) + Cardinality(D)
        <4>1. CASE C = {} /\ K = {} /\ D = {}
          BY <3>2, <3>3, <3>4, <3>7, <3>8, <3>10, <4>1
        <4>2. CASE C = {} /\ K = {} /\ D # {}
          BY <3>2, <3>3, <3>4, <3>7, <3>8, <3>10, <4>2
        <4>3. CASE (C # {} \/ K # {}) /\ D = {}
          BY <3>2, <3>3, <3>4, <3>7, <3>8, <3>9, <3>10, <4>3
        <4>4. CASE (C # {} \/ K # {}) /\ D # {}
          BY <3>2, <3>3, <3>4, <3>7, <3>8, <3>9, <3>10, <4>4
        <4> QED BY <4>1, <4>2, <4>3, <4>4
      <3> QED BY <3>11 DEF C, K, D
    <2> QED BY <2>2, <2>4 DEF RefsExact
  <1> QED BY <1>1, FragmentsInvariant, PTL

-----------------------------------------------------------------------------
\* The frames the window lets pass, and those it counts as lost

\* The numbers of some frames.
NumbersOf(S) == {Number(f) : f \in S}

\* No frame of a batch comes after one that is a window or more ahead of it.
NearBatch(s) == \A i, j \in 1..Len(s) : i < j => Number(s[i]) < Number(s[j]) + WinBits
NearBatches == \A batch \in Batches : NearBatch(batch)

\* The window w has let the numbers in P pass and n are lost.  It started less than Window
\* before the earliest of them, and, if batches are near, at the earliest.
Counting(w, P, n) ==
  \/ ~w.init /\ P = {} /\ n = 0
  \/ \E low, high : /\ Following(Base, w, low, high, P) /\ n = Cardinality(Missed(low, high, P))
                    /\ \E m \in P : m < low + Window
                    /\ NearBatches => low \in P

\* Frames have numbers the window tells apart.
LEMMA NumberFacts ==
  ASSUME NEW f \in Frames
  PROVE  Number(f) \in Numbers /\ Sq(f) = RingAt(Base, Number(f))
  <1>1. PICK h \in Nat : h = SeqCount \div 2
    BY DistType
  <1>2. f.p \in [first: 1..(h - 2), parts: {1, 2}, local: BOOLEAN] /\ f.i \in {1, 2}
    BY <1>1, FrameFacts, FragmentsAssumption
  <1>3. f.p.first + f.i - 1 \in 1..(h - 1)
    BY <1>2
  <1> QED BY <1>1, <1>3 DEF Number, Numbers, Sq, RingAt

\* _linkg_transport_rx_accept_batch keeps the account, and what passes has not passed.
LEMMA AcceptedCounting ==
  ASSUME NEW s \in Batches, NEW w \in Windows, NEW P, NEW n \in Nat, Counting(w, P, n)
  PROVE  LET r == Accepted(w, s)
         IN /\ Counting(r.w, P \cup NumbersOf(ToSet(r.ok)), n + r.lost)
            /\ \A f \in ToSet(r.ok) : Number(f) \notin P
            /\ ToSet(r.ok) \subseteq Frames
  <1>0. s \in Seq(Frames) /\ SeqInj(s)
    BY FragmentsAssumption DEF SeqInj
  <1>1. PICK g : /\ Accepted(w, s) = g[Len(s)]
                 /\ g[0] = [w |-> w, lost |-> 0, ok |-> << >>]
                 /\ \A i \in 1..Len(s) : g[i] = AcceptFrame(g[i - 1], s[i], ToSet(s))
    BY <1>0, AcceptedRun
  <1> DEFINE Q(i) == P \cup NumbersOf(ToSet(g[i].ok))
             Ahead(i, low, high) == high < low + WinBits /\ \E j \in (i + 1)..Len(s) : Number(s[j]) = low
             Running(i) ==
               \E low, high : /\ Following(Base, g[i].w, low, high, Q(i))
                              /\ n + g[i].lost = Cardinality(Missed(low, high, Q(i)))
                              /\ \E m \in Q(i) : m < low + Window
                              /\ NearBatches => low \in Q(i) \/ Ahead(i, low, high)
             Ok(i) == /\ g[i].w \in Windows /\ g[i].ok \in Seq(Frames) /\ g[i].lost \in Nat
                      /\ \A f \in ToSet(g[i].ok) : Number(f) \notin P
                      /\ \/ i = 0 /\ ~g[i].w.init /\ g[i].ok = << >> /\ P = {} /\ n = 0 /\ g[i].lost = 0
                         \/ Running(i)
             T == {i \in Nat : i <= Len(s) => Ok(i)}
  <1>2. WinBits \in Nat \ {0} /\ Window \in 1..WinBits /\ Window \in Nat \ {0} /\ Window <= WinBits /\ Base \in Int
    <2>1. WinBits \in Nat \ {0} /\ Window \in 1..WinBits /\ Base \in Nat
      BY FragmentsAssumption, DistType
    <2> QED BY ONLY <2>1
  <1>3. Numbers \subseteq Int
    BY DEF Numbers
  <1>4. NearBatches => NearBatch(s)
    BY DEF NearBatches
  <1>5. 0 \in T
    <2>1. g[0].w = w /\ g[0].lost = 0 /\ g[0].ok = << >> /\ << >> \in Seq(Frames)
      BY <1>1
    <2>2. ToSet(<< >>) = {} /\ NumbersOf(ToSet(g[0].ok)) = {}
      BY <2>1 DEF ToSet, NumbersOf
    <2>3. Q(0) = P /\ n + g[0].lost = n
      BY <2>1, <2>2
    <2> HIDE DEF Q, Running
    <2>4. ASSUME ~w.init /\ P = {} /\ n = 0 PROVE Ok(0)
      BY <2>1, <2>2, <2>4
    <2>5. ASSUME ~(~w.init /\ P = {} /\ n = 0) PROVE Ok(0)
      <3>1. PICK low, high : /\ Following(Base, w, low, high, P) /\ n = Cardinality(Missed(low, high, P))
                             /\ \E m \in P : m < low + Window
                             /\ NearBatches => low \in P
        BY <2>5 DEF Counting
      <3>2. /\ Following(Base, g[0].w, low, high, Q(0)) /\ n + g[0].lost = Cardinality(Missed(low, high, Q(0)))
            /\ \E m \in Q(0) : m < low + Window
            /\ NearBatches => low \in Q(0)
        BY <2>1, <2>3, <3>1
      <3> HIDE DEF Ahead
      <3>3. Running(0)
        BY <3>2 DEF Running
      <3> QED BY <2>1, <2>2, <3>3
    <2> HIDE DEF Ok
    <2> QED BY <2>4, <2>5
  <1>6. \A i \in Nat : i \in T => i + 1 \in T
    <2> SUFFICES ASSUME NEW i \in Nat, i + 1 <= Len(s), Ok(i) PROVE Ok(i + 1)
      <3> HIDE DEF Ok
      <3> QED OBVIOUS
    <2>1. s[i + 1] \in Frames /\ i + 1 \in 1..Len(s) /\ (i + 1) - 1 = i
      BY <1>0
    <2> DEFINE f == s[i + 1]
               x == Number(f)
               S == {Sq(h) : h \in ToSet(s)}
               N == NumbersOf(ToSet(s))
               p == Prepared(g[i].w, Sq(f), S, Window)
               a == WindowAccept(p, Sq(f))
    <2>2. g[i + 1] = AcceptFrame(g[i], f, ToSet(s))
      BY <1>1, <2>1
    <2>3. g[i + 1] = [w |-> a.w, lost |-> g[i].lost + a.lost,
                      ok |-> IF a.ok THEN Append(g[i].ok, f) ELSE g[i].ok]
      BY <2>2 DEF AcceptFrame
    <2>4. ToSet(s) \subseteq Frames /\ f \in ToSet(s)
      BY <1>0, <2>1 DEF ToSet
    <2>5. x \in Numbers /\ Sq(f) = RingAt(Base, x)
      BY <2>1, NumberFacts
    <2>6. N \subseteq Numbers /\ x \in N /\ S = RingOf(Base, N)
      <3>1. \A h \in ToSet(s) : Number(h) \in Numbers /\ Sq(h) = RingAt(Base, Number(h))
        BY <2>4, NumberFacts
      <3>2. S = RingOf(Base, N)
        BY <3>1 DEF NumbersOf, RingOf
      <3> QED BY <2>4, <3>1, <3>2 DEF NumbersOf
    <2>7. Q(i + 1) = IF a.ok THEN Q(i) \cup {x} ELSE Q(i)
      <3>1. a.ok => g[i + 1].ok = Append(g[i].ok, f)
        BY <2>3
      <3>2. ~a.ok => g[i + 1].ok = g[i].ok
        BY <2>3
      <3>3. ToSet(Append(g[i].ok, f)) = ToSet(g[i].ok) \cup {f}
        BY <2>1, AppendFacts
      <3> HIDE DEF a, f
      <3>4. a.ok => NumbersOf(ToSet(g[i + 1].ok)) = NumbersOf(ToSet(g[i].ok)) \cup {x}
        <4>1. NumbersOf(ToSet(g[i].ok) \cup {f}) = NumbersOf(ToSet(g[i].ok)) \cup {Number(f)}
          BY DEF NumbersOf
        <4> QED BY <3>1, <3>3, <4>1
      <3>5. CASE a.ok
        BY <3>4, <3>5
      <3>6. CASE ~a.ok
        BY <3>2, <3>6
      <3> QED BY <3>5, <3>6
    <2>8. g[i + 1].w = a.w /\ g[i + 1].lost = g[i].lost + a.lost
      BY <2>3
    <2>9. /\ a.ok => g[i + 1].ok = Append(g[i].ok, f)
          /\ ~a.ok => g[i + 1].ok = g[i].ok
      BY <2>3
    <2>t. a.w \in Windows /\ a.ok \in BOOLEAN /\ a.lost \in Nat
      <3>1. S \in SUBSET (0..(SeqCount - 1)) /\ Sq(f) \in 0..(SeqCount - 1)
        BY <2>1, <2>4, FrameFacts
      <3>2. Window \in Nat /\ Window <= SeqCount \div 2
        BY FragmentsAssumption, DistType
      <3> HIDE DEF S, f
      <3>3. p \in Windows
        BY <3>1, <3>2, PreparedType
      <3> HIDE DEF p
      <3> QED BY <3>1, <3>3, AcceptType
    <2>a. a = WindowAccept(p, RingAt(Base, x)) /\ p = Prepared(g[i].w, RingAt(Base, x), S, Window)
      BY <2>5, <2>6
    <2> HIDE DEF a, p, f, S, N, x
    <2>b. g[i + 1].w \in Windows /\ g[i + 1].ok \in Seq(Frames) /\ g[i + 1].lost \in Nat
      <3>1. Append(g[i].ok, f) \in Seq(Frames)
        BY <2>1, AppendFacts DEF f
      <3>2. g[i].ok \in Seq(Frames) /\ g[i].lost \in Nat
        OBVIOUS
      <3>3. g[i + 1].ok \in Seq(Frames)
        <4>1. CASE a.ok
          BY <2>9, <3>1, <4>1
        <4>2. CASE ~a.ok
          BY <2>9, <3>2, <4>2
        <4> QED BY <4>1, <4>2
      <3> QED BY ONLY <2>8, <2>t, <3>2, <3>3
    <2>10. CASE i = 0 /\ ~g[i].w.init /\ g[i].ok = << >> /\ P = {} /\ n = 0 /\ g[i].lost = 0
      <3>1. /\ a.ok /\ a.lost = 0
            /\ \E low \in N : /\ low <= x /\ x < low + Window
                              /\ Following(Base, a.w, low, x, {x})
        <4>1. PICK v : v = g[i].w
          OBVIOUS
        <4>2. /\ a = WindowAccept(Prepared(v, RingAt(Base, x), S, Window), RingAt(Base, x))
              /\ S = RingOf(Base, N) /\ Base \in Int /\ ~v.init /\ x \in Numbers
              /\ N \subseteq Numbers /\ x \in N /\ Window \in 1..WinBits
          BY <1>2, <2>5, <2>6, <2>10, <2>a, <4>1
        <4>3. a.ok /\ a.lost = 0
          BY ONLY <4>2, FirstAccept
        <4>4. \E low \in N : low <= x /\ x < low + Window /\ Following(Base, a.w, low, x, {x})
          BY ONLY <4>2, FirstAccept
        <4> QED BY <4>3, <4>4
      <3>2. PICK low \in N : low <= x /\ x < low + Window /\ Following(Base, a.w, low, x, {x})
        BY <3>1
      <3>3. g[i + 1].ok = Append(g[i].ok, f)
        BY <2>9, <3>1
      <3>4. g[i + 1].ok \in Seq(Frames) /\ ToSet(g[i + 1].ok) = {f}
        <4>1. ToSet(Append(g[i].ok, f)) = ToSet(g[i].ok) \cup {f} /\ Append(g[i].ok, f) \in Seq(Frames)
          BY <2>1, AppendFacts DEF f
        <4>2. ToSet(g[i].ok) = {}
          BY <2>10 DEF ToSet
        <4> QED BY <3>3, <4>1, <4>2
      <3>5. Q(i + 1) = {x}
        BY <2>10, <3>4 DEF NumbersOf, x
      <3>6. low \in Int /\ x \in Int
        BY <1>3, <2>5, <2>6
      <3>7. Cardinality(Missed(low, x, {x})) = 0
        <4>1. Missed(low, x, {x}) = {}
          BY <1>2, <3>2, <3>6 DEF Missed
        <4> QED BY <4>1, FS_EmptySet
      <3>8. n + g[i + 1].lost = 0 /\ g[i + 1].lost = 0
        BY <2>8, <2>10, <3>1
      <3>9. low \in {x} \/ Ahead(i + 1, low, x)
        <4>1. PICK j \in 1..Len(s) : low = Number(s[j])
          BY <1>0, SMTT(30) DEF N, NumbersOf, ToSet
        <4>2. x < low + WinBits
          BY <1>2, <3>2, <3>6
        <4>3. CASE j = 1
          BY <2>10, <4>1, <4>3 DEF x, f
        <4>4. CASE j # 1
          <5>1. j \in (i + 1 + 1)..Len(s)
            BY <2>10, <4>4
          <5> QED BY <4>1, <4>2, <5>1
        <4> QED BY <4>3, <4>4
      <3>10. Following(Base, g[i + 1].w, low, x, Q(i + 1))
        BY <2>8, <3>2, <3>5
      <3>11. \A h \in ToSet(g[i + 1].ok) : Number(h) \notin P
        BY <2>10
      <3> HIDE DEF Q, Ahead
      <3>12. Running(i + 1)
        BY <3>2, <3>5, <3>7, <3>8, <3>9, <3>10
      <3> QED BY <2>b, <3>11, <3>12
    <2>11. CASE Running(i)
      <3>1. PICK low, high : /\ Following(Base, g[i].w, low, high, Q(i))
                             /\ n + g[i].lost = Cardinality(Missed(low, high, Q(i)))
                             /\ \E m \in Q(i) : m < low + Window
                             /\ NearBatches => low \in Q(i) \/ Ahead(i, low, high)
        BY <2>11
      <3> DEFINE h == IF x > high THEN x ELSE high
      <3>2. p = g[i].w
        BY <3>1 DEF p, Prepared, Following
      <3> HIDE DEF Q
      <3>3. /\ Following(Base, a.w, low, h, Q(i + 1))
            /\ Cardinality(Missed(low, h, Q(i + 1))) = Cardinality(Missed(low, high, Q(i))) + a.lost
            /\ a.ok => x \notin Q(i)
            /\ x >= low /\ high - low < WinBits => x \in Q(i + 1)
        <4>1. /\ a = WindowAccept(g[i].w, RingAt(Base, x)) /\ Base \in Int /\ x \in Numbers
              /\ Following(Base, g[i].w, low, high, Q(i))
          BY <1>2, <2>5, <2>a, <3>1, <3>2
        <4>2. h = (IF x > high THEN x ELSE high)
          OBVIOUS
        <4> HIDE DEF h
        <4> QED BY ONLY <2>7, <4>1, <4>2, AcceptKeeps
      <3>4. /\ Following(Base, g[i + 1].w, low, h, Q(i + 1))
            /\ Cardinality(Missed(low, h, Q(i + 1))) = n + g[i].lost + a.lost
            /\ x >= low /\ high - low < WinBits => x \in Q(i + 1)
            /\ Q(i) \subseteq Q(i + 1)
        BY <2>7, <2>8, <3>1, <3>3
      <3>5. low \in Int /\ high \in Int /\ x \in Int
        BY <1>3, <2>5, <3>1 DEF Following
      <3>6. n + g[i + 1].lost = Cardinality(Missed(low, h, Q(i + 1)))
        BY <2>8, <2>t, <3>4
      <3>7. \E m \in Q(i + 1) : m < low + Window
        BY <3>1, <3>4
      <3>8. ASSUME NearBatches PROVE low \in Q(i + 1) \/ Ahead(i + 1, low, h)
        <4>1. CASE low \in Q(i)
          BY <3>4, <4>1
        <4>2. CASE Ahead(i, low, high)
          <5>1. PICK j \in (i + 1)..Len(s) : Number(s[j]) = low
            BY <4>2
          <5>2. high < low + WinBits
            BY <4>2
          <5>3. CASE j = i + 1
            <6>1. x = low
              BY <5>1, <5>3 DEF x, f
            <6> QED BY <1>2, <3>4, <3>5, <5>2, <6>1
          <5>4. CASE j # i + 1
            <6>1. j \in (i + 1 + 1)..Len(s) /\ i + 1 \in 1..Len(s) /\ j \in 1..Len(s) /\ i + 1 < j
              BY <2>1, <5>4
            <6>2. x < low + WinBits
              BY <1>4, <3>8, <5>1, <6>1 DEF NearBatch, x, f
            <6>3. h < low + WinBits
              BY <5>2, <6>2
            <6> QED BY <5>1, <6>1, <6>3
          <5> QED BY <5>3, <5>4
        <4> QED BY <3>1, <3>8, <4>1, <4>2
      <3> HIDE DEF Ahead, h
      <3>9. Running(i + 1)
        BY <3>4, <3>6, <3>7, <3>8
      <3>10. \A e \in ToSet(g[i + 1].ok) : Number(e) \notin P
        <4>1. CASE a.ok
          <5>1. ToSet(g[i + 1].ok) = ToSet(g[i].ok) \cup {f}
            <6>1. g[i].ok \in Seq(Frames) /\ f \in Frames /\ g[i + 1].ok = Append(g[i].ok, f)
              BY <2>1, <2>9, <4>1 DEF f
            <6> QED BY ONLY <6>1, AppendFacts
          <5>2. x \notin P
            BY <3>3, <4>1 DEF Q
          <5> QED BY <5>1, <5>2 DEF x
        <4>2. CASE ~a.ok
          BY <2>9, <4>2
        <4> QED BY <4>1, <4>2
      <3> QED BY <2>b, <3>9, <3>10
    <2> QED BY <2>10, <2>11
  <1>7. Len(s) \in T
    <2> HIDE DEF T
    <2> QED BY <1>0, <1>5, <1>6, SetInduction
  <1> DEFINE r == Accepted(w, s)
  <1>8. Ok(Len(s)) /\ r = g[Len(s)] /\ Len(s) \in Nat
    <2>1. Len(s) \in Nat /\ r = g[Len(s)]
      BY <1>0, <1>1
    <2> HIDE DEF Ok
    <2> QED BY <1>7, <2>1
  <1>9. Counting(r.w, Q(Len(s)), n + r.lost)
    <2>1. ASSUME Running(Len(s)) PROVE Counting(r.w, Q(Len(s)), n + r.lost)
      <3>1. \A low, high : ~Ahead(Len(s), low, high)
        BY <1>8
      <3> HIDE DEF Q, Ahead
      <3> QED BY <1>8, <2>1, <3>1 DEF Counting
    <2>2. ASSUME ~r.w.init, r.ok = << >>, P = {}, n = 0, r.lost = 0
          PROVE  Counting(r.w, Q(Len(s)), n + r.lost)
      <3>1. Q(Len(s)) = {}
        BY <1>8, <2>2 DEF NumbersOf, ToSet
      <3> QED BY <2>2, <3>1 DEF Counting
    <2> QED BY <1>8, <2>1, <2>2
  <1>10. ToSet(r.ok) \subseteq Frames
    BY <1>8 DEF ToSet
  <1> QED BY <1>8, <1>9, <1>10

-----------------------------------------------------------------------------
\* Every step keeps the account
LEMMA CountingNext ==
  ASSUME Types, Counting(window, passed, lost), [Next]_vars
  PROVE  Counting(window, passed, lost)'
  <1>1. ASSUME UNCHANGED <<window, passed, lost>> PROVE Counting(window, passed, lost)'
    BY <1>1
  <1>2. CASE \E l \in Links, batch \in Batches : Receive(l, batch)
    <2>1. PICK l \in Links, batch \in Batches : Receive(l, batch)
      BY <1>2
    <2>2. LET r == Accepted(window, batch)
          IN /\ window' = r.w /\ lost' = lost + r.lost
             /\ passed' = passed \cup NumbersOf(ToSet(r.ok))
      BY <2>1 DEF Receive, NumbersOf
    <2>3. window \in Windows /\ lost \in Nat
      BY DEF Types, PeerTypes
    <2> QED BY <2>2, <2>3, AcceptedCounting
  <1>3. CASE \E op \in {"reset", "unregister"} : Quiesce(op)
    <2>1. window' = EmptyWindow /\ lost' = 0 /\ passed' = {}
      BY <1>3 DEF Quiesce
    <2> QED BY <2>1 DEF Counting, EmptyWindow
  <1>4. ASSUME NEW l \in Links, RxStep(l) PROVE UNCHANGED <<window, passed, lost>>
    BY <1>4, Zenon DEF RxStep, ReadClock, EnterReassembly, CheckFragment, StoreFragment,
                       DispatchStale,
                DispatchFrame, DispatchPair, PairClock, EnterPairs, StorePair, FlushItem, Delivered,
                Forwarded, Return, peer
  <1>5. CASE Register \/ ClearLocal \/ ClearPairs \/ EndReset \/ Tick \/ UNCHANGED vars
    <2>1. UNCHANGED <<window, passed, lost>>
      BY <1>5 DEF Register, ClearLocal, ClearPairs, Cleared, EndReset, Tick, vars, peer
    <2> QED BY <1>1, <2>1
  <1> QED BY <1>1, <1>2, <1>3, <1>4, <1>5 DEF Next

\* The loss counter counts the frames that left the window without having arrived,
\* from where the window started: at the earliest frame that passed or less than the
\* reorder window before it.
LossCounted ==
  passed # {} =>
    \E start \in (Min(passed) - Window + 1)..Min(passed) :
      lost = Cardinality({n \in start..(Max(passed) - WinBits) : n \notin passed})

\* The ends of the numbers that passed.
LEMMA EndsOf ==
  ASSUME NEW low \in Int, NEW high \in Int, NEW P, P \subseteq low..high, high \in P
  PROVE  /\ Max(P) = high
         /\ low \in P => Min(P) = low
  <1>1. \A n \in P : n \in Int /\ low <= n /\ n <= high
    OBVIOUS
  <1>2. \A x, y \in P : x <= y /\ y <= x => x = y
    BY <1>1
  <1>3. Max(P) = high
    <2>1. \A y \in P : high >= y
      BY <1>1
    <2>2. Max(P) \in P /\ \A y \in P : Max(P) >= y
      BY <2>1 DEF Max
    <2>3. PICK m : m = Max(P)
      OBVIOUS
    <2>4. m \in Int /\ m <= high /\ m >= high
      BY <1>1, <2>2, <2>3
    <2> QED BY <2>3, <2>4
  <1>4. ASSUME low \in P PROVE Min(P) = low
    <2>1. \A y \in P : low <= y
      BY <1>1
    <2>2. Min(P) \in P /\ \A y \in P : Min(P) <= y
      BY <1>4, <2>1 DEF Min
    <2>3. PICK m : m = Min(P)
      OBVIOUS
    <2>4. m \in Int /\ m <= low /\ m >= low
      BY <1>1, <1>4, <2>2, <2>3
    <2> QED BY <2>3, <2>4
  <1> QED BY <1>3, <1>4

\* The account at any time.
LEMMA CountingLoss ==
  ASSUME Types, Counting(window, passed, lost)
  PROVE  LossCounted /\ (NearBatches => LossExact)
  <1>1. CASE passed = {}
    BY <1>1 DEF LossCounted, LossExact
  <1>2. CASE passed # {}
    <2>1. PICK low, high : /\ Following(Base, window, low, high, passed)
                           /\ lost = Cardinality(Missed(low, high, passed))
                           /\ \E m \in passed : m < low + Window
                           /\ NearBatches => low \in passed
      BY <1>2 DEF Counting
    <2>2. low \in Int /\ high \in Int /\ passed \subseteq low..high /\ high \in passed /\ low \in Nat
      <3>1. PICK h \in Int : Numbers = 1..h
        BY DistType DEF Numbers
      <3>2. low \in 1..h /\ high \in 1..h
        BY <2>1, <3>1 DEF Following
      <3> QED BY <2>1, <3>2 DEF Following
    <2>3. Max(passed) = high
      BY <2>2, EndsOf
    <2>4. {n \in low..(Max(passed) - WinBits) : n \notin passed} = Missed(low, high, passed)
      BY <2>3 DEF Missed
    <2>5. Window \in Int
      BY FragmentsAssumption, DistType
    <2>6. low \in (Min(passed) - Window + 1)..Min(passed)
      <3>1. passed \subseteq Nat
        BY DEF Types, PeerTypes
      <3>2. Min(passed) \in passed /\ \A n \in passed : Min(passed) <= n
        BY <1>2, <3>1, MinIn
      <3>3. PICK m \in passed : m < low + Window
        BY <2>1
      <3>4. Min(passed) <= m /\ Min(passed) >= low /\ Min(passed) \in Int /\ m \in Int
        <4>1. \A n \in passed : n \in Int /\ n >= low
          BY <2>2
        <4> QED BY <3>2, <3>3, <4>1
      <3> QED BY <2>2, <2>5, <3>3, <3>4
    <2>7. LossCounted
      BY <2>1, <2>4, <2>6 DEF LossCounted
    <2>8. ASSUME NearBatches PROVE LossExact
      <3>1. Min(passed) = low
        BY <2>1, <2>2, <2>8, EndsOf
      <3> QED BY <2>1, <2>4, <3>1 DEF LossExact
    <2> QED BY <2>7, <2>8
  <1> QED BY <1>1, <1>2

\* The window's account holds at any time.
LEMMA CountingAlways == Spec => []Counting(window, passed, lost)
  <1>1. Init => Counting(window, passed, lost)
    BY DEF Init, Counting, EmptyWindow
  <1>2. Inv /\ Counting(window, passed, lost) /\ [Next]_vars => Counting(window, passed, lost)'
    BY CountingNext DEF Inv
  <1> QED BY <1>1, <1>2, FragmentsInvariant, PTL DEF Spec

\* Whatever arrives, in any order and with any loss, the counter of lost frames is exact from
\* the place the window started at, which is less than the reorder window before the earliest
\* frame that passed.
THEOREM LossCountedHolds == Spec => []LossCounted
  <1>1. Inv /\ Counting(window, passed, lost) => LossCounted
    BY CountingLoss DEF Inv
  <1> QED BY <1>1, FragmentsInvariant, CountingAlways, PTL

\* If no batch of the driver holds a frame behind one that is a whole receive window or more
\* ahead of it, the window started at the earliest frame that passed and the counter is
\* exactly the number of frames that left the window without having arrived.
THEOREM LossExactHolds ==
  ASSUME NearBatches
  PROVE  Spec => []LossExact
  <1>1. Inv /\ Counting(window, passed, lost) => LossExact
    BY CountingLoss DEF Inv
  <1> QED BY <1>1, FragmentsInvariant, CountingAlways, PTL

-----------------------------------------------------------------------------
\* Where the frames of a life are

\* The frames whose buffers an item has, and those of several items.
Fr(w) == {b.f : b \in w.bufs}
FrOf(S) == UNION {Fr(w) : w \in S}
\* All frames of a packet.
WholeOf(p) == {Frame(p, i) : i \in 1..p.parts}

\* The frames a thread still has to store or dispatch, and those of its items.
Moves(r) == ToSet(r.todo) \cup (ToSet(r.line) \ LocalHalves)
Shows(r) == FrOf(r.full) \cup FrOf(ToSet(r.out["deliver"])) \cup FrOf(ToSet(r.out["forward"]))
Load(r) == Moves(r) \cup Shows(r)
\* The frames whose buffers are cached, and those that were handed on in this life.
CachedNow == {b.f : b \in Cached}
GotNow == UNION {h.frames : h \in {g \in got : g.e = epoch}}
Settled == CachedNow \cup GotNow

\* No frame is twice in the items of a thread, and none is still to come.
SeqFrApart(s) == \A i, j \in 1..Len(s) : i # j => Fr(s[i]) \cap Fr(s[j]) = {}
FramesApart(r) ==
  /\ \A v, w \in r.full : v # w => Fr(v) \cap Fr(w) = {}
  /\ SeqFrApart(r.out["deliver"]) /\ SeqFrApart(r.out["forward"])
  /\ FrOf(r.full) \cap FrOf(ToSet(r.out["deliver"])) = {}
  /\ FrOf(r.full) \cap FrOf(ToSet(r.out["forward"])) = {}
  /\ FrOf(ToSet(r.out["deliver"])) \cap FrOf(ToSet(r.out["forward"])) = {}
  /\ Moves(r) \cap Shows(r) = {}

\* Items for this node are whole packets, items to relay are single frames.
WholeItem(w) == \E p \in Packets : p.local /\ Fr(w) = WholeOf(p)
RelayItem(w) == ~w.f.p.local /\ w.f \in Frames /\ Fr(w) = {w.f}
Shaped(r) ==
  /\ \A w \in r.full : WholeItem(w)
  /\ \A w \in ToSet(r.out["deliver"]) : WholeItem(w)
  /\ \A w \in ToSet(r.out["forward"]) : RelayItem(w)
Clean(r) == FramesApart(r) /\ Shaped(r)

\* The first half of a packet as handed on in life e, and the order of a forward batch: a
\* last half comes behind its first, or the first is gone ahead.
FirstOf(p, e) == [frames |-> {Frame(p, 1)}, e |-> e, copy |-> 0]
InOrder(s, G, e) ==
  \A i \in 1..Len(s) :
    s[i].f.i = 2 => \/ FirstOf(s[i].f.p, e) \in G
                    \/ \E j \in 1..(i - 1) : s[j].f = Frame(s[i].f.p, 1)
Ordered(r, G, e) == InOrder(r.out["forward"], G, e)

\* While the Peer is active: every frame of this life that is cached, was handed on or is
\* in a call of this life, is in one such place and once, and the window let it pass.
Accounted ==
  life = "idle" =>
    /\ \A b, c \in Cached : b.f = c.f => b = c
    /\ CachedNow \cap GotNow = {}
    /\ NumbersOf(Settled) \subseteq passed
    /\ \A l \in Links : rx[l].e = epoch =>
         /\ NumbersOf(Load(rx[l])) \subseteq passed
         /\ Clean(rx[l]) /\ Ordered(rx[l], got, epoch)
         /\ Load(rx[l]) \cap Settled = {}
    /\ \A l, m \in Links : l # m /\ rx[l].e = epoch /\ rx[m].e = epoch =>
         Load(rx[l]) \cap Load(rx[m]) = {}

\* No call and no hand-over is of a life to come.
EpochsKnown == (\A l \in Links : rx[l].e \in 0..epoch) /\ (\A h \in got : h.e \in 0..epoch)

\* What went ahead stays ahead.
LEMMA OrderedMore ==
  ASSUME NEW r, NEW e, NEW G, NEW H, G \subseteq H, Ordered(r, G, e)
  PROVE  Ordered(r, H, e)
  BY DEF Ordered, InOrder

-----------------------------------------------------------------------------
\* Steps of one thread keep the account

\* What a step of thread l that leaves it at r must show.
LEMMA OnceStep ==
  ASSUME Types, Accounted, life = "idle", UNCHANGED <<epoch, life, passed>>,
         NEW l \in Links, NEW r, rx' = [rx EXCEPT ![l] = r], got \subseteq got',
         (\A b, c \in Cached : b.f = c.f => b = c)', (CachedNow \cap GotNow = {})',
         r.e = epoch =>
           /\ rx[l].e = epoch /\ Clean(r) /\ Ordered(r, got', epoch)
           /\ Load(r) \cap Settled' = {}
           /\ Load(r) \cup Settled' \subseteq Load(rx[l]) \cup Settled,
         r.e # epoch => Settled' \subseteq Settled
  PROVE  Accounted'
  <1>1. rx'[l] = r /\ \A m \in Links : m # l => rx'[m] = rx[m]
    BY DEF Types
  <1>2. /\ NumbersOf(Settled) \subseteq passed
        /\ \A m \in Links : rx[m].e = epoch =>
             /\ NumbersOf(Load(rx[m])) \subseteq passed
             /\ Clean(rx[m]) /\ Ordered(rx[m], got, epoch)
             /\ Load(rx[m]) \cap Settled = {}
        /\ \A k, m \in Links : k # m /\ rx[k].e = epoch /\ rx[m].e = epoch =>
             Load(rx[k]) \cap Load(rx[m]) = {}
    BY DEF Accounted
  <1>3. \A m \in Links : m # l /\ rx[m].e = epoch => Load(rx[m]) \cap Settled' = {}
    BY <1>2
  <1>4. NumbersOf(Settled') \subseteq passed /\ (r.e = epoch => NumbersOf(Load(r)) \subseteq passed)
    BY <1>2 DEF NumbersOf
  <1>5. ASSUME NEW m \in Links, rx'[m].e = epoch
        PROVE  /\ NumbersOf(Load(rx'[m])) \subseteq passed
               /\ Clean(rx'[m]) /\ Ordered(rx'[m], got', epoch)
               /\ Load(rx'[m]) \cap Settled' = {}
    <2>1. CASE m = l
      BY <1>1, <1>4, <1>5, <2>1
    <2>2. CASE m # l
      <3>1. rx'[m] = rx[m] /\ rx[m].e = epoch
        BY <1>1, <1>5, <2>2
      <3>2. Ordered(rx[m], got', epoch)
        BY <1>2, <3>1, OrderedMore
      <3> QED BY <1>2, <1>3, <2>2, <3>1, <3>2
    <2> QED BY <2>1, <2>2
  <1>6. ASSUME NEW k \in Links, NEW m \in Links, k # m, rx'[k].e = epoch, rx'[m].e = epoch
        PROVE  Load(rx'[k]) \cap Load(rx'[m]) = {}
    <2>1. ASSUME NEW n \in Links, n # l, rx[n].e = epoch, r.e = epoch PROVE Load(r) \cap Load(rx[n]) = {}
      BY <1>2, <2>1
    <2> QED BY <1>1, <1>2, <1>6, <2>1
  <1> QED BY <1>4, <1>5, <1>6 DEF Accounted

\* Clearing entries leaves less cached.
LEMMA LessCached ==
  ASSUME Types, \A d \in Caches : Sub(cache'[d], cache[d])
  PROVE  Cached' \subseteq Cached
  <1>1. cache \in [Caches -> CacheSet] /\ Caches = {"local", "relay"}
    BY DEF Types, Caches
  <1>2. \A d \in Caches : Held(cache'[d]) \subseteq Held(cache[d])
    BY <1>1, SubFacts
  <1> QED BY <1>1, <1>2 DEF Cached

\* The same load up to the references it holds.
SameFrames(r, s) == s.todo = r.todo /\ s.line = r.line /\ s.full = r.full /\ s.out = r.out

\* A thread goes on with what it has, or is none of this life.
LEMMA QuietOnce ==
  ASSUME Types, Accounted, UNCHANGED <<epoch, life, passed, got>>,
         NEW l \in Links, NEW r, rx' = [rx EXCEPT ![l] = r], Cached' \subseteq Cached,
         \/ SameFrames(rx[l], r) /\ r.e = rx[l].e
         \/ life = "idle" => r.e # epoch
  PROVE  Accounted'
  <1>1. CASE life # "idle"
    BY <1>1 DEF Accounted
  <1>2. CASE life = "idle"
    <2>1. GotNow' = GotNow /\ CachedNow' \subseteq CachedNow
      BY DEF GotNow, CachedNow
    <2>2. Settled' \subseteq Settled
      BY <2>1 DEF Settled
    <2>3. (\A b, c \in Cached : b.f = c.f => b = c)' /\ (CachedNow \cap GotNow = {})'
      BY <1>2, <2>1 DEF Accounted
    <2>4. ASSUME r.e = epoch
          PROVE  /\ rx[l].e = epoch /\ Clean(r) /\ Ordered(r, got', epoch)
                 /\ Load(r) \cap Settled' = {}
                 /\ Load(r) \cup Settled' \subseteq Load(rx[l]) \cup Settled
      <3>1. rx[l].e = epoch /\ SameFrames(rx[l], r)
        BY <1>2, <2>4
      <3>2. Load(r) = Load(rx[l]) /\ (Clean(rx[l]) => Clean(r)) /\ (Ordered(rx[l], got, epoch) => Ordered(r, got, epoch))
        BY <3>1 DEF SameFrames, Load, Moves, Shows, Clean, FramesApart, Shaped, Ordered
      <3>3. Clean(rx[l]) /\ Ordered(rx[l], got, epoch) /\ Load(rx[l]) \cap Settled = {}
        BY <1>2, <3>1 DEF Accounted
      <3> QED BY <2>2, <3>1, <3>2, <3>3
    <2> QED BY <1>2, <2>2, <2>3, <2>4, OnceStep
  <1> QED BY <1>1, <1>2

-----------------------------------------------------------------------------
\* Items come and go

\* A batch that gets another item.
LEMMA FramesAppend ==
  ASSUME NEW s \in Seq(ItemSet), NEW x \in ItemSet, SeqFrApart(s), Fr(x) \cap FrOf(ToSet(s)) = {}
  PROVE  /\ Append(s, x) \in Seq(ItemSet) /\ SeqFrApart(Append(s, x))
         /\ ToSet(Append(s, x)) = ToSet(s) \cup {x}
         /\ FrOf(ToSet(Append(s, x))) = FrOf(ToSet(s)) \cup Fr(x)
  <1>1. Append(s, x) \in Seq(ItemSet) /\ ToSet(Append(s, x)) = ToSet(s) \cup {x}
    BY AppendFacts
  <1> HIDE DEF Fr
  <1>2. FrOf(ToSet(Append(s, x))) = FrOf(ToSet(s)) \cup Fr(x)
    BY <1>1 DEF FrOf
  <1>3. \A i \in 1..Len(s) : Fr(s[i]) \cap Fr(x) = {}
    BY DEF FrOf, ToSet
  <1>4. Len(Append(s, x)) = Len(s) + 1 /\ Append(s, x)[Len(s) + 1] = x /\ Len(s) \in Nat
    OBVIOUS
  <1>5. \A i \in 1..Len(s) : Append(s, x)[i] = s[i]
    OBVIOUS
  <1>6. SeqFrApart(Append(s, x))
    <2> SUFFICES ASSUME NEW i \in 1..(Len(s) + 1), NEW j \in 1..(Len(s) + 1), i # j
                 PROVE  Fr(Append(s, x)[i]) \cap Fr(Append(s, x)[j]) = {}
      BY <1>4 DEF SeqFrApart
    <2>1. CASE i = Len(s) + 1
      <3>1. j \in 1..Len(s)
        BY <1>4, <2>1
      <3> QED BY <1>3, <1>4, <1>5, <2>1, <3>1
    <2>2. CASE j = Len(s) + 1
      <3>1. i \in 1..Len(s)
        BY <1>4, <2>2
      <3> QED BY <1>3, <1>4, <1>5, <2>2, <3>1
    <2>3. CASE i # Len(s) + 1 /\ j # Len(s) + 1
      <3>1. i \in 1..Len(s) /\ j \in 1..Len(s)
        BY <1>4, <2>3
      <3> QED BY <1>5, <3>1 DEF SeqFrApart
    <2> QED BY <2>1, <2>2, <2>3
  <1> QED BY <1>1, <1>2, <1>6

\* A batch that gives its first item away.
LEMMA FramesTail ==
  ASSUME NEW s \in Seq(ItemSet), s # << >>, SeqFrApart(s)
  PROVE  /\ Tail(s) \in Seq(ItemSet) /\ SeqFrApart(Tail(s)) /\ Head(s) \in ItemSet
         /\ ToSet(s) = ToSet(Tail(s)) \cup {Head(s)}
         /\ FrOf(ToSet(s)) = FrOf(ToSet(Tail(s))) \cup Fr(Head(s))
         /\ Fr(Head(s)) \cap FrOf(ToSet(Tail(s))) = {}
  <1>1. Head(s) \in ItemSet /\ Tail(s) \in Seq(ItemSet) /\ ToSet(s) = ToSet(Tail(s)) \cup {Head(s)}
    BY TailFacts
  <1> HIDE DEF Fr
  <1>2. FrOf(ToSet(s)) = FrOf(ToSet(Tail(s))) \cup Fr(Head(s))
    BY <1>1 DEF FrOf
  <1>3. Len(s) \in Nat \ {0} /\ Len(Tail(s)) = Len(s) - 1 /\ Head(s) = s[1]
    OBVIOUS
  <1>4. \A i \in 1..(Len(s) - 1) : Tail(s)[i] = s[i + 1] /\ i + 1 \in 1..Len(s) /\ i + 1 # 1
    BY <1>3
  <1>5. SeqFrApart(Tail(s))
    <2> SUFFICES ASSUME NEW i \in 1..(Len(s) - 1), NEW j \in 1..(Len(s) - 1), i # j
                 PROVE  Fr(Tail(s)[i]) \cap Fr(Tail(s)[j]) = {}
      BY <1>3 DEF SeqFrApart
    <2>1. i + 1 # j + 1
      BY <1>3
    <2> QED BY <1>4, <2>1 DEF SeqFrApart
  <1>6. DOMAIN Tail(s) = 1..(Len(s) - 1)
    BY <1>1, <1>3
  <1>7. ASSUME NEW x \in ToSet(Tail(s)) PROVE Fr(Head(s)) \cap Fr(x) = {}
    <2>1. PICK i \in 1..(Len(s) - 1) : x = Tail(s)[i]
      BY <1>6 DEF ToSet
    <2>2. 1 \in 1..Len(s)
      BY <1>3
    <2> QED BY <1>3, <1>4, <2>1, <2>2 DEF SeqFrApart
  <1>8. Fr(Head(s)) \cap FrOf(ToSet(Tail(s))) = {}
    BY <1>7 DEF FrOf
  <1> QED BY <1>1, <1>2, <1>5, <1>8

\* Two items at the end of a batch.
LEMMA FramesTwo ==
  ASSUME NEW s \in Seq(ItemSet), NEW x \in ItemSet, NEW y \in ItemSet, SeqFrApart(s),
         Fr(x) \cap FrOf(ToSet(s)) = {}, Fr(y) \cap FrOf(ToSet(s)) = {}, Fr(x) \cap Fr(y) = {}
  PROVE  /\ s \o <<x, y>> \in Seq(ItemSet) /\ SeqFrApart(s \o <<x, y>>)
         /\ ToSet(s \o <<x, y>>) = ToSet(s) \cup {x, y}
         /\ FrOf(ToSet(s \o <<x, y>>)) = FrOf(ToSet(s)) \cup Fr(x) \cup Fr(y)
  <1>1. /\ Append(s, x) \in Seq(ItemSet) /\ SeqFrApart(Append(s, x))
        /\ ToSet(Append(s, x)) = ToSet(s) \cup {x}
        /\ FrOf(ToSet(Append(s, x))) = FrOf(ToSet(s)) \cup Fr(x)
    BY FramesAppend
  <1>2. Fr(y) \cap FrOf(ToSet(Append(s, x))) = {}
    BY <1>1
  <1>3. PICK t \in Seq(ItemSet) : t = Append(s, x)
    BY <1>1
  <1>4. /\ Append(t, y) \in Seq(ItemSet) /\ SeqFrApart(Append(t, y))
        /\ ToSet(Append(t, y)) = ToSet(t) \cup {y}
        /\ FrOf(ToSet(Append(t, y))) = FrOf(ToSet(t)) \cup Fr(y)
    BY <1>1, <1>2, <1>3, FramesAppend
  <1>5. s \o <<x, y>> = Append(t, y)
    BY <1>3
  <1> QED BY <1>1, <1>3, <1>4, <1>5

\* The parts of a packet.
LEMMA PartFacts ==
  ASSUME NEW f \in Frames
  PROVE  /\ f.i \in 1..f.p.parts
         /\ ~Fragment(f) => f.i = 1 /\ WholeOf(f.p) = {f}
         /\ Fragment(f) => \A g : g.i \in {1, 2} /\ g.i # f.i /\ g = Frame(f.p, g.i) => WholeOf(f.p) = {f, g}
  <1>0. PICK p \in Packets : \E i \in 1..p.parts : f = Frame(p, i)
    BY DEF Frames
  <1>1. PICK i \in 1..p.parts : f = Frame(p, i)
    BY <1>0
  <1>2. f.p = p /\ f.i = i
    BY <1>1 DEF Frame
  <1>3. p.parts \in {1, 2}
    BY <1>2, FrameFacts
  <1>4. ~Fragment(f) => i = 1 /\ 1..p.parts = {1}
    BY <1>2, <1>3 DEF Fragment
  <1>5. Fragment(f) => 1..p.parts = {1, 2}
    BY <1>2 DEF Fragment
  <1>6. ASSUME Fragment(f), NEW g, g.i \in {1, 2}, g.i # f.i, g = Frame(f.p, g.i)
        PROVE  WholeOf(f.p) = {f, g}
    <2>1. PICK k : k = g.i
      OBVIOUS
    <2>2. {1, 2} = {i, k} /\ g = Frame(p, k)
      BY <1>2, <1>3, <1>6, <2>1, FrameFacts
    <2>3. WholeOf(p) = {Frame(p, n) : n \in {i, k}}
      BY <1>5, <1>6, <2>2 DEF WholeOf
    <2> QED BY <1>1, <1>2, <2>2, <2>3
  <1>7. ~Fragment(f) => WholeOf(p) = {Frame(p, 1)}
    BY <1>4 DEF WholeOf
  <1> QED BY <1>1, <1>2, <1>4, <1>6, <1>7

\* A thread whose batches get the frames d and f, which none of its items has.
LEMMA Grown ==
  ASSUME NEW r, FramesApart(r), NEW t, t.full \subseteq r.full, Moves(t) \subseteq Moves(r),
         SeqFrApart(t.out["deliver"]), SeqFrApart(t.out["forward"]), NEW d, NEW f,
         FrOf(ToSet(t.out["deliver"])) = FrOf(ToSet(r.out["deliver"])) \cup d,
         FrOf(ToSet(t.out["forward"])) = FrOf(ToSet(r.out["forward"])) \cup f,
         d \cap f = {},
         (d \cup f) \cap (Moves(t) \cup FrOf(t.full) \cup FrOf(ToSet(r.out["deliver"]))
                          \cup FrOf(ToSet(r.out["forward"]))) = {}
  PROVE  FramesApart(t) /\ Load(t) \subseteq Load(r) \cup d \cup f
  <1>1. FrOf(t.full) \subseteq FrOf(r.full)
    BY DEF FrOf
  <1> HIDE DEF Moves, FrOf, Fr
  <1>2. FramesApart(t)
    BY <1>1 DEF FramesApart, Shows
  <1> QED BY <1>1, <1>2 DEF Load, Shows

\* A whole frame or a complete packet moves on to a batch: the thread has no more frames
\* than before.
LEMMA FrameGoes ==
  ASSUME NEW r \in RxRec, LinesOk(r), Clean(r), NEW G, NEW e, Ordered(r, G, e),
         r.todo = << >>, r.line # << >>, NEW f, f = Head(r.line), f.p.local \/ ~Fragment(f),
         NEW item \in ItemSet, item.f = f,
         Fragment(f) => item \in r.full, ~Fragment(f) => Fr(item) = {f},
         NEW q, q = IF f.p.local THEN "deliver" ELSE "forward",
         NEW t, t.todo = r.todo, t.line = Tail(r.line), t.full = {w \in r.full : w.f # f},
         t.out = [r.out EXCEPT ![q] = Append(r.out[q], item)]
  PROVE  Clean(t) /\ Ordered(t, G, e) /\ Load(t) \subseteq Load(r)
  <1> DEFINE D == r.out["deliver"]
             F == r.out["forward"]
  <1>1. /\ r.line \in Seq(Frames) /\ r.out \in OutSet /\ D \in Seq(ItemSet) /\ F \in Seq(ItemSet)
        /\ FramesApart(r) /\ Shaped(r)
    BY DEF RxRec, OutSet, Clean
  <1>2. /\ f \in Frames /\ ToSet(r.line) = ToSet(Tail(r.line)) \cup {f} /\ f \notin ToSet(Tail(r.line))
    BY <1>1, TailFacts DEF LinesOk
  <1>3. /\ Moves(t) \subseteq Moves(r) /\ (~Fragment(f) => f \in Moves(r) /\ f \notin Moves(t))
    <2>1. ToSet(r.todo) = {}
      BY DEF ToSet
    <2> QED BY <1>2, <2>1 DEF Moves, LocalHalves
  <1>4. /\ Fr(item) \subseteq Load(r)
        /\ Fr(item) \cap (Moves(t) \cup FrOf(t.full) \cup FrOf(ToSet(D)) \cup FrOf(ToSet(F))) = {}
        /\ f.p.local => WholeItem(item)
        /\ ~f.p.local => RelayItem(item) /\ item.f.i = 1
    <2>1. CASE Fragment(f)
      <3>1. item \in r.full /\ f.p.local /\ WholeItem(item)
        BY <1>1, <2>1 DEF Shaped
      <3>2. Fr(item) \subseteq FrOf(r.full)
        BY <3>1 DEF FrOf
      <3>3. Fr(item) \cap FrOf(t.full) = {}
        <4>1. \A w \in t.full : w # item /\ w \in r.full
          OBVIOUS
        <4> HIDE DEF Fr
        <4> QED BY <1>1, <3>1, <4>1 DEF FramesApart, FrOf
      <3> HIDE DEF Fr, FrOf
      <3> QED BY <1>1, <1>3, <3>1, <3>2, <3>3 DEF FramesApart, Load, Shows
    <2>2. CASE ~Fragment(f)
      <3>1. Fr(item) = {f} /\ f \in Moves(r) /\ f \notin Moves(t) /\ f.i = 1 /\ WholeOf(f.p) = {f}
            /\ f.p \in Packets
        BY <1>2, <1>3, <2>2, PartFacts, FrameFacts
      <3>2. FrOf(t.full) \subseteq FrOf(r.full)
        BY DEF FrOf
      <3>3. (f.p.local => WholeItem(item)) /\ (~f.p.local => RelayItem(item))
        BY <1>2, <3>1 DEF WholeItem, RelayItem
      <3> HIDE DEF FrOf, Fr, Moves
      <3> QED BY <1>1, <3>1, <3>2, <3>3 DEF FramesApart, Load, Shows
    <2> QED BY <2>1, <2>2
  <1>5. CASE f.p.local
    <2>1. q = "deliver" /\ t.out["deliver"] = Append(D, item) /\ t.out["forward"] = F
      BY <1>1, <1>5 DEF OutSet
    <2>2. SeqFrApart(D) /\ Fr(item) \cap FrOf(ToSet(D)) = {}
      BY <1>1, <1>4 DEF FramesApart
    <2>3. /\ SeqFrApart(Append(D, item)) /\ ToSet(Append(D, item)) = ToSet(D) \cup {item}
          /\ FrOf(ToSet(Append(D, item))) = FrOf(ToSet(D)) \cup Fr(item)
      BY <1>1, <2>2, FramesAppend
    <2>4. Shaped(t)
      BY <1>1, <1>4, <1>5, <2>1, <2>3 DEF Shaped
    <2>5. Ordered(t, G, e)
      BY <2>1, Zenon DEF Ordered
    <2>6. SeqFrApart(F)
      BY <1>1 DEF FramesApart
    <2>n. PICK d, n : d = Fr(item) /\ n = {}
      OBVIOUS
    <2>7. t.full \subseteq r.full
      OBVIOUS
    <2>8. /\ FrOf(ToSet(t.out["deliver"])) = FrOf(ToSet(r.out["deliver"])) \cup d
          /\ FrOf(ToSet(t.out["forward"])) = FrOf(ToSet(r.out["forward"])) \cup n
      BY <2>1, <2>3, <2>n, Zenon
    <2>9. FramesApart(t) /\ Load(t) \subseteq Load(r) \cup d \cup n
      <3>1. (d \cup n) \cap (Moves(t) \cup FrOf(t.full) \cup FrOf(ToSet(r.out["deliver"]))
                          \cup FrOf(ToSet(r.out["forward"]))) = {}
        BY <1>4, <2>n, Zenon
      <3>2. SeqFrApart(t.out["deliver"]) /\ SeqFrApart(t.out["forward"]) /\ d \cap n = {}
        BY <2>1, <2>3, <2>6, <2>n, Zenon
      <3> QED BY ONLY <1>1, <1>3, <2>7, <2>8, <3>1, <3>2, Grown
    <2> QED BY <1>4, <2>4, <2>5, <2>9, <2>n DEF Clean
  <1>6. CASE ~f.p.local
    <2>1. q = "forward" /\ t.out["deliver"] = D /\ t.out["forward"] = Append(F, item)
      BY <1>1, <1>6 DEF OutSet
    <2>2. SeqFrApart(F) /\ Fr(item) \cap FrOf(ToSet(F)) = {}
      BY <1>1, <1>4 DEF FramesApart
    <2>3. /\ SeqFrApart(Append(F, item)) /\ ToSet(Append(F, item)) = ToSet(F) \cup {item}
          /\ FrOf(ToSet(Append(F, item))) = FrOf(ToSet(F)) \cup Fr(item)
      BY <1>1, <2>2, FramesAppend
    <2>4. Shaped(t)
      BY <1>1, <1>4, <1>6, <2>1, <2>3 DEF Shaped
    <2>5. Ordered(t, G, e)
      <3>1. Len(Append(F, item)) = Len(F) + 1 /\ Append(F, item)[Len(F) + 1] = item /\ Len(F) \in Nat
        BY <1>1
      <3>2. \A i \in 1..Len(F) : Append(F, item)[i] = F[i]
        BY <1>1
      <3>3. InOrder(F, G, e)
        BY DEF Ordered
      <3> HIDE DEF F
      <3> SUFFICES ASSUME NEW i \in 1..(Len(F) + 1), Append(F, item)[i].f.i = 2
                   PROVE  \/ FirstOf(Append(F, item)[i].f.p, e) \in G
                          \/ \E j \in 1..(i - 1) : Append(F, item)[j].f = Frame(Append(F, item)[i].f.p, 1)
        BY <2>1, <3>1, ZenonT(40) DEF Ordered, InOrder
      <3>4. i # Len(F) + 1
        BY <1>4, <1>6, <3>1
      <3>5. i \in 1..Len(F) /\ \A j \in 1..(i - 1) : j \in 1..Len(F)
        BY <3>1, <3>4
      <3> QED BY <3>2, <3>3, <3>5 DEF InOrder
    <2>6. SeqFrApart(D)
      BY <1>1 DEF FramesApart
    <2>n. PICK d, n : d = {} /\ n = Fr(item)
      OBVIOUS
    <2>7. t.full \subseteq r.full
      OBVIOUS
    <2>8. /\ FrOf(ToSet(t.out["deliver"])) = FrOf(ToSet(r.out["deliver"])) \cup d
          /\ FrOf(ToSet(t.out["forward"])) = FrOf(ToSet(r.out["forward"])) \cup n
      BY <2>1, <2>3, <2>n, Zenon
    <2>9. FramesApart(t) /\ Load(t) \subseteq Load(r) \cup d \cup n
      <3>1. (d \cup n) \cap (Moves(t) \cup FrOf(t.full) \cup FrOf(ToSet(r.out["deliver"]))
                          \cup FrOf(ToSet(r.out["forward"]))) = {}
        BY <1>4, <2>n
      <3>2. SeqFrApart(t.out["deliver"]) /\ SeqFrApart(t.out["forward"]) /\ d \cap n = {}
        BY <2>1, <2>3, <2>6, <2>n, Zenon
      <3> QED BY ONLY <1>1, <1>3, <2>7, <2>8, <3>1, <3>2, Grown
    <2> QED BY <1>4, <2>4, <2>5, <2>9, <2>n DEF Clean
  <1> QED BY <1>5, <1>6

\* The first item of a batch is handed on: its frames leave the thread, and the first half of
\* a packet it relays is ahead of the rest.
LEMMA ItemGoes ==
  ASSUME NEW r \in RxRec, Clean(r), NEW G, NEW e, Ordered(r, G, e),
         NEW q, q \in {"deliver", "forward"}, r.out[q] # << >>, NEW item, item = Head(r.out[q]),
         NEW t, t.todo = r.todo, t.line = r.line, t.full = r.full,
         t.out = [r.out EXCEPT ![q] = Tail(r.out[q])],
         NEW H, G \subseteq H, [frames |-> Fr(item), e |-> e, copy |-> 0] \in H
  PROVE  /\ Clean(t) /\ Ordered(t, H, e)
         /\ Load(r) = Load(t) \cup Fr(item) /\ Load(t) \cap Fr(item) = {}
         /\ q = "deliver" => WholeItem(item)
         /\ q = "forward" => RelayItem(item) /\ (item.f.i = 2 => FirstOf(item.f.p, e) \in G)
  <1> DEFINE D == r.out["deliver"]
             F == r.out["forward"]
  <1>1. /\ r.out \in OutSet /\ D \in Seq(ItemSet) /\ F \in Seq(ItemSet)
        /\ FramesApart(r) /\ Shaped(r) /\ Moves(t) = Moves(r)
    BY DEF RxRec, OutSet, Clean, Moves
  <1>2. CASE q = "deliver"
    <2>1. D # << >> /\ item = Head(D) /\ t.out["deliver"] = Tail(D) /\ t.out["forward"] = F
      BY <1>1, <1>2 DEF OutSet
    <2>2. /\ SeqFrApart(Tail(D)) /\ ToSet(D) = ToSet(Tail(D)) \cup {item}
          /\ FrOf(ToSet(D)) = FrOf(ToSet(Tail(D))) \cup Fr(item)
          /\ Fr(item) \cap FrOf(ToSet(Tail(D))) = {}
      <3>1. SeqFrApart(D)
        BY <1>1 DEF FramesApart
      <3> QED BY <1>1, <2>1, <3>1, FramesTail
    <2>3. Shaped(t) /\ WholeItem(item)
      BY <1>1, <2>1, <2>2 DEF Shaped
    <2>4. Ordered(t, H, e)
      BY <2>1, ZenonT(40) DEF Ordered, InOrder
    <2>5. /\ FramesApart(t) /\ Load(r) = Load(t) \cup Fr(item) /\ Load(t) \cap Fr(item) = {}
      <3> HIDE DEF Moves, FrOf, Fr
      <3> QED BY <1>1, <2>1, <2>2 DEF FramesApart, Load, Shows
    <2> QED BY <1>2, <2>3, <2>4, <2>5 DEF Clean
  <1>3. CASE q = "forward"
    <2>1. F # << >> /\ item = Head(F) /\ t.out["forward"] = Tail(F) /\ t.out["deliver"] = D
      BY <1>1, <1>3 DEF OutSet
    <2>2. /\ SeqFrApart(Tail(F)) /\ ToSet(F) = ToSet(Tail(F)) \cup {item}
          /\ FrOf(ToSet(F)) = FrOf(ToSet(Tail(F))) \cup Fr(item)
          /\ Fr(item) \cap FrOf(ToSet(Tail(F))) = {}
      <3>1. SeqFrApart(F)
        BY <1>1 DEF FramesApart
      <3> QED BY <1>1, <2>1, <3>1, FramesTail
    <2>3. Shaped(t) /\ RelayItem(item)
      BY <1>1, <2>1, <2>2 DEF Shaped
    <2>4. /\ Len(F) \in Nat \ {0} /\ Len(Tail(F)) = Len(F) - 1 /\ F[1] = item
          /\ \A i \in 1..(Len(F) - 1) : Tail(F)[i] = F[i + 1]
      BY <1>1, <2>1
    <2>5. InOrder(F, G, e)
      BY DEF Ordered
    <2>6. Ordered(t, H, e)
      <3> HIDE DEF F
      <3> SUFFICES ASSUME NEW i \in 1..(Len(F) - 1), Tail(F)[i].f.i = 2
                   PROVE  \/ FirstOf(Tail(F)[i].f.p, e) \in H
                          \/ \E j \in 1..(i - 1) : Tail(F)[j].f = Frame(Tail(F)[i].f.p, 1)
        BY <2>1, <2>4, ZenonT(40) DEF Ordered, InOrder
      <3>1. i + 1 \in 1..Len(F) /\ Tail(F)[i] = F[i + 1] /\ (i + 1) - 1 = i
        BY <2>4
      <3>2. CASE FirstOf(F[i + 1].f.p, e) \in G
        BY <3>1, <3>2
      <3>3. CASE \E j \in 1..i : F[j].f = Frame(F[i + 1].f.p, 1)
        <4>1. PICK j \in 1..i : F[j].f = Frame(F[i + 1].f.p, 1)
          BY <3>3
        <4>2. CASE j = 1
          <5>1. Fr(item) = {Frame(F[i + 1].f.p, 1)}
            BY <2>3, <2>4, <4>1, <4>2 DEF RelayItem
          <5>2. FirstOf(F[i + 1].f.p, e) \in H
            BY <5>1 DEF FirstOf
          <5> QED BY <3>1, <5>2
        <4>3. CASE j # 1
          <5>1. j - 1 \in 1..(i - 1) /\ j - 1 \in 1..(Len(F) - 1) /\ (j - 1) + 1 = j
            BY <3>1, <4>3
          <5>2. Tail(F)[j - 1] = F[j]
            BY <2>4, <5>1
          <5> QED BY <3>1, <4>1, <5>1, <5>2
        <4> QED BY <4>2, <4>3
      <3> QED BY <2>5, <3>1, <3>2, <3>3 DEF InOrder
    <2>7. item.f.i = 2 => FirstOf(item.f.p, e) \in G
      BY <2>4, <2>5 DEF InOrder
    <2>8. /\ FramesApart(t) /\ Load(r) = Load(t) \cup Fr(item) /\ Load(t) \cap Fr(item) = {}
      <3> HIDE DEF Moves, FrOf, Fr
      <3> QED BY <1>1, <2>1, <2>2 DEF FramesApart, Load, Shows
    <2> QED BY <1>3, <2>3, <2>6, <2>7, <2>8 DEF Clean
  <1> QED BY <1>2, <1>3

\* The line of a thread that is done with a fragment.
LEMMA ReassembledMoves ==
  ASSUME NEW r \in RxRec, LinesOk(r), r.todo # << >>, r.kept = {}, NEW full \in SUBSET ItemSet
  PROVE  LET s == Reassembled(r, full)
         IN /\ s.full = full /\ s.out = r.out /\ s.e = r.e
            /\ Moves(s) \subseteq Moves(r) \ {Head(r.todo)} /\ Head(r.todo) \in Moves(r)
            /\ Head(r.todo) \in LocalHalves
  <1> DEFINE f == Head(r.todo)
             rest == Tail(r.todo)
             keep == (Frames \ LocalHalves) \cup {w.f : w \in full}
             kept == Selected(r.line, keep)
             s == Reassembled(r, full)
  <1>1. r.todo \in Seq(Frames) /\ r.line \in Seq(Frames)
    BY DEF RxRec
  <1>2. /\ rest \in Seq(Frames) /\ ToSet(r.todo) = ToSet(rest) \cup {f} /\ f \notin ToSet(rest)
    BY <1>1, TailFacts DEF LinesOk
  <1>3. kept \in Seq(Frames) /\ ToSet(kept) \subseteq ToSet(r.line)
    <2>1. SeqInj(r.line)
      BY DEF LinesOk
    <2> HIDE DEF keep
    <2> QED BY <1>1, <2>1, SelectedFacts
  <1> HIDE DEF kept
  <1>4. f \in LocalHalves
    BY <1>2 DEF LinesOk
  <1>5. /\ s.full = full /\ s.out = r.out /\ s.e = r.e /\ s.todo = rest
        /\ ToSet(s.line) \subseteq ToSet(r.line)
    <2>1. CASE rest # << >>
      <3>1. s = [r EXCEPT !.todo = rest, !.pc = "check", !.full = full]
        BY <2>1 DEF Reassembled
      <3> HIDE DEF s, rest
      <3> QED BY <3>1 DEF RxRec
    <2>2. CASE rest = << >>
      <3> DEFINE t == [r EXCEPT !.todo = rest, !.full = full, !.line = kept]
      <3>1. s = Staged(t)
        BY <2>2 DEF Reassembled, kept
      <3> HIDE DEF s, rest
      <3>2. t \in RxRec
        BY <1>2, <1>3 DEF RxRec
      <3>3. /\ t.full = full /\ t.out = r.out /\ t.e = r.e /\ t.todo = rest /\ t.line = kept
        BY DEF RxRec
      <3> HIDE DEF t
      <3>4. SameLoad(t, s) /\ s.e = t.e
        BY <3>1, <3>2, StagedFacts
      <3> QED BY <1>3, <3>3, <3>4 DEF SameLoad
    <2> QED BY <2>1, <2>2
  <1> HIDE DEF s, f, rest
  <1>6. Moves(s) \subseteq Moves(r) \ {f} /\ f \in Moves(r)
    BY <1>2, <1>4, <1>5 DEF Moves
  <1> QED BY <1>4, <1>5, <1>6 DEF s, f

-----------------------------------------------------------------------------
\* Storing a fragment keeps the account

\* The fragment in buffer b goes into a cache, or its other half comes out of there.
LEMMA StoreOnce ==
  ASSUME Types, Accounted, life = "idle", UNCHANGED <<epoch, life, passed, got>>,
         NEW l \in Links, rx[l].e = epoch, NEW r, rx' = [rx EXCEPT ![l] = r], r.e = epoch,
         Clean(r), Ordered(r, got, epoch), NEW b, b.f \in Load(rx[l]),
         \/ Cached' \subseteq Cached \cup {b} /\ Load(r) \subseteq Load(rx[l]) \ {b.f}
         \/ \E d \in Cached : Cached' \subseteq Cached \ {d} /\ Load(r) \subseteq Load(rx[l]) \cup {d.f}
  PROVE  Accounted'
  <1>1. /\ \A c, d \in Cached : c.f = d.f => c = d
        /\ CachedNow \cap GotNow = {} /\ Load(rx[l]) \cap Settled = {}
    BY DEF Accounted
  <1>2. GotNow' = GotNow
    BY DEF GotNow
  <1>3. Ordered(r, got', epoch)
    OBVIOUS
  <1>4. CASE Cached' \subseteq Cached \cup {b} /\ Load(r) \subseteq Load(rx[l]) \ {b.f}
    <2>1. b.f \notin CachedNow /\ b.f \notin GotNow
      BY <1>1 DEF Settled
    <2>2. CachedNow' \subseteq CachedNow \cup {b.f}
      BY <1>4 DEF CachedNow
    <2>3. \A c \in Cached : c.f # b.f
      BY <2>1 DEF CachedNow
    <2>4. (\A c, d \in Cached : c.f = d.f => c = d)'
      BY <1>1, <1>4, <2>3
    <2>5. (CachedNow \cap GotNow = {})' /\ Settled' \subseteq Settled \cup {b.f}
      BY <1>1, <1>2, <2>1, <2>2 DEF Settled
    <2>6. /\ Load(r) \cap Settled' = {}
          /\ Load(r) \cup Settled' \subseteq Load(rx[l]) \cup Settled
      BY <1>1, <1>4, <2>5
    <2> QED BY <1>3, <2>4, <2>5, <2>6, OnceStep
  <1>5. ASSUME NEW d \in Cached, Cached' \subseteq Cached \ {d}, Load(r) \subseteq Load(rx[l]) \cup {d.f}
        PROVE  Accounted'
    <2>1. d.f \in CachedNow /\ d.f \in Settled /\ d.f \notin GotNow
      BY <1>1 DEF CachedNow, Settled
    <2>2. CachedNow' \subseteq CachedNow /\ d.f \notin CachedNow'
      BY <1>1, <1>5 DEF CachedNow
    <2>3. (\A b1, c \in Cached : b1.f = c.f => b1 = c)'
      BY <1>1, <1>5
    <2>4. (CachedNow \cap GotNow = {})' /\ Settled' \subseteq Settled \ {d.f}
      BY <1>1, <1>2, <2>1, <2>2 DEF Settled
    <2>5. /\ Load(r) \cap Settled' = {}
          /\ Load(r) \cup Settled' \subseteq Load(rx[l]) \cup Settled
      BY <1>1, <1>5, <2>1, <2>4
    <2> QED BY <1>3, <2>3, <2>4, <2>5, OnceStep
  <1> QED BY <1>4, <1>5

\* A local fragment: it waits for its other half, is a copy of a half that is there, or
\* makes its packet whole.
LEMMA StoreKeeps ==
  ASSUME Types, RefInv, LifeInv, Accounted, NEW l \in Links, StoreFragment(l)
  PROVE  Accounted'
  <1> DEFINE f == Head(rx[l].todo)
             b == Buf(l, f)
             C == cache["local"]
             R == cache["relay"]
             first(W) == {c \in W : c.f.i = 1}
  <1>0. life # "idle" => Accounted'
    BY Zenon DEF Accounted, StoreFragment, peer
  <1> SUFFICES ASSUME life = "idle" PROVE Accounted'
    BY <1>0
  <1>1. /\ rx[l] \in RxRec /\ StageOk(rx[l]) /\ LinesOk(rx[l])
        /\ rx \in [Links -> RxRec]
        /\ \A c \in Caches : CacheOk(c, cache[c]) /\ cache[c] \in CacheSet
        /\ Held(C) \cap Held(R) = {} /\ "local" \in Caches /\ "relay" \in Caches
    BY Here DEF Types, Caches
  <1>2. rx[l].todo # << >> /\ rx[l].kept = {} /\ rx[l].full \in SUBSET ItemSet /\ rx[l].pc = "store"
    BY <1>1, Zenon DEF StoreFragment, StageOk, RxRec
  <1>3. /\ f \in Frames /\ b \in Buffers /\ b.f = f
        /\ b \notin Cached /\ Fragment(f) /\ f.p.local
    BY <1>2, NextFragment
  <1>4. PICK r : r = Submitted(C, [p |-> f.p, e |-> rx[l].e], b, rx[l].now)
    OBVIOUS
  <1> DEFINE item == [f |-> f, bufs |-> r.whole, own |-> first(r.whole)]
  <1>5. PICK full : full = IF r.whole = {} THEN rx[l].full ELSE rx[l].full \cup {item}
    BY Zenon
  <1>6. PICK s : s = Reassembled(rx[l], full)
    OBVIOUS
  <1>7. /\ cache' = [cache EXCEPT !["local"] = r.cache]
        /\ rx' = [rx EXCEPT ![l] = s]
        /\ UNCHANGED <<epoch, life, passed, got>>
    BY <1>1, <1>4, <1>5, <1>6, Zenon DEF StoreFragment, peer
  <1>8. rx[l].e = epoch
    BY <1>2 DEF LifeInv, StoresAged, Aged, Uncleared, Closing
  <1>9. Clean(rx[l]) /\ Ordered(rx[l], got, epoch) /\ Load(rx[l]) \cap Settled = {}
    BY <1>8 DEF Accounted
  <1> HIDE DEF b, C, R, f
  <1>10. b \notin Held(C) /\ Cached = Held(C) \cup Held(R)
    BY <1>3 DEF Cached, C, R
  <1>11. rx[l].e \in 0..MaxEpoch /\ rx[l].now \in Nat /\ C \in CacheSet /\ CacheOk("local", C)
    BY <1>1, FragmentsAssumption DEF RxRec, C
  <1>12. \/ r.whole = {} /\ Held(r.cache) \subseteq Held(C) \cup {b}
         \/ \E d \in Held(C) : /\ d.f.p = b.f.p /\ d.f.i # b.f.i
                               /\ r.whole = {d, b}
                               /\ Held(r.cache) \subseteq Held(C) \ {d}
    <2>1. Fragment(b.f) /\ (b.f.p.local <=> "local" = "local")
      BY <1>3
    <2>2. r = Submitted(C, [p |-> b.f.p, e |-> rx[l].e], b, rx[l].now)
      BY <1>3, <1>4
    <2> QED BY <1>3, <1>10, <1>11, <2>1, <2>2, StoreFacts
  <1>13. Cached' = Held(r.cache) \cup Held(R)
    <2>1. cache'["local"] = r.cache /\ cache'["relay"] = R
      BY <1>1, <1>7 DEF Types, R, Caches
    <2> QED BY <2>1 DEF Cached
  <1>14. ASSUME full \in SUBSET ItemSet
         PROVE  /\ s.full = full /\ s.out = rx[l].out /\ s.e = epoch
                /\ Moves(s) \subseteq Moves(rx[l]) \ {f} /\ f \in Moves(rx[l]) /\ f \in Load(rx[l])
    BY <1>1, <1>2, <1>6, <1>8, <1>14, ReassembledMoves DEF f, Load
  <1>15. ASSUME r.whole = {}, Held(r.cache) \subseteq Held(C) \cup {b} PROVE Accounted'
    <2>1. full = rx[l].full
      BY <1>5, <1>15
    <2>2. /\ s.full = rx[l].full /\ s.out = rx[l].out /\ s.e = epoch
          /\ Moves(s) \subseteq Moves(rx[l]) \ {f} /\ f \in Moves(rx[l]) /\ f \in Load(rx[l])
      BY <1>2, <1>14, <2>1
    <2>3. Shows(s) = Shows(rx[l]) /\ Shaped(s) /\ Ordered(s, got, epoch)
      BY <1>9, <2>2 DEF Shows, Shaped, Clean, Ordered
    <2>4. Clean(s)
      BY <1>9, <2>2, <2>3 DEF Clean, FramesApart
    <2>5. Load(s) \subseteq Load(rx[l]) \ {b.f}
      BY <1>3, <1>9, <2>2, <2>3 DEF Load, Clean, FramesApart
    <2>6. Cached' \subseteq Cached \cup {b}
      BY <1>10, <1>13, <1>15
    <2> QED BY <1>3, <1>7, <1>8, <2>2, <2>3, <2>4, <2>5, <2>6, StoreOnce
  <1>16. ASSUME NEW d \in Held(C), d.f.p = b.f.p, d.f.i # b.f.i,
                r.whole = {d, b}, Held(r.cache) \subseteq Held(C) \ {d}
         PROVE  Accounted'
    <2>1. d \in Cached /\ d \in Buffers /\ d.f \in Frames
      <3>1. d \in Cached /\ d \in Buffers
        BY <1>10, <1>11, <1>16, HeldType
      <3> QED BY <3>1 DEF Buffers
    <2>2. full = rx[l].full \cup {item}
      BY <1>5, <1>16
    <2>3. item \in ItemSet /\ item.f = f /\ Fr(item) = {d.f, f}
      <3>1. r.whole \subseteq Buffers /\ first(r.whole) \subseteq Buffers
        BY <1>3, <1>16, <2>1
      <3>2. Fr(item) = {d.f, f}
        BY <1>3, <1>16 DEF Fr
      <3> QED BY <1>3, <3>1, <3>2 DEF ItemSet
    <2>4. WholeItem(item)
      <3>1. d.f = Frame(f.p, d.f.i) /\ d.f.i \in {1, 2} /\ d.f.i # f.i /\ f.p \in Packets
        BY <1>3, <1>16, <2>1, FrameFacts
      <3>2. WholeOf(f.p) = {f, d.f}
        BY <1>3, <3>1, PartFacts
      <3> QED BY <1>3, <2>3, <3>1, <3>2 DEF WholeItem
    <2> HIDE DEF item
    <2>5. /\ s.full = full /\ s.out = rx[l].out /\ s.e = epoch
          /\ Moves(s) \subseteq Moves(rx[l]) \ {f} /\ f \in Moves(rx[l]) /\ f \in Load(rx[l])
      BY <1>2, <1>14, <2>2, <2>3
    <2>6. d.f \in Settled /\ d.f \notin Load(rx[l])
      BY <1>9, <2>1 DEF Settled, CachedNow
    <2>7. FrOf(s.full) = FrOf(rx[l].full) \cup {d.f, f}
      BY <2>2, <2>3, <2>5 DEF FrOf
    <2>8. \A w \in rx[l].full : Fr(w) \cap Fr(item) = {}
      <3>1. \A w \in rx[l].full : Fr(w) \subseteq Shows(rx[l])
        BY DEF Shows, FrOf
      <3> HIDE DEF Fr
      <3> QED BY <1>9, <2>3, <2>5, <2>6, <3>1 DEF Clean, FramesApart, Load
    <2>9. Shaped(s) /\ Ordered(s, got, epoch)
      BY <1>9, <2>2, <2>4, <2>5 DEF Shaped, Clean, Ordered
    <2>10. FramesApart(s)
      <3>1. \A v, w \in s.full : v # w => Fr(v) \cap Fr(w) = {}
        <4> HIDE DEF Fr
        <4> QED BY <1>9, <2>2, <2>5, <2>8 DEF Clean, FramesApart
      <3>2. f \notin Shows(rx[l]) /\ d.f \notin Moves(rx[l]) /\ d.f \notin Shows(rx[l])
        BY <1>9, <2>5, <2>6 DEF Clean, FramesApart, Load
      <3> HIDE DEF Fr, FrOf, Moves
      <3> QED BY <1>9, <2>5, <2>7, <3>1, <3>2 DEF Clean, FramesApart, Shows
    <2>11. Load(s) \subseteq Load(rx[l]) \cup {d.f}
      <3> HIDE DEF Fr, FrOf, Moves
      <3> QED BY <2>5, <2>7 DEF Load, Shows
    <2>12. Cached' \subseteq Cached \ {d}
      BY <1>10, <1>13, <1>16, <1>1 DEF C, R
    <2> QED BY <1>3, <1>7, <1>8, <2>1, <2>5, <2>9, <2>10, <2>11, <2>12, StoreOnce DEF Clean
  <1> QED BY <1>12, <1>15, <1>16

\* FIRST, then LAST of a pair.
LEMMA PairOrder ==
  ASSUME NEW d \in Buffers, NEW b \in Buffers, d.f.i # b.f.i
  PROVE  LET x == PairItems({d, b}, b)
         IN {d, b} = {x[1], x[2]} /\ x[1].f.i = 1 /\ x[2].f.i = 2
  <1>1. d.f.i \in {1, 2} /\ b.f.i \in {1, 2}
    BY FrameFacts DEF Buffers
  <1> DEFINE u == CHOOSE c \in {d, b} : c.f.i = 1
             v == CHOOSE c \in {d, b} : c.f.i = 2
  <1>2. u \in {d, b} /\ u.f.i = 1
    BY <1>1
  <1>3. v \in {d, b} /\ v.f.i = 2
    BY <1>1
  <1>4. PairItems({d, b}, b) = <<u, v>>
    BY DEF PairItems
  <1> HIDE DEF u, v
  <1>5. <<u, v>>[1] = u /\ <<u, v>>[2] = v
    OBVIOUS
  <1>6. {d, b} = {u, v}
    BY <1>2, <1>3
  <1> QED BY <1>2, <1>3, <1>4, <1>5, <1>6

\* A batch that gets both halves of a packet, the first before the last, stays in order.
LEMMA PairInOrder ==
  ASSUME NEW s \in Seq(ItemSet), NEW G, NEW e, InOrder(s, G, e), NEW x \in ItemSet, NEW y \in ItemSet,
         x.f.i = 1, y.f.i = 2, x.f = Frame(y.f.p, 1)
  PROVE  InOrder(s \o <<x, y>>, G, e)
  <1>1. PICK t : t = s \o <<x, y>>
    OBVIOUS
  <1>2. /\ Len(s) \in Nat /\ Len(t) = Len(s) + 2
        /\ t[Len(s) + 1] = x /\ t[Len(s) + 2] = y
        /\ \A i \in 1..Len(s) : t[i] = s[i]
    BY <1>1
  <1> SUFFICES ASSUME NEW i \in 1..(Len(s) + 2), t[i].f.i = 2
               PROVE  \/ FirstOf(t[i].f.p, e) \in G
                      \/ \E j \in 1..(i - 1) : t[j].f = Frame(t[i].f.p, 1)
    BY <1>1, <1>2 DEF InOrder
  <1>3. i # Len(s) + 1
    BY <1>2
  <1>4. CASE i = Len(s) + 2
    <2>1. Len(s) + 1 \in 1..(i - 1)
      BY <1>2, <1>4
    <2> QED BY <1>2, <1>4, <2>1
  <1>5. CASE i # Len(s) + 2
    <2>1. i \in 1..Len(s) /\ \A j \in 1..(i - 1) : j \in 1..Len(s)
      BY <1>2, <1>3, <1>5
    <2> QED BY <1>2, <2>1 DEF InOrder
  <1> QED BY <1>4, <1>5

\* A fragment to relay: it waits for its other half, is a copy, or both go to the batch.
LEMMA StorePairKeeps ==
  ASSUME Types, RefInv, LifeInv, Accounted, NEW l \in Links, StorePair(l)
  PROVE  Accounted'
  <1> DEFINE f == Head(rx[l].line)
             b == Buf(l, f)
             L == cache["local"]
             C == cache["relay"]
             item(c) == [f |-> c.f, bufs |-> {c}, own |-> {c}]
             F == rx[l].out["forward"]
             D == rx[l].out["deliver"]
  <1>0. life # "idle" => Accounted'
    BY ZenonT(40) DEF Accounted, StorePair, peer
  <1> SUFFICES ASSUME life = "idle" PROVE Accounted'
    BY <1>0
  <1>1. /\ rx[l] \in RxRec /\ StageOk(rx[l]) /\ LinesOk(rx[l])
        /\ rx \in [Links -> RxRec]
        /\ \A c \in Caches : CacheOk(c, cache[c]) /\ cache[c] \in CacheSet
        /\ Held(L) \cap Held(C) = {} /\ "local" \in Caches /\ "relay" \in Caches
    BY Here DEF Types, Caches
  <1>2. /\ rx[l].pc = "pairstore" /\ rx[l].line # << >> /\ rx[l].todo = << >>
        /\ rx[l].line \in Seq(Frames) /\ ~Whole(f)
    BY <1>1, Zenon DEF StorePair, StageOk, RxRec
  <1>3. /\ f \in Frames /\ b \in Buffers /\ b.f = f
        /\ b \notin Cached /\ Fragment(f) /\ ~f.p.local
    BY <1>2, NextFragment
  <1>4. PICK r : r = Submitted(C, [p |-> f.p, e |-> rx[l].e], b, rx[l].now)
    OBVIOUS
  <1>5. PICK pair : pair = PairItems(r.whole, b)
    OBVIOUS
  <1>6. PICK fwd : fwd = IF r.whole = {} THEN F ELSE F \o <<item(pair[1]), item(pair[2])>>
    BY ZenonT(40)
  <1>7. PICK t : t = [rx[l] EXCEPT !.line = Tail(@), !.out["forward"] = fwd]
    OBVIOUS
  <1>8. PICK s : s = Staged(t)
    OBVIOUS
  <1>9. /\ cache' = [cache EXCEPT !["relay"] = r.cache]
        /\ UNCHANGED <<epoch, life, passed, got>>
    BY <1>4, Zenon DEF StorePair, peer
  <1>10. rx' = [rx EXCEPT ![l] = s]
    BY <1>4, <1>5, <1>6, <1>7, <1>8, Zenon DEF StorePair
  <1>11. rx[l].e = epoch
    BY <1>2 DEF LifeInv, StoresAged, Aged, Uncleared, Closing, Closing2
  <1>12. Clean(rx[l]) /\ Ordered(rx[l], got, epoch) /\ Load(rx[l]) \cap Settled = {}
    BY <1>11 DEF Accounted
  <1> HIDE DEF b, C, L, f, F, D
  <1>f. f = Head(rx[l].line) /\ F = rx[l].out["forward"] /\ D = rx[l].out["deliver"]
    BY DEF f, F, D
  <1>13. b \notin Held(C) /\ Cached = Held(C) \cup Held(L)
    BY <1>3 DEF Cached, C, L
  <1>14. rx[l].e \in 0..MaxEpoch /\ rx[l].now \in Nat /\ C \in CacheSet /\ CacheOk("relay", C)
    BY <1>1, FragmentsAssumption DEF RxRec, C
  <1>15. \/ r.whole = {} /\ Held(r.cache) \subseteq Held(C) \cup {b}
         \/ \E d \in Held(C) : /\ d.f.p = b.f.p /\ d.f.i # b.f.i
                               /\ r.whole = {d, b}
                               /\ Held(r.cache) \subseteq Held(C) \ {d}
    <2>1. Fragment(b.f) /\ (b.f.p.local <=> "relay" = "local")
      BY <1>3
    <2>2. r = Submitted(C, [p |-> b.f.p, e |-> rx[l].e], b, rx[l].now)
      BY <1>3, <1>4
    <2> QED BY <1>3, <1>13, <1>14, <2>1, <2>2, StoreFacts
  <1>16. Cached' = Held(r.cache) \cup Held(L)
    <2>1. cache'["relay"] = r.cache /\ cache'["local"] = L
      BY <1>1, <1>9 DEF Types, L, Caches
    <2> QED BY <2>1 DEF Cached
  <1>17. Tail(rx[l].line) \in Seq(Frames) /\ rx[l].out \in OutSet /\ F \in Seq(ItemSet) /\ D \in Seq(ItemSet)
    BY <1>1, <1>2, <1>f, TailFacts DEF RxRec, OutSet
  \* What the thread is left with.
  <1>18. ASSUME fwd \in Seq(ItemSet)
         PROVE  /\ s.full = rx[l].full /\ s.out["deliver"] = D /\ s.out["forward"] = fwd /\ s.e = epoch
                /\ Moves(s) \subseteq Moves(rx[l]) \ {f} /\ f \in Moves(rx[l]) /\ f \in Load(rx[l])
    <2>1. t \in RxRec
      <3>1. [rx[l].out EXCEPT !["forward"] = fwd] \in OutSet
        BY <1>17, <1>18 DEF OutSet
      <3> QED BY <1>1, <1>7, <1>17, <3>1 DEF RxRec
    <2>2. /\ t.todo = rx[l].todo /\ t.line = Tail(rx[l].line) /\ t.full = rx[l].full
          /\ t.out["forward"] = fwd /\ t.out["deliver"] = D /\ t.e = epoch
      BY <1>1, <1>2, <1>7, <1>11, <1>17, <1>f DEF RxRec, OutSet
    <2>3. SameLoad(t, s) /\ s.e = t.e
      BY <1>8, <2>1, StagedFacts
    <2>4. ToSet(rx[l].line) = ToSet(Tail(rx[l].line)) \cup {f} /\ f \notin ToSet(Tail(rx[l].line))
      BY <1>1, <1>2, <1>f, TailFacts DEF LinesOk
    <2>5. f \notin LocalHalves
      BY <1>3 DEF LocalHalves
    <2>6. s.todo = << >> /\ s.line = Tail(rx[l].line)
      BY <1>2, <2>2, <2>3 DEF SameLoad
    <2>7. ToSet(<< >>) = {}
      BY DEF ToSet
    <2>8. Moves(s) \subseteq Moves(rx[l]) \ {f} /\ f \in Moves(rx[l])
      BY <1>2, <2>4, <2>5, <2>6, <2>7 DEF Moves
    <2> QED BY <2>2, <2>3, <2>8 DEF SameLoad, Load
  <1>19. ASSUME r.whole = {}, Held(r.cache) \subseteq Held(C) \cup {b} PROVE Accounted'
    <2>1. fwd = F
      BY <1>6, <1>19
    <2>2. /\ s.full = rx[l].full /\ s.out["deliver"] = D /\ s.out["forward"] = F /\ s.e = epoch
          /\ Moves(s) \subseteq Moves(rx[l]) \ {f} /\ f \in Moves(rx[l]) /\ f \in Load(rx[l])
      BY <1>17, <1>18, <2>1
    <2>3. Shows(s) = Shows(rx[l]) /\ Shaped(s) /\ Ordered(s, got, epoch)
      BY <1>12, <1>f, <2>2 DEF Shows, Shaped, Clean, Ordered
    <2>4. Clean(s)
      BY <1>12, <1>f, <2>2, <2>3 DEF Clean, FramesApart
    <2>5. Load(s) \subseteq Load(rx[l]) \ {b.f}
      BY <1>3, <1>12, <2>2, <2>3 DEF Load, Clean, FramesApart
    <2>6. Cached' \subseteq Cached \cup {b}
      BY <1>13, <1>16, <1>19
    <2> QED BY <1>3, <1>9, <1>10, <1>11, <2>2, <2>3, <2>4, <2>5, <2>6, StoreOnce
  <1>20. ASSUME NEW d \in Held(C), d.f.p = b.f.p, d.f.i # b.f.i,
                r.whole = {d, b}, Held(r.cache) \subseteq Held(C) \ {d}
         PROVE  Accounted'
    <2>1. d \in Cached /\ d \in Buffers /\ d.f \in Frames
      <3>1. d \in Cached /\ d \in Buffers
        BY <1>13, <1>14, <1>20, HeldType
      <3> QED BY <3>1 DEF Buffers
    <2>2. PICK u, v : u = pair[1] /\ v = pair[2]
      OBVIOUS
    <2>3. {d, b} = {u, v} /\ u.f.i = 1 /\ v.f.i = 2
      BY <1>3, <1>5, <1>20, <2>1, <2>2, PairOrder
    <2>4. u \in Buffers /\ v \in Buffers /\ u.f \in Frames /\ v.f \in Frames
      BY <1>3, <2>1, <2>3
    <2>5. u.f.p = f.p /\ v.f.p = f.p /\ {u.f, v.f} = {d.f, f} /\ u.f # v.f
      BY <1>3, <1>20, <2>3
    <2>6. PICK x, y : x = item(u) /\ y = item(v)
      OBVIOUS
    <2>7. /\ x \in ItemSet /\ y \in ItemSet /\ x.f = u.f /\ y.f = v.f
          /\ Fr(x) = {u.f} /\ Fr(y) = {v.f}
      BY <2>4, <2>6 DEF ItemSet, Fr
    <2>8. RelayItem(x) /\ RelayItem(y)
      BY <1>3, <2>4, <2>5, <2>7 DEF RelayItem
    <2>9. fwd = F \o <<x, y>>
      BY <1>6, <1>20, <2>2, <2>6
    <2> HIDE DEF item
    <2>10. d.f \in Settled /\ d.f \notin Load(rx[l])
      BY <1>12, <2>1 DEF Settled, CachedNow
    <2>11. f \in Moves(rx[l])
      <3>1. f \in ToSet(rx[l].line) /\ f \notin LocalHalves
        BY <1>2, <1>3, <1>f, TailFacts DEF LocalHalves
      <3> QED BY <3>1 DEF Moves
    <2>12. /\ d.f \notin Moves(rx[l]) /\ d.f \notin Shows(rx[l]) /\ f \notin Shows(rx[l])
      BY <1>12, <2>10, <2>11 DEF Clean, FramesApart, Load
    <2>13. Fr(x) \cap FrOf(ToSet(F)) = {} /\ Fr(y) \cap FrOf(ToSet(F)) = {} /\ Fr(x) \cap Fr(y) = {}
      BY <1>f, <2>5, <2>7, <2>12 DEF Shows
    <2>14. SeqFrApart(F) /\ SeqFrApart(D)
      BY <1>12, <1>f DEF Clean, FramesApart
    <2>15. /\ fwd \in Seq(ItemSet) /\ SeqFrApart(fwd) /\ ToSet(fwd) = ToSet(F) \cup {x, y}
           /\ FrOf(ToSet(fwd)) = FrOf(ToSet(F)) \cup Fr(x) \cup Fr(y)
      <3>1. F \in Seq(ItemSet) /\ x \in ItemSet /\ y \in ItemSet /\ SeqFrApart(F)
        BY <1>17, <2>7, <2>14
      <3>2. /\ F \o <<x, y>> \in Seq(ItemSet) /\ SeqFrApart(F \o <<x, y>>)
            /\ ToSet(F \o <<x, y>>) = ToSet(F) \cup {x, y}
            /\ FrOf(ToSet(F \o <<x, y>>)) = FrOf(ToSet(F)) \cup Fr(x) \cup Fr(y)
        BY ONLY <2>13, <3>1, FramesTwo
      <3> QED BY <2>9, <3>2
    <2>16. /\ s.full = rx[l].full /\ s.out["deliver"] = D /\ s.out["forward"] = fwd /\ s.e = epoch
           /\ Moves(s) \subseteq Moves(rx[l]) \ {f} /\ f \in Load(rx[l])
      BY <1>18, <2>15
    <2>17. Shaped(s)
      BY <1>12, <1>f, <2>8, <2>15, <2>16 DEF Shaped, Clean
    <2>18. Ordered(s, got, epoch)
      <3>1. x.f = Frame(y.f.p, 1)
        BY <2>3, <2>4, <2>5, <2>7, FrameFacts
      <3>2. InOrder(F, got, epoch)
        BY <1>12, <1>f DEF Ordered
      <3>3. InOrder(F \o <<x, y>>, got, epoch)
        BY <1>17, <2>3, <2>7, <3>1, <3>2, PairInOrder
      <3> QED BY <2>9, <2>16, <3>3 DEF Ordered
    <2>n. PICK n : n = {d.f, f}
      OBVIOUS
    <2>e. PICK none : none = {}
      OBVIOUS
    <2>19. /\ FrOf(ToSet(s.out["deliver"])) = FrOf(ToSet(rx[l].out["deliver"])) \cup none
           /\ FrOf(ToSet(s.out["forward"])) = FrOf(ToSet(rx[l].out["forward"])) \cup n
           /\ none \cap n = {}
      BY <1>f, <2>5, <2>7, <2>15, <2>16, <2>n, <2>e
    <2>20. (none \cup n) \cap (Moves(s) \cup FrOf(s.full) \cup FrOf(ToSet(rx[l].out["deliver"]))
                               \cup FrOf(ToSet(rx[l].out["forward"]))) = {}
      BY <2>12, <2>16, <2>n, <2>e DEF Shows
    <2>21. FramesApart(s) /\ Load(s) \subseteq Load(rx[l]) \cup none \cup n
      <3>1. FramesApart(rx[l]) /\ s.full \subseteq rx[l].full /\ Moves(s) \subseteq Moves(rx[l])
        BY <1>12, <2>16 DEF Clean
      <3>2. SeqFrApart(s.out["deliver"]) /\ SeqFrApart(s.out["forward"])
        BY <2>14, <2>15, <2>16
      <3> QED BY ONLY <2>19, <2>20, <3>1, <3>2, Grown
    <2>22. Load(s) \subseteq Load(rx[l]) \cup {d.f}
      BY <2>16, <2>21, <2>n, <2>e
    <2>23. Cached' \subseteq Cached \ {d}
      BY <1>1, <1>13, <1>16, <1>20 DEF C, L
    <2> QED BY <1>3, <1>9, <1>10, <1>11, <2>1, <2>16, <2>17, <2>18, <2>21, <2>22, <2>23, StoreOnce DEF Clean
  <1> QED BY <1>15, <1>19, <1>20

-----------------------------------------------------------------------------
\* Dispatching and handing on keep the account

\* A whole frame or a complete packet moves on to a batch.
LEMMA DispatchKeeps ==
  ASSUME Types, RefInv, Accounted, NEW l \in Links, DispatchFrame(l)
  PROVE  Accounted'
  <1> DEFINE r == rx[l]
             f == Head(r.line)
             q == IF f.p.local THEN "deliver" ELSE "forward"
             whole == [f |-> f, bufs |-> {Buf(l, f)}, own |-> {}]
             item == IF Fragment(f) THEN CHOOSE w \in r.full : w.f = f ELSE whole
  <1>0. life # "idle" => Accounted'
    BY Zenon DEF Accounted, DispatchFrame, peer
  <1> SUFFICES ASSUME life = "idle" PROVE Accounted'
    BY <1>0
  <1>1. r \in RxRec /\ StageOk(r) /\ LinesOk(r) /\ rx \in [Links -> RxRec]
    BY Here DEF Types
  <1>2. r.line # << >> /\ r.todo = << >> /\ r.line \in Seq(Frames) /\ r.e = epoch
    BY <1>1 DEF DispatchFrame, StageOk, RxRec, Matches
  <1>3. PICK t : t = [r EXCEPT !.line = Tail(@), !.out[q] = Append(@, item),
                               !.full = {w \in @ : w.f # f}]
    BY Zenon
  <1>4. PICK s : s = Staged(t)
    OBVIOUS
  <1>5. /\ rx' = [rx EXCEPT ![l] = s]
        /\ UNCHANGED <<epoch, life, passed, got, cache>>
    <2>1. rx' = [rx EXCEPT ![l] = Staged([r EXCEPT !.line = Tail(@), !.out[q] = Append(@, item),
                                                   !.full = {w \in @ : w.f # f}])]
      BY DEF DispatchFrame
    <2>2. rx' = [rx EXCEPT ![l] = s]
      BY <1>3, <1>4, <2>1, Zenon
    <2> QED BY <2>2 DEF DispatchFrame, peer
  <1>6. f \in Frames /\ Tail(r.line) \in Seq(Frames) /\ f \in ToSet(r.line) /\ (f.p.local \/ ~Fragment(f))
    <2>1. f.p.local \/ ~Fragment(f)
      BY DEF DispatchFrame
    <2>2. f \in Frames /\ Tail(r.line) \in Seq(Frames) /\ f \in ToSet(r.line)
      BY <1>2, TailFacts
    <2> QED BY <2>1, <2>2
  <1>7. /\ item \in ItemSet /\ item.f = f
        /\ Fragment(f) => item \in r.full
        /\ ~Fragment(f) => Fr(item) = {f}
    <2>1. CASE Fragment(f)
      <3>1. f \in LocalHalves
        BY <1>6, <2>1 DEF LocalHalves
      <3>2. \E w \in r.full : w.f = f
        BY <1>1, <1>2, <1>6, <3>1 DEF LinesOk
      <3>3. item \in r.full /\ item.f = f
        BY <2>1, <3>2
      <3>4. item \in ItemSet
        BY <1>1, <3>3 DEF RxRec
      <3> QED BY <2>1, <3>3, <3>4
    <2>2. CASE ~Fragment(f)
      <3>1. Buf(l, f) \in Buffers /\ Buf(l, f).f = f
        BY <1>6 DEF Buffers, Buf
      <3>2. item = whole
        BY <2>2
      <3>3. whole \in ItemSet /\ whole.f = f /\ Fr(whole) = {f}
        BY <1>6, <3>1 DEF ItemSet, Fr
      <3> HIDE DEF item, whole
      <3> QED BY <2>2, <3>2, <3>3
    <2> QED BY <2>1, <2>2
  <1> HIDE DEF item
  <1>8. r.out \in OutSet
    BY <1>1 DEF RxRec
  <1>q. q \in {"deliver", "forward"} /\ q = IF f.p.local THEN "deliver" ELSE "forward"
    OBVIOUS
  <1> HIDE DEF q, f
  <1>f. f = Head(r.line)
    BY DEF f
  <1>9. r.out[q] \in Seq(ItemSet) /\ Append(r.out[q], item) \in Seq(ItemSet)
    <2>1. r.out[q] \in Seq(ItemSet)
      BY <1>8, <1>q DEF OutSet
    <2> QED BY <1>7, <2>1, AppendFacts
  <1>10. PICK out : out = [r.out EXCEPT ![q] = Append(r.out[q], item)]
    OBVIOUS
  <1>11. out \in OutSet
    BY <1>8, <1>q, <1>9, <1>10 DEF OutSet
  <1>12. t = [r EXCEPT !.line = Tail(@), !.out = out, !.full = {w \in @ : w.f # f}]
    BY <1>1, <1>3, <1>10
  <1>13. t \in RxRec
    BY <1>1, <1>6, <1>11, <1>12 DEF RxRec
  <1>14. /\ t.todo = r.todo /\ t.line = Tail(r.line) /\ t.full = {w \in r.full : w.f # f}
         /\ t.out = [r.out EXCEPT ![q] = Append(r.out[q], item)] /\ t.e = epoch
    BY <1>1, <1>2, <1>10, <1>12 DEF RxRec
  <1>15. SameLoad(t, s) /\ s.e = epoch
    BY <1>4, <1>13, <1>14, StagedFacts
  <1>16. Clean(r) /\ Ordered(r, got, epoch) /\ Load(r) \cap Settled = {}
    BY <1>2 DEF Accounted
  <1>17. Clean(t) /\ Ordered(t, got, epoch) /\ Load(t) \subseteq Load(r)
    BY ONLY <1>1, <1>2, <1>6, <1>7, <1>14, <1>16, <1>f, <1>q, FrameGoes
  <1>18. Clean(s) /\ Ordered(s, got, epoch) /\ Load(s) \subseteq Load(r)
    BY <1>15, <1>17 DEF SameLoad, Load, Moves, Shows, Clean, FramesApart, Shaped, Ordered
  <1>19. Settled' = Settled /\ (\A b, c \in Cached : b.f = c.f => b = c)' /\ (CachedNow \cap GotNow = {})'
    <2>1. Cached' = Cached
      BY <1>5 DEF Cached
    <2>2. CachedNow' = CachedNow /\ GotNow' = GotNow
      BY <1>5, <2>1 DEF CachedNow, GotNow
    <2> QED BY <2>1, <2>2 DEF Settled, Accounted
  <1>20. /\ got \subseteq got' /\ r.e = epoch /\ Ordered(s, got', epoch)
         /\ Load(s) \cap Settled' = {} /\ Load(s) \cup Settled' \subseteq Load(r) \cup Settled
    BY <1>2, <1>5, <1>16, <1>18, <1>19
  <1> QED BY <1>5, <1>15, <1>18, <1>19, <1>20, OnceStep, Zenon

\* An item whose epoch still matches is handed on, its frames for the first time in this life.
LEMMA FlushKeeps ==
  ASSUME Types, RefInv, LifeInv, Accounted, NEW l \in Links, FlushItem(l), MayHand(rx[l].e)
  PROVE  /\ Accounted' /\ life = "idle" /\ rx[l].e = epoch
         /\ \E w : LET h == [frames |-> Fr(w), e |-> epoch, copy |-> 0]
                   IN /\ got' = got \cup {h} /\ h \notin got
                      /\ \/ WholeItem(w)
                         \/ RelayItem(w) /\ (w.f.i = 2 => FirstOf(w.f.p, epoch) \in got)
  <1> DEFINE q == rx[l].pc
             item == Head(rx[l].out[q])
             own == item.own
             out == [rx[l].out EXCEPT ![q] = Tail(rx[l].out[q])]
             h == [frames |-> Fr(item), e |-> epoch, copy |-> 0]
  <1>1. rx[l] \in RxRec /\ rx \in [Links -> RxRec]
    BY Here DEF Types
  <1>2. q \in {"deliver", "forward"} /\ rx[l].out[q] # << >>
    BY DEF FlushItem
  <1>3. UNCHANGED <<epoch, life, passed, cache>>
    BY DEF FlushItem, peer
  <1>4. rx[l].e = epoch /\ life = "idle"
    <2>1. Aged("local", rx[l].e) /\ rx[l].e = epoch
      BY <1>2, MatchesAged DEF MayHand, Matches
    <2>2. epoch \in Nat
      BY DEF Types, PeerTypes
    <2> QED BY <2>1, <2>2 DEF Aged
  <1>5. Clean(rx[l]) /\ Ordered(rx[l], got, epoch) /\ Load(rx[l]) \cap Settled = {}
    BY <1>4 DEF Accounted
  <1>6. PICK t : t = [rx[l] EXCEPT !.out = out, !.kept = rx[l].kept \cup own]
    OBVIOUS
  <1>7. rx' = [rx EXCEPT ![l] = t]
    <2>1. rx' = [rx EXCEPT ![l].out[q] = Tail(@), ![l].kept = @ \cup own]
      BY DEF FlushItem
    <2> QED BY <1>1, <1>2, <1>6, <2>1 DEF RxRec, OutSet
  <1>8. got' = got \cup {Handed(Fr(item), epoch)}
    BY <1>4 DEF FlushItem, Fr
  <1>9. /\ t.full = rx[l].full /\ t.out = out /\ t.e = rx[l].e
        /\ t.todo = rx[l].todo /\ t.line = rx[l].line
    BY <1>1, <1>6 DEF RxRec
  <1>q. PICK k : k = q
    OBVIOUS
  <1>i. PICK w : w = item
    OBVIOUS
  <1>10. PICK H : H = got \cup {h}
    OBVIOUS
  <1>11. /\ Clean(t) /\ Ordered(t, H, epoch)
         /\ Load(rx[l]) = Load(t) \cup Fr(w) /\ Load(t) \cap Fr(w) = {}
         /\ k = "deliver" => WholeItem(w)
         /\ k = "forward" => RelayItem(w) /\ (w.f.i = 2 => FirstOf(w.f.p, epoch) \in got)
    <2>1. /\ k \in {"deliver", "forward"} /\ rx[l].out[k] # << >> /\ w = Head(rx[l].out[k])
          /\ t.out = [rx[l].out EXCEPT ![k] = Tail(rx[l].out[k])]
      BY <1>2, <1>9, <1>q, <1>i
    <2>2. got \subseteq H /\ [frames |-> Fr(w), e |-> epoch, copy |-> 0] \in H
      BY <1>10, <1>i
    <2>3. PICK R : R = rx[l]
      OBVIOUS
    <2>4. /\ k \in {"deliver", "forward"} /\ R.out[k] # << >> /\ w = Head(R.out[k])
          /\ t.out = [R.out EXCEPT ![k] = Tail(R.out[k])]
      BY <2>1, <2>3
    <2>5. R \in RxRec /\ Clean(R) /\ Ordered(R, got, epoch)
      BY <1>1, <1>5, <2>3
    <2>6. t.todo = R.todo /\ t.line = R.line /\ t.full = R.full
      BY <1>9, <2>3
    <2>7. /\ Clean(t) /\ Ordered(t, H, epoch)
          /\ Load(R) = Load(t) \cup Fr(w) /\ Load(t) \cap Fr(w) = {}
          /\ k = "deliver" => WholeItem(w)
          /\ k = "forward" => RelayItem(w) /\ (w.f.i = 2 => FirstOf(w.f.p, epoch) \in got)
      BY ONLY <2>2, <2>4, <2>5, <2>6, ItemGoes, SMTT(30)
    <2> QED BY <2>3, <2>7
  <1>12. Fr(w) # {}
    <2>1. ASSUME WholeItem(w) PROVE Fr(w) # {}
      <3>1. PICK p \in Packets : Fr(w) = WholeOf(p)
        BY <2>1 DEF WholeItem
      <3>2. 1 \in 1..p.parts
        BY FragmentsAssumption
      <3> QED BY <3>1, <3>2 DEF WholeOf
    <2> QED BY <1>2, <1>11, <1>q, <2>1 DEF RelayItem
  <1> HIDE DEF q, own, out, item
  <1>13. Fr(w) \cap Settled = {} /\ Fr(w) \subseteq Load(rx[l])
    BY <1>5, <1>11
  <1>14. {g \in got : g.frames = Fr(w) /\ g.e = epoch} = {}
    <2>1. \A g \in got : g.e = epoch => g.frames \subseteq GotNow
      BY DEF GotNow
    <2> QED BY <1>12, <1>13, <2>1 DEF Settled
  <1>15. Handed(Fr(w), epoch) = [frames |-> Fr(w), e |-> epoch, copy |-> 0]
    BY <1>14, FS_EmptySet DEF Handed
  <1>16. got' = got \cup {h} /\ got' = H /\ h \notin got
    BY <1>8, <1>10, <1>14, <1>15, <1>i
  <1>17. GotNow' = GotNow \cup Fr(w)
    BY <1>3, <1>16, <1>i DEF GotNow
  <1>18. Cached' = Cached /\ CachedNow' = CachedNow
    BY <1>3 DEF Cached, CachedNow
  <1>19. /\ (\A b, c \in Cached : b.f = c.f => b = c)' /\ (CachedNow \cap GotNow = {})'
         /\ Settled' = Settled \cup Fr(w)
    BY <1>4, <1>13, <1>17, <1>18 DEF Accounted, Settled
  <1>20. /\ got \subseteq got' /\ Ordered(t, got', epoch) /\ t.e = epoch
         /\ Load(t) \cap Settled' = {} /\ Load(t) \cup Settled' \subseteq Load(rx[l]) \cup Settled
    BY <1>4, <1>5, <1>9, <1>11, <1>16, <1>19
  <1>21. Accounted'
    BY <1>3, <1>4, <1>7, <1>11, <1>19, <1>20, OnceStep
  <1>22. WholeItem(w) \/ (RelayItem(w) /\ (w.f.i = 2 => FirstOf(w.f.p, epoch) \in got))
    BY <1>2, <1>11, <1>q
  <1> QED BY <1>4, <1>16, <1>21, <1>22, <1>i

-----------------------------------------------------------------------------
\* Every step keeps the account of frames

\* A call that is stale is not of this life.
LEMMA StaleCall ==
  ASSUME LifeInv, NEW e, ~Matches(e), life = "idle"
  PROVE  e # epoch
  BY DEF LifeInv, Parity, Matches

\* Storing or skipping a fragment leaves the life of a call alone.
LEMMA ReassembledLife ==
  ASSUME NEW r \in RxRec, NEW full
  PROVE  Reassembled(r, full).e = r.e
  <1>1. "pc" \in DOMAIN r /\ "e" \in DOMAIN r
    BY DEF RxRec
  <1> DEFINE rest == Tail(r.todo)
             kept == Selected(r.line, (Frames \ LocalHalves) \cup {w.f : w \in full})
  <1>2. CASE rest # << >>
    <2>1. Reassembled(r, full) = [r EXCEPT !.todo = rest, !.pc = "check", !.full = full]
      BY <1>2 DEF Reassembled
    <2> HIDE DEF rest
    <2> QED BY <2>1 DEF RxRec
  <1>3. CASE rest = << >>
    <2>1. PICK t : t = [r EXCEPT !.todo = rest, !.full = full, !.line = kept]
      OBVIOUS
    <2>2. Reassembled(r, full) = Staged(t)
      BY <1>3, <2>1 DEF Reassembled
    <2> HIDE DEF rest, kept
    <2>3. "pc" \in DOMAIN t /\ "e" \in DOMAIN t /\ t.e = r.e
      BY <1>1, <2>1 DEF RxRec
    <2> QED BY <2>2, <2>3, StagedPc
  <1> QED BY <1>2, <1>3

\* Steps of a thread that leave its items and frames alone, or its life.
LEMMA QuietKeeps ==
  ASSUME Types, RefInv, LifeInv, Accounted, NEW l \in Links,
         \/ ReadClock(l) \/ PairClock(l) \/ DispatchPair(l) \/ EnterReassembly(l)
         \/ EnterPairs(l) \/ Delivered(l) \/ Forwarded(l) \/ Return(l)
         \/ CheckFragment(l) \/ DispatchStale(l) \/ (FlushItem(l) /\ ~MayHand(rx[l].e))
  PROVE  Accounted' /\ UNCHANGED <<epoch, got>>
  <1>1. rx[l] \in RxRec /\ rx \in [Links -> RxRec]
    BY Here DEF Types
  <1>2. "pc" \in DOMAIN rx[l] /\ "e" \in DOMAIN rx[l]
    BY <1>1 DEF RxRec
  <1>3. UNCHANGED <<epoch, life, passed, got>>
    BY Zenon DEF ReadClock, PairClock, DispatchPair, EnterReassembly, EnterPairs, Delivered,
                 Forwarded,
           Return, CheckFragment, DispatchStale, FlushItem, peer
  <1>4. Cached' \subseteq Cached
    <2>1. CASE EnterReassembly(l) \/ EnterPairs(l)
      BY <2>1, EnterStep, EnterPairsStep, LessCached
    <2>2. CASE ~(EnterReassembly(l) \/ EnterPairs(l))
      <3>1. cache' = cache
        BY <2>2, Zenon DEF ReadClock, PairClock, DispatchPair, Delivered, Forwarded, Return,
                           CheckFragment,
                    DispatchStale, FlushItem
      <3> QED BY <3>1 DEF Cached
    <2> QED BY <2>1, <2>2
  <1>5. ASSUME NEW r, rx' = [rx EXCEPT ![l] = r], SameFrames(rx[l], r), r.e = rx[l].e
        PROVE  Accounted'
    BY <1>3, <1>4, <1>5, QuietOnce
  <1>6. ASSUME NEW r, rx' = [rx EXCEPT ![l] = r], life = "idle" => r.e # epoch
        PROVE  Accounted'
    BY <1>3, <1>4, <1>6, QuietOnce
  <1>7. CASE ReadClock(l) \/ PairClock(l)
    <2>1. PICK pc : rx' = [rx EXCEPT ![l].pc = pc, ![l].now = clock]
      BY <1>7 DEF ReadClock, PairClock
    <2>2. PICK r : r = [rx[l] EXCEPT !.pc = pc, !.now = clock]
      OBVIOUS
    <2>3. rx' = [rx EXCEPT ![l] = r] /\ SameFrames(rx[l], r) /\ r.e = rx[l].e
      BY <1>1, <2>1, <2>2 DEF SameFrames, RxRec
    <2> QED BY <1>3, <1>5, <2>3
  <1>8. ASSUME NEW pc, rx' = [rx EXCEPT ![l].pc = pc] PROVE Accounted'
    <2>1. PICK r : r = [rx[l] EXCEPT !.pc = pc]
      OBVIOUS
    <2>2. rx' = [rx EXCEPT ![l] = r] /\ SameFrames(rx[l], r) /\ r.e = rx[l].e
      BY <1>1, <1>8, <2>1 DEF SameFrames, RxRec
    <2> QED BY <1>3, <1>5, <2>2
  <1>9. CASE DispatchPair(l) \/ EnterReassembly(l)
    BY <1>3, <1>8, <1>9 DEF DispatchPair, EnterReassembly
  <1>10. CASE EnterPairs(l)
    <2>1. CASE StillCurrent(rx[l].e)
      BY <1>3, <1>8, <1>10, <2>1 DEF EnterPairs
    <2>2. CASE ~StillCurrent(rx[l].e)
      <3>1. PICK t : t = [rx[l] EXCEPT !.line = Tail(@)]
        OBVIOUS
      <3>2. rx' = [rx EXCEPT ![l] = Staged(t)]
        BY <1>10, <2>2, <3>1 DEF EnterPairs
      <3>3. Staged(t).e = rx[l].e
        BY <1>1, <1>2, <3>1, StagedPc DEF RxRec
      <3>4. life = "idle" => Staged(t).e # epoch
        BY <2>2, <3>3, StaleCall DEF StillCurrent
      <3> QED BY <1>3, <1>6, <3>2, <3>4
    <2> QED BY <2>1, <2>2
  <1>11. CASE Delivered(l) \/ Forwarded(l)
    <2>1. PICK t : t = [rx[l] EXCEPT !.kept = {}]
      OBVIOUS
    <2>2. rx' = [rx EXCEPT ![l] = Staged(t)]
      BY <1>11, <2>1 DEF Delivered, Forwarded
    <2>3. t \in RxRec /\ SameFrames(rx[l], t) /\ t.e = rx[l].e
      BY <1>1, <2>1 DEF SameFrames, RxRec
    <2>4. SameFrames(rx[l], Staged(t)) /\ Staged(t).e = rx[l].e
      BY <2>3, StagedFacts DEF SameFrames, SameLoad
    <2> QED BY <1>3, <1>5, <2>2, <2>4
  <1>12. CASE Return(l)
    <2>1. rx' = [rx EXCEPT ![l] = IdleRx] /\ IdleRx.e = 0
      BY <1>12 DEF Return, IdleRx
    <2>2. life = "idle" => IdleRx.e # epoch
      BY <2>1 DEF LifeInv, Parity
    <2> QED BY <1>3, <1>6, <2>1, <2>2
  <1>13. CASE CheckFragment(l)
    <2>1. CASE StillCurrent(rx[l].e)
      BY <1>3, <1>8, <1>13, <2>1 DEF CheckFragment
    <2>2. CASE ~StillCurrent(rx[l].e)
      <3>1. PICK r : r = Reassembled(rx[l], rx[l].full)
        OBVIOUS
      <3>2. rx' = [rx EXCEPT ![l] = r]
        BY <1>13, <2>2, <3>1 DEF CheckFragment
      <3>3. r.e = rx[l].e
        BY <1>1, <3>1, ReassembledLife
      <3>4. life = "idle" => r.e # epoch
        BY <2>2, <3>3, StaleCall DEF StillCurrent
      <3> QED BY <1>3, <1>6, <3>2, <3>4
    <2> QED BY <2>1, <2>2
  <1>14. CASE DispatchStale(l)
    <2>1. PICK t : t = [rx[l] EXCEPT !.line = Tail(@), !.full = {w \in @ : w.f # Head(rx[l].line)}]
      OBVIOUS
    <2>2. rx' = [rx EXCEPT ![l] = Staged(t)] /\ ~Matches(rx[l].e)
      BY <1>14, <2>1 DEF DispatchStale
    <2>3. Staged(t).e = rx[l].e
      BY <1>1, <1>2, <2>1, StagedPc DEF RxRec
    <2>4. life = "idle" => Staged(t).e # epoch
      BY <2>2, <2>3, StaleCall
    <2> QED BY <1>3, <1>6, <2>2, <2>4
  <1>15. CASE FlushItem(l) /\ ~MayHand(rx[l].e)
    <2> DEFINE q == rx[l].pc
               out == [rx[l].out EXCEPT ![q] = Tail(rx[l].out[q])]
    <2>1. q \in {"deliver", "forward"} /\ rx' = [rx EXCEPT ![l].out[q] = Tail(@)]
      BY <1>15 DEF FlushItem
    <2>2. PICK r : r = [rx[l] EXCEPT !.out = out]
      OBVIOUS
    <2>3. rx' = [rx EXCEPT ![l] = r]
      BY <1>1, <2>1, <2>2 DEF RxRec, OutSet
    <2> HIDE DEF q, out
    <2>4. r.e = rx[l].e
      BY <1>1, <2>2 DEF RxRec
    <2>5. life = "idle" => r.e # epoch
      BY <1>15, <2>4, StaleCall DEF MayHand
    <2> QED BY <1>3, <1>6, <2>3, <2>5
  <1> QED BY <1>3, <1>7, <1>9, <1>10, <1>11, <1>12, <1>13, <1>14, <1>15

\* Frames that arrive have not passed yet, so they are nowhere in this life.
LEMMA ReceiveKeeps ==
  ASSUME Types, RefInv, LifeInv, Accounted, Counting(window, passed, lost),
         NEW l \in Links, NEW batch \in Batches, Receive(l, batch)
  PROVE  Accounted' /\ UNCHANGED <<epoch, got>>
  <1> DEFINE B == {Buf(l, f) : f \in ToSet(batch)}
             ok == Accepted(window, batch).ok
             todo == Selected(ok, LocalHalves)
  <1>1. /\ life = "idle" /\ UNCHANGED <<epoch, life, cache, got>>
        /\ passed' = passed \cup NumbersOf(ToSet(ok))
    BY DEF Receive, NumbersOf
  <1>2. window \in Windows /\ lost \in Nat /\ rx \in [Links -> RxRec] /\ epoch \in 0..MaxEpoch
    BY DEF Types, PeerTypes
  <1>3. (\A f \in ToSet(ok) : Number(f) \notin passed) /\ ToSet(ok) \subseteq Frames
    BY <1>2, AcceptedCounting
  <1>4. batch \in Seq(Frames) /\ SeqInj(batch)
    BY FragmentsAssumption DEF SeqInj
  <1>5. ok \in Seq(Frames) /\ SeqInj(ok)
    BY <1>2, <1>4, AcceptedFacts
  <1>6. CachedNow' = CachedNow /\ GotNow' = GotNow /\ Cached' = Cached
    BY <1>1 DEF CachedNow, GotNow, Cached
  <1>7. Settled' = Settled
    BY <1>6 DEF Settled
  <1>8. /\ \A b, c \in Cached : b.f = c.f => b = c
        /\ CachedNow \cap GotNow = {}
        /\ NumbersOf(Settled) \subseteq passed
        /\ \A m \in Links : rx[m].e = epoch =>
             /\ NumbersOf(Load(rx[m])) \subseteq passed
             /\ Clean(rx[m]) /\ Ordered(rx[m], got, epoch)
             /\ Load(rx[m]) \cap Settled = {}
        /\ \A m, k \in Links : m # k /\ rx[m].e = epoch /\ rx[k].e = epoch =>
             Load(rx[m]) \cap Load(rx[k]) = {}
    BY <1>1 DEF Accounted
  <1>9. (\A b, c \in Cached : b.f = c.f => b = c)' /\ (CachedNow \cap GotNow = {})'
    BY <1>6, <1>8
  <1>10. CASE ok = << >>
    <2>1. rx' = rx
      BY <1>10 DEF Receive
    <2> HIDE DEF ok
    <2>2. ToSet(ok) = {} /\ NumbersOf({}) = {}
      BY <1>10 DEF ToSet, NumbersOf
    <2>3. passed' = passed
      BY <1>1, <2>2
    <2> QED BY <1>1, <1>7, <1>8, <1>9, <2>1, <2>3 DEF Accounted
  <1>11. CASE ok # << >>
    <2>1. PICK t : t = [IdleRx EXCEPT !.e = epoch, !.base = B, !.line = ok, !.todo = todo]
      OBVIOUS
    <2>2. PICK s : s = Staged(t)
      OBVIOUS
    <2>3. rx' = [rx EXCEPT ![l] = s]
      BY <1>11, <2>1, <2>2 DEF Receive
    <2>4. todo \in Seq(Frames) /\ ToSet(todo) = ToSet(ok) \cap LocalHalves
      BY <1>5, SelectedFacts
    <2>5. B \in SUBSET Buffers
      BY <1>4 DEF Buf, Buffers, ToSet
    <2> HIDE DEF B, ok, todo
    <2>6. t \in RxRec /\ t.line = ok /\ t.todo = todo /\ t.full = {} /\ t.out = NoQueue /\ t.e = epoch
      BY <1>2, <1>5, <2>1, <2>4, <2>5, IdleFacts DEF RxRec, IdleRx
    <2>7. s.line = ok /\ s.todo = todo /\ s.full = {} /\ s.out = NoQueue /\ s.e = epoch
      BY <2>2, <2>6, StagedFacts DEF SameLoad
    <2>8. Shows(s) = {} /\ Moves(s) \subseteq ToSet(ok)
      <3>1. FrOf({}) = {} /\ ToSet(<< >>) = {}
        BY DEF FrOf, ToSet
      <3>2. s.out["deliver"] = << >> /\ s.out["forward"] = << >>
        BY <2>7 DEF NoQueue
      <3>3. Shows(s) = {}
        BY <2>7, <3>1, <3>2 DEF Shows
      <3> QED BY <2>4, <2>7, <3>3 DEF Moves
    <2>9. Clean(s) /\ Ordered(s, got', epoch)
      <3>1. s.out["deliver"] = << >> /\ s.out["forward"] = << >> /\ s.full = {}
        BY <2>7 DEF NoQueue
      <3>2. FrOf({}) = {} /\ ToSet(<< >>) = {} /\ SeqFrApart(<< >>) /\ InOrder(<< >>, got', epoch)
        BY DEF FrOf, ToSet, SeqFrApart, InOrder
      <3>3. Shaped(s)
        BY <3>1, <3>2 DEF Shaped
      <3>4. FramesApart(s)
        BY <2>8, <3>1, <3>2 DEF FramesApart
      <3>5. Ordered(s, got', epoch)
        BY <3>1, <3>2 DEF Ordered
      <3> QED BY <3>3, <3>4, <3>5 DEF Clean
    <2>10. Load(s) \subseteq ToSet(ok)
      BY <2>8 DEF Load
    <2> HIDE DEF NumbersOf
    <2>11. NumbersOf(Load(s)) \subseteq passed'
      BY <1>1, <2>10 DEF NumbersOf
    <2>12. ASSUME NEW S, NumbersOf(S) \subseteq passed PROVE Load(s) \cap S = {}
      BY <1>3, <2>10, <2>12 DEF NumbersOf
    <2>13. rx'[l] = s /\ \A m \in Links : m # l => rx'[m] = rx[m]
      BY <1>2, <2>3
    <2>14. ASSUME NEW m \in Links, rx'[m].e = epoch'
           PROVE  /\ NumbersOf(Load(rx'[m])) \subseteq passed'
                  /\ Clean(rx'[m]) /\ Ordered(rx'[m], got', epoch')
                  /\ Load(rx'[m]) \cap Settled' = {}
      <3>1. CASE m = l
        BY <1>1, <1>7, <1>8, <2>9, <2>11, <2>12, <2>13, <3>1
      <3>2. CASE m # l
        BY <1>1, <1>7, <1>8, <2>13, <2>14, <3>2
      <3> QED BY <3>1, <3>2
    <2>15. ASSUME NEW m \in Links, NEW k \in Links, m # k, rx'[m].e = epoch', rx'[k].e = epoch'
           PROVE  Load(rx'[m]) \cap Load(rx'[k]) = {}
      <3>1. ASSUME NEW n \in Links, rx[n].e = epoch PROVE Load(s) \cap Load(rx[n]) = {}
        BY <1>8, <2>12, <3>1
      <3> QED BY <1>1, <1>8, <2>13, <2>15, <3>1
    <2>16. NumbersOf(Settled') \subseteq passed'
      BY <1>1, <1>7, <1>8
    <2> QED BY <1>1, <1>9, <2>14, <2>15, <2>16 DEF Accounted
  <1> QED BY <1>1, <1>10, <1>11

\* A life begins with nothing in it.
LEMMA NewLife ==
  ASSUME Types, LifeInv, EpochsKnown, UNCHANGED <<cache, rx, got>>, epoch' \in Nat, epoch' > epoch,
         life \in {"none", "reset3"}
  PROVE  Accounted'
  <1>1. \A c \in Caches, w \in 1..Ways : cache[c][w] = None
    BY DEF LifeInv, EntriesAged, Aged, Uncleared, Closing, Closing2
  <1>2. cache \in [Caches -> CacheSet] /\ Caches = {"local", "relay"} /\ epoch \in Nat
    BY DEF Types, PeerTypes, Caches
  <1>3. Held(cache["local"]) = {} /\ Held(cache["relay"]) = {}
    BY <1>1, <1>2 DEF Held
  <1>4. Cached' = {}
    BY <1>3 DEF Cached
  <1>5. (\A l \in Links : rx[l].e # epoch') /\ (\A h \in got : h.e # epoch')
    BY <1>2 DEF EpochsKnown
  <1>6. GotNow' = {}
    BY <1>5 DEF GotNow
  <1>7. CachedNow' = {} /\ Settled' = {}
    BY <1>4, <1>6 DEF CachedNow, Settled
  <1>8. NumbersOf({}) = {}
    BY DEF NumbersOf
  <1> QED BY <1>4, <1>5, <1>6, <1>7, <1>8 DEF Accounted

\* Whatever the Discovery thread does with the Peer.
LEMMA PeerKeeps ==
  ASSUME Types, RefInv, LifeInv, Accounted, EpochsKnown,
         Register \/ (\E op \in {"reset", "unregister"} : Quiesce(op)) \/ ClearLocal \/ ClearPairs
         \/ EndReset \/ Tick \/ UNCHANGED vars
  PROVE  /\ Accounted' /\ UNCHANGED <<got, rx>>
         /\ epoch' \in Nat /\ (epoch' > epoch \/ epoch' = epoch)
  <1>0. epoch \in Nat /\ MaxEpoch \in Nat /\ life \in Lives
    BY FragmentsAssumption DEF Types, PeerTypes
  <1>1. UNCHANGED <<got, rx>> /\ epoch' \in Nat /\ (epoch' > epoch \/ epoch' = epoch)
    BY <1>0 DEF Register, Quiesce, ClearLocal, ClearPairs, Cleared, EndReset, Tick, vars, peer
  <1>2. CASE Register
    <2>1. epoch' > epoch /\ UNCHANGED <<cache, rx, got>> /\ life = "none"
      BY <1>0, <1>2 DEF Register
    <2> QED BY <1>1, <2>1, NewLife
  <1>3. CASE EndReset
    <2>1. CASE life = "reset3"
      <3>1. epoch' > epoch /\ UNCHANGED <<cache, rx, got>>
        BY <1>0, <1>3, <2>1 DEF EndReset
      <3> QED BY <1>1, <2>1, <3>1, NewLife
    <2>2. CASE life = "unregister3"
      <3>1. life' = "none"
        BY <1>3, <2>2 DEF EndReset
      <3> QED BY <1>1, <3>1 DEF Accounted
    <2> QED BY <1>3, <2>1, <2>2 DEF EndReset
  <1>4. CASE (\E op \in {"reset", "unregister"} : Quiesce(op)) \/ ClearLocal \/ ClearPairs
    <2>1. life' # "idle"
      BY <1>4 DEF Quiesce, ClearLocal, ClearPairs
    <2> QED BY <1>1, <2>1 DEF Accounted
  <1>5. CASE Tick \/ UNCHANGED vars
    <2>1. UNCHANGED <<epoch, life, passed, cache, rx, got>>
      BY <1>5 DEF Tick, peer, vars
    <2>2. CachedNow' = CachedNow /\ GotNow' = GotNow /\ Cached' = Cached
      BY <2>1 DEF CachedNow, GotNow, Cached
    <2>3. Settled' = Settled
      BY <2>2 DEF Settled
    <2> QED BY <1>1, <2>1, <2>2, <2>3 DEF Accounted
  <1> QED BY <1>2, <1>3, <1>4, <1>5

\* A call stays in the life it began in until it returns.
LEMMA CallLife ==
  ASSUME Types, RefInv, NEW l \in Links, RxStep(l)
  PROVE  rx'[l].e \in {rx[l].e, 0} /\ (\A m \in Links : m # l => rx'[m] = rx[m]) /\ epoch' = epoch
  <1>1. rx[l] \in RxRec /\ rx \in [Links -> RxRec]
    BY DEF Types
  <1>2. "pc" \in DOMAIN rx[l] /\ "e" \in DOMAIN rx[l]
    BY <1>1 DEF RxRec
  <1> DEFINE Goal == rx'[l].e \in {rx[l].e, 0} /\ \A m \in Links : m # l => rx'[m] = rx[m]
  <1>e. epoch' = epoch
    BY Zenon DEF RxStep, ReadClock, EnterReassembly, CheckFragment, StoreFragment, DispatchStale,
           DispatchFrame, DispatchPair, PairClock, EnterPairs, StorePair, FlushItem, Delivered,
           Forwarded, Return, peer
  <1> SUFFICES Goal
    BY <1>e
  <1>3. ASSUME NEW t, DOMAIN t = DOMAIN rx[l], t.e = rx[l].e, rx' = [rx EXCEPT ![l] = Staged(t)]
        PROVE  Goal
    BY <1>1, <1>2, <1>3, StagedPc
  <1>4. ASSUME NEW pc, rx' = [rx EXCEPT ![l].pc = pc] PROVE Goal
    BY <1>1, <1>4 DEF RxRec
  <1>5. ASSUME NEW full, rx' = [rx EXCEPT ![l] = Reassembled(rx[l], full)] PROVE Goal
    BY <1>1, <1>5, ReassembledLife
  <1>6. CASE ReadClock(l) \/ PairClock(l)
    BY <1>1, <1>6 DEF ReadClock, PairClock, RxRec
  <1>7. CASE DispatchPair(l) \/ EnterReassembly(l)
    BY <1>4, <1>7 DEF DispatchPair, EnterReassembly
  <1>8. CASE CheckFragment(l)
    <2>1. \/ rx' = [rx EXCEPT ![l].pc = "store"]
          \/ rx' = [rx EXCEPT ![l] = Reassembled(rx[l], rx[l].full)]
      BY <1>8 DEF CheckFragment
    <2> QED BY <1>4, <1>5, <2>1
  <1>9. CASE StoreFragment(l)
    <2>1. \E full : rx' = [rx EXCEPT ![l] = Reassembled(rx[l], full)]
      BY <1>9, Zenon DEF StoreFragment
    <2> QED BY <1>5, <2>1, Zenon
  <1>10. CASE DispatchStale(l)
    <2>1. PICK t : t = [rx[l] EXCEPT !.line = Tail(@), !.full = {w \in @ : w.f # Head(rx[l].line)}]
      OBVIOUS
    <2>2. rx' = [rx EXCEPT ![l] = Staged(t)]
      BY <1>10, <2>1 DEF DispatchStale
    <2>3. DOMAIN t = DOMAIN rx[l] /\ t.e = rx[l].e
      BY <1>1, <2>1 DEF RxRec
    <2> QED BY <1>3, <2>2, <2>3
  <1>11. CASE DispatchFrame(l)
    <2> DEFINE f == Head(rx[l].line)
               q == IF f.p.local THEN "deliver" ELSE "forward"
               item == IF Fragment(f) THEN CHOOSE w \in rx[l].full : w.f = f
                       ELSE [f |-> f, bufs |-> {Buf(l, f)}, own |-> {}]
    <2>1. PICK t : t = [rx[l] EXCEPT !.line = Tail(@), !.out[q] = Append(@, item),
                                     !.full = {w \in @ : w.f # f}]
      BY ZenonT(40)
    <2>2. rx' = [rx EXCEPT ![l] = Staged(t)]
      BY <1>11, <2>1 DEF DispatchFrame
    <2> HIDE DEF f, q, item
    <2>3. DOMAIN t = DOMAIN rx[l] /\ t.e = rx[l].e
      BY <1>1, <2>1 DEF RxRec
    <2> QED BY <1>3, <2>2, <2>3
  <1>12. CASE EnterPairs(l)
    <2>1. CASE StillCurrent(rx[l].e)
      BY <1>4, <1>12, <2>1 DEF EnterPairs
    <2>2. CASE ~StillCurrent(rx[l].e)
      <3>1. PICK t : t = [rx[l] EXCEPT !.line = Tail(@)]
        OBVIOUS
      <3>2. rx' = [rx EXCEPT ![l] = Staged(t)]
        BY <1>12, <2>2, <3>1 DEF EnterPairs
      <3>3. DOMAIN t = DOMAIN rx[l] /\ t.e = rx[l].e
        BY <1>1, <3>1 DEF RxRec
      <3> QED BY <1>3, <3>2, <3>3
    <2> QED BY <2>1, <2>2
  <1>13. CASE StorePair(l)
    <2>1. PICK fwd : rx' = [rx EXCEPT ![l] = Staged([rx[l] EXCEPT !.line = Tail(@), !.out["forward"] = fwd])]
      BY <1>13, Zenon DEF StorePair
    <2>2. PICK t : t = [rx[l] EXCEPT !.line = Tail(@), !.out["forward"] = fwd]
      OBVIOUS
    <2>3. DOMAIN t = DOMAIN rx[l] /\ t.e = rx[l].e
      BY <1>1, <2>2 DEF RxRec
    <2> QED BY <1>3, <2>1, <2>2, <2>3, Zenon
  <1>14. CASE FlushItem(l)
    <2> DEFINE q == rx[l].pc
               own == Head(rx[l].out[q]).own
    <2>1. q \in {"deliver", "forward"}
      BY <1>14 DEF FlushItem
    <2>2. \/ rx' = [rx EXCEPT ![l].out[q] = Tail(@), ![l].kept = @ \cup own]
          \/ rx' = [rx EXCEPT ![l].out[q] = Tail(@)]
      BY <1>14 DEF FlushItem
    <2> HIDE DEF q, own
    <2> QED BY <1>1, <2>2 DEF RxRec
  <1>15. CASE Delivered(l) \/ Forwarded(l)
    <2>1. PICK t : t = [rx[l] EXCEPT !.kept = {}]
      OBVIOUS
    <2>2. rx' = [rx EXCEPT ![l] = Staged(t)]
      BY <1>15, <2>1 DEF Delivered, Forwarded
    <2>3. DOMAIN t = DOMAIN rx[l] /\ t.e = rx[l].e
      BY <1>1, <2>1 DEF RxRec
    <2> QED BY <1>3, <2>2, <2>3
  <1>16. CASE Return(l)
    BY <1>1, <1>16 DEF Return, IdleRx
  <1>17. Goal
    BY <1>6, <1>7, <1>8, <1>9, <1>10, <1>11, <1>12, <1>13, <1>14, <1>15, <1>16 DEF RxStep
  <1> QED BY <1>17

-----------------------------------------------------------------------------
\* The receiver implements the channel

\* A hand-over is one of the channel: a whole packet for this node, or the next fragment
\* of one to relay, for the first time in this life.
LEMMA HandedOn ==
  ASSUME Types, RefInv, LifeInv, Accounted, EpochsKnown, NEW l \in Links, FlushItem(l),
         MayHand(rx[l].e)
  PROVE  Accounted' /\ (\A h \in got' : h.e \in 0..epoch) /\ Channel!Next
  <1>1. Accounted' /\ life = "idle" /\ rx[l].e = epoch
    BY FlushKeeps
  <1>2. PICK w : LET h == [frames |-> Fr(w), e |-> epoch, copy |-> 0]
                 IN /\ got' = got \cup {h} /\ h \notin got
                    /\ \/ WholeItem(w)
                       \/ RelayItem(w) /\ (w.f.i = 2 => FirstOf(w.f.p, epoch) \in got)
    BY FlushKeeps
  <1>3. epoch' = epoch /\ epoch \in Nat /\ epoch % 2 = 0 /\ epoch > 0
    <2>1. epoch' = epoch
      BY DEF FlushItem, peer
    <2>2. epoch \in Nat /\ epoch % 2 = 0 /\ epoch # 0
      BY <1>1 DEF Types, PeerTypes, LifeInv, Parity
    <2> QED BY <2>1, <2>2
  <1>4. Channel!Alive
    BY <1>3 DEF Channel!Alive
  <1>5. \A F : Channel!Handed(F) = [frames |-> F, e |-> epoch, copy |-> 0]
    BY DEF Channel!Handed
  <1>6. Channel!Hand(Fr(w))
    BY <1>2, <1>3, <1>5 DEF Channel!Hand
  <1>7. \A h \in got' : h.e \in 0..epoch
    BY <1>2, <1>3 DEF EpochsKnown
  <1>8. Channel!Next
    <2>1. CASE WholeItem(w)
      <3>1. PICK p \in Packets : p.local /\ Fr(w) = WholeOf(p)
        BY <2>1 DEF WholeItem
      <3>2. Channel!Whole(p) = WholeOf(p)
        BY DEF Channel!Whole, WholeOf
      <3>3. Channel!Deliver(p)
        BY <1>4, <1>6, <3>1, <3>2 DEF Channel!Deliver
      <3> QED BY <3>1, <3>3 DEF Channel!Next
    <2>2. CASE RelayItem(w) /\ (w.f.i = 2 => FirstOf(w.f.p, epoch) \in got)
      <3>1. ~w.f.p.local /\ w.f \in Frames /\ Fr(w) = {w.f}
        BY <2>2 DEF RelayItem
      <3>2. PICK p \in Packets : \E i \in 1..p.parts : w.f = Frame(p, i)
        BY <3>1 DEF Frames
      <3>3. PICK i \in 1..p.parts : w.f = Frame(p, i)
        BY <3>2
      <3>4. w.f.p = p /\ w.f.i = i /\ p.parts \in {1, 2}
        BY <3>1, <3>3, FrameFacts DEF Frame
      <3>5. \A j \in 1..(i - 1) : j = 1 /\ i = 2
        BY <3>4
      <3>6. \A j \in 1..(i - 1) : Channel!Handed({Frame(p, j)}) \in got
        BY <1>5, <2>2, <3>4, <3>5 DEF FirstOf
      <3>7. Channel!Relay(p, i)
        BY <1>4, <1>6, <3>1, <3>3, <3>4, <3>6 DEF Channel!Relay
      <3> QED BY <3>2, <3>3, <3>7 DEF Channel!Next
    <2> QED BY <1>2, <2>1, <2>2
  <1> QED BY <1>1, <1>7, <1>8

\* Every step keeps the account of frames and is a step of the channel or none.
LEMMA ChannelStep ==
  ASSUME Inv, Counting(window, passed, lost), EpochsKnown, Accounted, [Next]_vars
  PROVE  EpochsKnown' /\ Accounted' /\ [Channel!Next]_(Channel!vars)
  <1>0. Types /\ RefInv /\ LifeInv /\ epoch \in Nat
    BY DEF Inv, Types, PeerTypes
  <1>1. CASE \E l \in Links, batch \in Batches : Receive(l, batch)
    <2>1. PICK l \in Links, batch \in Batches : Receive(l, batch)
      BY <1>1
    <2>2. Accounted' /\ UNCHANGED <<epoch, got>>
      BY <1>0, <2>1, ReceiveKeeps
    <2>3. \A m \in Links : rx'[m].e \in {rx[m].e, epoch}
      <3> DEFINE B == {Buf(l, f) : f \in ToSet(batch)}
                 ok == Accepted(window, batch).ok
                 todo == Selected(ok, LocalHalves)
      <3>1. rx \in [Links -> RxRec]
        BY <1>0 DEF Types
      <3>2. PICK t : t = [IdleRx EXCEPT !.e = epoch, !.base = B, !.line = ok, !.todo = todo]
        OBVIOUS
      <3>3. rx' = rx \/ rx' = [rx EXCEPT ![l] = Staged(t)]
        BY <2>1, <3>2 DEF Receive
      <3> HIDE DEF B, ok, todo
      <3>4. "pc" \in DOMAIN t /\ "e" \in DOMAIN t /\ t.e = epoch
        BY <3>2 DEF IdleRx
      <3>5. Staged(t).e = epoch
        BY <3>4, StagedPc
      <3> QED BY <3>1, <3>3, <3>5
    <2>4. EpochsKnown'
      BY <1>0, <2>2, <2>3 DEF EpochsKnown
    <2> QED BY <2>2, <2>4 DEF Channel!vars
  <1>2. ASSUME NEW l \in Links, RxStep(l)
        PROVE  EpochsKnown' /\ Accounted' /\ [Channel!Next]_(Channel!vars)
    <2>1. rx'[l].e \in {rx[l].e, 0} /\ (\A m \in Links : m # l => rx'[m] = rx[m]) /\ epoch' = epoch
      BY <1>0, <1>2, CallLife
    <2>2. \A m \in Links : rx'[m].e \in 0..epoch'
      BY <1>0, <2>1 DEF EpochsKnown
    <2>3. CASE FlushItem(l) /\ MayHand(rx[l].e)
      <3>1. Accounted' /\ (\A h \in got' : h.e \in 0..epoch) /\ Channel!Next
        BY <1>0, <2>3, HandedOn
      <3> QED BY <2>1, <2>2, <3>1 DEF EpochsKnown
    <2>4. CASE ~(FlushItem(l) /\ MayHand(rx[l].e))
      <3>1. Accounted' /\ UNCHANGED <<epoch, got>>
        <4>1. CASE StoreFragment(l) \/ StorePair(l)
          <5>1. Accounted'
            BY <1>0, <4>1, StoreKeeps, StorePairKeeps
          <5>2. UNCHANGED got
            BY <4>1, Zenon DEF StoreFragment, StorePair
          <5> QED BY <2>1, <5>1, <5>2
        <4>2. CASE DispatchFrame(l)
          <5>1. Accounted'
            BY <1>0, <4>2, DispatchKeeps
          <5>2. UNCHANGED got
            BY <4>2 DEF DispatchFrame
          <5> QED BY <2>1, <5>1, <5>2
        <4>3. CASE ~(StoreFragment(l) \/ StorePair(l) \/ DispatchFrame(l))
          BY <1>0, <1>2, <2>4, <4>3, QuietKeeps DEF RxStep
        <4> QED BY <4>1, <4>2, <4>3
      <3>2. EpochsKnown'
        BY <2>2, <3>1 DEF EpochsKnown
      <3> QED BY <3>1, <3>2 DEF Channel!vars
    <2> QED BY <2>3, <2>4
  <1>3. CASE \/ Register \/ (\E op \in {"reset", "unregister"} : Quiesce(op)) \/ ClearLocal
             \/ ClearPairs \/ EndReset \/ Tick \/ UNCHANGED vars
    <2>1. /\ Accounted' /\ UNCHANGED <<got, rx>>
          /\ epoch' \in Nat /\ (epoch' > epoch \/ epoch' = epoch)
      BY <1>0, <1>3, PeerKeeps
    <2>2. EpochsKnown'
      BY <1>0, <2>1 DEF EpochsKnown
    <2>3. [Channel!Next]_(Channel!vars)
      BY <2>1 DEF Channel!Next, Channel!Turn, Channel!vars
    <2> QED BY <2>1, <2>2, <2>3
  <1> QED BY <1>1, <1>2, <1>3 DEF Next

\* The receive path of the Peer, with any links, batches, cache ways, resets and
\* registrations, implements PacketChannel: a packet for this node is handed up whole and
\* at most once in a life, a relayed one fragment by fragment in order and each once, and
\* nothing is handed on for a life that is over.
THEOREM ReceiverImplementsChannel == Spec => ChannelSpec
  <1>1. Init => EpochsKnown /\ Accounted /\ Channel!Init
    <2> SUFFICES ASSUME Init PROVE EpochsKnown /\ Accounted /\ Channel!Init
      OBVIOUS
    <2>1. epoch = 0 /\ got = {} /\ life = "none" /\ \A l \in Links : rx[l].e = 0
      BY DEF Init, IdleRx
    <2>2. EpochsKnown
      BY <2>1 DEF EpochsKnown
    <2>3. Accounted
      BY <2>1 DEF Accounted
    <2> QED BY <2>1, <2>2, <2>3 DEF Channel!Init
  <1>2. /\ Inv /\ Counting(window, passed, lost) /\ EpochsKnown /\ Accounted /\ [Next]_vars
        => EpochsKnown' /\ Accounted' /\ [Channel!Next]_(Channel!vars)
    BY ChannelStep
  <1> QED BY <1>1, <1>2, FragmentsInvariant, CountingAlways, PTL DEF Spec, ChannelSpec, Channel!Spec
=============================================================================
