------------------------------ MODULE RxWindow ------------------------------
(***************************************************************************)
(* The receive window of transport_window.c: a sliding bitmap over the     *)
(* most recent sequence numbers that tells new frames from duplicates and  *)
(* counts the frames that left it without ever arriving.  Sequence numbers *)
(* are uint32_t in the code; SeqCount is 2^32 there.                         *)
(***************************************************************************)
EXTENDS Integers, FiniteSets, Sequences

CONSTANTS
  SeqCount,  \* how many sequence numbers there are
  WinBits    \* LINKG_TRANSPORT_RX_WINDOW_BITS

ASSUME WindowAssumption ==
  SeqCount \in Nat /\ SeqCount % 2 = 0 /\ WinBits \in 1..(SeqCount \div 2)

\* uint32_t subtraction, and (int32_t)(a - b) < 0
Dist(a, b) == (a - b) % SeqCount
Before(a, b) == Dist(a, b) >= SeqCount \div 2

\* The bitmap is the set of offsets from the highest sequence number received.
Windows == [init: BOOLEAN, high: 0..(SeqCount - 1), tracked: 0..WinBits,
            got: SUBSET (0..(WinBits - 1))]

EmptyWindow == [init |-> FALSE, high |-> 0, tracked |-> 0, got |-> {}]

\* The elements of s that are in S, in their order.
Selected(s, S) ==
  LET sel[n \in 0..Len(s)] ==
        IF n = 0 THEN << >>
        ELSE IF s[n] \in S THEN Append(sel[n - 1], s[n]) ELSE sel[n - 1]
  IN sel[Len(s)]

\* _linkg_transport_window_shift
Shifted(got, advance) == {o + advance : o \in {x \in got : x + advance < WinBits}}

\* Mutant of ConfirmedLost: frames that never entered the window do not count.
ConfirmedLostSeen(w, advance) ==
  Cardinality({o \in 0..(w.tracked - 1) : o + advance >= WinBits} \ w.got)

\* _linkg_transport_window_confirm_lost: what leaves the window unreceived.
ConfirmedLost(w, advance) ==
  IF w.tracked = 0 THEN 0
  ELSE Cardinality({o \in 0..(w.tracked - 1) : o + advance >= WinBits} \ w.got)
       + (IF advance >= WinBits THEN advance - WinBits ELSE 0)

\* How many sequence numbers, the highest first, the window has an opinion on.
Tracked(w, advance) ==
  IF w.tracked + advance > WinBits THEN WinBits ELSE w.tracked + advance

TooOld(w, behind) == behind >= w.tracked

\* _linkg_transport_rx_prepare_window_start_locked: the first number s of a window
\* makes room for those of S, less than size before it, that came with it.
Prepared(w, s, S, size) ==
  LET near == {r \in S : Before(r, s) /\ Dist(s, r) < size}
      first == CHOOSE r \in near : \A x \in near : ~Before(x, r)
  IN IF w.init \/ near = {} THEN w
     ELSE [EmptyWindow EXCEPT !.init = TRUE, !.high = (first - 1) % SeqCount]

\* linkg_transport_window_accept_ex: the window afterwards, whether the frame is
\* new, and how many frames are now known to be lost.
WindowAccept(w, s) ==
  LET advance == Dist(s, w.high)
      behind == Dist(w.high, s)
  IN IF ~w.init
     THEN [w |-> [init |-> TRUE, high |-> s, tracked |-> 1, got |-> {0}],
           ok |-> TRUE, lost |-> 0]
     ELSE IF advance # 0 /\ ~Before(s, w.high)
     THEN [w |-> [init |-> TRUE, high |-> s,
                  tracked |-> Tracked(w, advance),
                  got |-> Shifted(w.got, advance) \cup {0}],
           ok |-> TRUE, lost |-> ConfirmedLost(w, advance)]
     ELSE IF TooOld(w, behind) \/ behind \in w.got
     THEN [w |-> w, ok |-> FALSE, lost |-> 0]
     ELSE [w |-> [w EXCEPT !.got = @ \cup {behind}], ok |-> TRUE, lost |-> 0]
=============================================================================
