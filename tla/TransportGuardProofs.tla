------------------------ MODULE TransportGuardProofs -------------------------
(***************************************************************************)
(* What the guard guarantees for any bricks and transports, any limits,    *)
(* and any order and delay of the results.                                 *)
(*                                                                         *)
(* The rate is the hard one: forget() empties the guard's window but not   *)
(* the brick's.  The proof cuts the commands that were let through at the  *)
(* forget() calls among them (Epochs): each piece is within the limit, and *)
(* the last piece is what the guard still counts.  Time drops a prefix of  *)
(* the commands and, with them, the cuts that only separated those.        *)
(***************************************************************************)
EXTENDS TransportGuard, FiniteSetTheorems, SequenceTheorems, WellFoundedInduction, TLAPS

-----------------------------------------------------------------------------
(* Types.                                                                   *)

LEMMA AbsentIsNoState == Absent \notin GuardState
BY DEF Absent, GuardState

LEMMA FreshType == Fresh \in GuardState /\ NoUse \in Use
<1>1. <<>> \in Seq(Ages)
  OBVIOUS
<1> QED BY <1>1, GuardAssumption DEF Fresh, State, GuardState, NoUse, Use

-----------------------------------------------------------------------------
(* Sequences of ages.  They are pushed as time goes on, so the oldest come   *)
(* first, and what is no longer within the window is a prefix.               *)

InOrder(s) == s \in Seq(Ages) /\ \A i, j \in 1..Len(s) : i <= j => s[i] >= s[j]

\* The first d elements, and no others, are as old as the window.
SplitAt(s, d) == d <= Len(s) /\ \A i \in 1..Len(s) : i <= d <=> s[i] >= Window

Drop(s, d) == [i \in 1..(Len(s) - d) |-> s[d + i]]

LEMMA LeastNatural ==
    ASSUME NEW S \in SUBSET Nat, S # {}
    PROVE  \E i \in S : \A j \in S : i <= j
<1> DEFINE R == OpToRel(<, Nat)
<1>1. IsWellFoundedOn(R, Nat)
  BY NatLessThanWellFounded
<1>2. \A i, j \in Nat : i < j => <<i, j>> \in R
  BY DEF OpToRel
<1> HIDE DEF R
<1>3. PICK i \in S : \A j \in S : <<j, i>> \notin R
  BY <1>1, WFMin
<1>4. \A j \in S : ~(j < i)
  BY <1>2, <1>3
<1> QED BY <1>4

LEMMA OrderSplits ==
    ASSUME NEW s, InOrder(s)
    PROVE  \E d \in Nat : SplitAt(s, d)
<1> DEFINE young == {d \in Nat : d <= Len(s) /\ \A i \in 1..Len(s) : i > d => s[i] < Window}
<1>0. /\ s \in Seq(Ages) /\ Len(s) \in Nat /\ Window \in Nat
      /\ \A i \in 1..Len(s) : s[i] \in Nat
      /\ \A i, j \in 1..Len(s) : i <= j => s[i] >= s[j]
  BY GuardAssumption DEF InOrder, Ages
<1>1. young \in SUBSET Nat /\ Len(s) \in young
  BY <1>0
<1>2. PICK d \in young : \A e \in young : d <= e
  <2> HIDE DEF young
  <2> QED BY <1>1, LeastNatural
<1>3. ASSUME NEW i \in 1..Len(s), i <= d PROVE s[i] >= Window
  <2> SUFFICES ASSUME s[i] < Window PROVE FALSE
    BY <1>0
  <2>1. \A j \in 1..Len(s) : j > i - 1 => s[j] < Window
    <3> SUFFICES ASSUME NEW j \in 1..Len(s), j > i - 1 PROVE s[j] < Window
      OBVIOUS
    <3>1. i <= j
      BY <1>0
    <3>2. s[i] >= s[j] /\ s[i] \in Nat /\ s[j] \in Nat
      BY <1>0, <3>1
    <3> QED BY <1>0, <3>2
  <2>2. i - 1 \in Nat /\ i - 1 <= Len(s) /\ i - 1 < d
    BY <1>0, <1>3, <1>2
  <2>3. i - 1 \in young
    BY <2>1, <2>2
  <2> QED BY <1>2, <2>2, <2>3
<1>4. d \in Nat /\ d <= Len(s) /\ \A i \in 1..Len(s) : i > d => s[i] < Window
  BY <1>2
<1>5. SplitAt(s, d)
  <2> SUFFICES ASSUME NEW i \in 1..Len(s) PROVE i <= d <=> s[i] >= Window
    BY <1>4 DEF SplitAt
  <2> QED BY <1>0, <1>3, <1>4
<1> QED BY <1>4, <1>5

Dropped(s, d, r) ==
    /\ InOrder(r)
    /\ Len(r) = Len(s) - d
    /\ \A i \in 1..(Len(s) - d) : r[i] = s[d + i]

LEMMA DropFacts ==
    ASSUME NEW s, InOrder(s), NEW d \in Nat, d <= Len(s)
    PROVE  Dropped(s, d, Drop(s, d))
<1>0. /\ s \in Seq(Ages) /\ Len(s) \in Nat
      /\ \A i, j \in 1..Len(s) : i <= j => s[i] >= s[j]
  BY DEF InOrder
<1>1. Len(s) - d \in Nat /\ \A i \in 1..(Len(s) - d) : d + i \in 1..Len(s)
  BY <1>0
<1>2. \A i \in 1..(Len(s) - d) : s[d + i] \in Ages
  BY <1>0, <1>1
<1>3. Drop(s, d) \in Seq(Ages) /\ Len(Drop(s, d)) = Len(s) - d
  BY <1>1, <1>2 DEF Drop
<1>4. \A i \in 1..(Len(s) - d) : Drop(s, d)[i] = s[d + i]
  BY DEF Drop
<1>5. \A i, j \in 1..(Len(s) - d) : i <= j => s[d + i] >= s[d + j]
  BY <1>0, <1>1
<1> QED BY <1>3, <1>4, <1>5 DEF InOrder, Dropped

\* The filter of checkRateLimit() drops a prefix.
LEMMA WithinIsDrop ==
    ASSUME NEW s, InOrder(s), NEW d \in Nat, SplitAt(s, d)
    PROVE  Within(s, Window) = Drop(s, d)
<1> DEFINE kept == {i \in DOMAIN s : s[i] < Window}
<1>0. /\ DOMAIN s = 1..Len(s) /\ Len(s) \in Nat /\ d <= Len(s) /\ Window \in Nat
      /\ \A i \in 1..Len(s) : s[i] \in Nat /\ (i <= d <=> s[i] >= Window)
  BY GuardAssumption DEF InOrder, Ages, SplitAt
<1>1. kept = (d + 1)..Len(s)
  BY <1>0
<1>2. Cardinality(kept) = Len(s) - d
  <2>1. Cardinality((d + 1)..Len(s)) =
           IF d + 1 > Len(s) THEN 0 ELSE Len(s) - (d + 1) + 1
    <3>1. d + 1 \in Int /\ Len(s) \in Int
      BY <1>0
    <3> QED BY ONLY <3>1, FS_Interval
  <2> HIDE DEF kept
  <2> QED BY <1>0, <1>1, <2>1
<1>3. ASSUME NEW i \in (d + 1)..Len(s)
      PROVE  Cardinality({h \in kept : h < i}) = i - (d + 1)
  <2>1. {h \in kept : h < i} = (d + 1)..(i - 1)
    BY <1>0, <1>1
  <2>2. Cardinality((d + 1)..(i - 1)) = IF d + 1 > i - 1 THEN 0 ELSE (i - 1) - (d + 1) + 1
    <3>1. d + 1 \in Int /\ i - 1 \in Int
      BY <1>0
    <3> QED BY ONLY <3>1, FS_Interval
  <2>3. (IF d + 1 > i - 1 THEN 0 ELSE (i - 1) - (d + 1) + 1) = i - (d + 1)
    BY <1>0
  <2> HIDE DEF kept
  <2> QED BY ONLY <2>1, <2>2, <2>3
<1>4. ASSUME NEW n \in 1..(Len(s) - d)
      PROVE  (CHOOSE i \in kept : Cardinality({h \in kept : h < i}) = n - 1) = d + n
  <2> DEFINE below(i) == Cardinality({h \in kept : h < i})
  <2>1. \A i \in (d + 1)..Len(s) : below(i) = i - (d + 1)
    BY <1>3
  <2> HIDE DEF below, kept
  <2>2. d + n \in (d + 1)..Len(s) /\ below(d + n) = n - 1
    BY <1>0, <2>1
  <2>3. \A i \in (d + 1)..Len(s) : below(i) = n - 1 => i = d + n
    BY <1>0, <2>1
  <2>4. (CHOOSE i \in kept : below(i) = n - 1) = d + n
    BY <1>1, <2>2, <2>3
  <2> QED BY <2>4 DEF below
<1>5. Within(s, Window) =
         [n \in 1..Cardinality(kept) |->
             s[CHOOSE i \in kept : Cardinality({h \in kept : h < i}) = n - 1]]
  BY DEF Within
<1> HIDE DEF kept
<1> QED BY <1>2, <1>4, <1>5 DEF Drop

\* A tick: every age grows, up to the window.
Grown(s, a) ==
    /\ InOrder(a)
    /\ Len(a) = Len(s)
    /\ \A i \in 1..Len(s) : a[i] = Older(Window, s[i])

LEMMA AgedFacts ==
    ASSUME NEW s, InOrder(s)
    PROVE  Grown(s, Aged(s))
<1>0. /\ DOMAIN s = 1..Len(s) /\ Len(s) \in Nat /\ Window \in Nat
      /\ \A i \in 1..Len(s) : s[i] \in 0..Window
      /\ \A i, j \in 1..Len(s) : i <= j => s[i] >= s[j]
  BY GuardAssumption DEF InOrder, Ages
<1>1. Aged(s) = [i \in 1..Len(s) |-> Older(Window, s[i])]
  BY <1>0 DEF Aged
<1>2. \A i \in 1..Len(s) : Older(Window, s[i]) \in Ages
  BY <1>0 DEF Older, Ages
<1>3. \A i, j \in 1..Len(s) : i <= j => Older(Window, s[i]) >= Older(Window, s[j])
  BY <1>0 DEF Older
<1>4. Aged(s) \in Seq(Ages) /\ Len(Aged(s)) = Len(s)
  BY <1>0, <1>1, <1>2
<1> QED BY <1>1, <1>3, <1>4 DEF InOrder, Grown

\* A command, or a forget(), of this very moment.
Pushed(s, a) ==
    /\ InOrder(a)
    /\ Len(a) = Len(s) + 1
    /\ \A i \in 1..Len(s) : a[i] = s[i]
    /\ a[Len(s) + 1] = 0

LEMMA PushFacts ==
    ASSUME NEW s, InOrder(s)
    PROVE  Pushed(s, Append(s, 0))
<1>0. /\ s \in Seq(Ages) /\ Len(s) \in Nat /\ 0 \in Ages
      /\ \A i \in 1..Len(s) : s[i] \in Nat
      /\ \A i, j \in 1..Len(s) : i <= j => s[i] >= s[j]
  BY GuardAssumption DEF InOrder, Ages
<1>1. /\ Append(s, 0) \in Seq(Ages) /\ Len(Append(s, 0)) = Len(s) + 1
      /\ \A i \in 1..Len(s) : Append(s, 0)[i] = s[i]
      /\ Append(s, 0)[Len(s) + 1] = 0
  BY <1>0
<1>2. \A i, j \in 1..(Len(s) + 1) : i <= j => Append(s, 0)[i] >= Append(s, 0)[j]
  <2> SUFFICES ASSUME NEW i \in 1..(Len(s) + 1), NEW j \in 1..(Len(s) + 1), i <= j
               PROVE  Append(s, 0)[i] >= Append(s, 0)[j]
    OBVIOUS
  <2>1. CASE j = Len(s) + 1
    <3>1. Append(s, 0)[i] \in Nat
      BY <1>0, <1>1
    <3> QED BY <1>1, <2>1, <3>1
  <2>2. CASE j # Len(s) + 1
    BY <1>0, <1>1, <2>2
  <2> QED BY <2>1, <2>2
<1> QED BY <1>1, <1>2 DEF InOrder, Pushed

LEMMA DropNone ==
    ASSUME NEW s \in Seq(Ages)
    PROVE  Drop(s, 0) = s
<1>1. s = [i \in 1..Len(s) |-> s[i]] /\ Len(s) \in Nat
  OBVIOUS
<1> QED BY <1>1 DEF Drop

\* Nothing of s has left the window.
Fully(s) == InOrder(s) /\ \A i \in 1..Len(s) : s[i] < Window

LEMMA FullyRecent ==
    ASSUME NEW s, Fully(s)
    PROVE  Recent(s) = s
<1>1. InOrder(s) /\ s \in Seq(Ages) /\ Len(s) \in Nat /\ Window \in Nat
      /\ \A i \in 1..Len(s) : s[i] \in Nat /\ s[i] < Window
  BY GuardAssumption DEF Fully, InOrder, Ages
<1>2. SplitAt(s, 0)
  BY <1>1 DEF SplitAt
<1>3. Within(s, Window) = Drop(s, 0)
  BY <1>1, <1>2, WithinIsDrop
<1> QED BY <1>1, <1>3, DropNone DEF Recent

\* What was found to be recent is so at once afterwards.
LEMMA RecentIsFull ==
    ASSUME NEW s, InOrder(s)
    PROVE  Fully(Recent(s)) /\ Len(Recent(s)) <= Len(s)
<1>1. PICK d \in Nat : SplitAt(s, d)
  BY OrderSplits
<1>2. /\ d \in Nat /\ d <= Len(s) /\ Len(s) \in Nat /\ Window \in Nat
      /\ \A i \in 1..Len(s) : s[i] \in Nat /\ (i <= d <=> s[i] >= Window)
  BY <1>1, GuardAssumption DEF SplitAt, InOrder, Ages
<1>3. PICK r : r = Drop(s, d)
  OBVIOUS
<1>4. Recent(s) = r
  BY <1>1, <1>3, WithinIsDrop DEF Recent
<1>5. Dropped(s, d, r)
  BY <1>2, <1>3, DropFacts
<1>6. InOrder(r) /\ Len(r) = Len(s) - d /\ \A i \in 1..(Len(s) - d) : r[i] = s[d + i]
  BY <1>5 DEF Dropped
<1>7. \A i \in 1..(Len(s) - d) : d + i \in 1..Len(s) /\ ~(d + i <= d)
  BY <1>2
<1>8. \A i \in 1..(Len(s) - d) : r[i] < Window
  <2> SUFFICES ASSUME NEW i \in 1..(Len(s) - d) PROVE r[i] < Window
    OBVIOUS
  <2>1. r[i] = s[d + i] /\ d + i \in 1..Len(s) /\ ~(d + i <= d)
    BY <1>6, <1>7
  <2>2. s[d + i] \in Nat /\ ~(s[d + i] >= Window)
    BY <1>2, <2>1
  <2> QED BY <1>2, <2>1, <2>2
<1> QED BY <1>2, <1>4, <1>6, <1>8 DEF Fully

LEMMA PushIsFull ==
    ASSUME NEW s, Fully(s)
    PROVE  Fully(Append(s, 0))
<1>1. PICK a : a = Append(s, 0)
  OBVIOUS
<1>2. Pushed(s, a)
  BY <1>1, PushFacts DEF Fully
<1>3. /\ InOrder(a) /\ Len(a) = Len(s) + 1 /\ Len(s) \in Nat /\ Window \in Nat \ {0}
      /\ \A i \in 1..Len(s) : a[i] = s[i] /\ s[i] < Window
      /\ a[Len(s) + 1] = 0
  BY <1>2, GuardAssumption DEF Pushed, Fully, InOrder
<1>4. \A i \in 1..Len(a) : a[i] < Window
  BY <1>3
<1> QED BY <1>1, <1>3, <1>4 DEF Fully

-----------------------------------------------------------------------------
(* The commands let through, cut at the forget() calls.                      *)

\* cut[j] commands of s lie before the j-th forget() of f.  No piece between
\* two cuts is over the limit, commands are not younger than the forget() that
\* follows them, and the last piece is r.
CutType(cut, n, m) == cut \in [0..m -> 0..n] /\ cut[0] = 0
CutSizes(cut, m) ==
    \A i, j \in 0..m : i <= j =>
        cut[i] <= cut[j] /\ cut[j] <= cut[i] + MaxCommandsPerSec * (j - i)
CutAges(cut, s, f) == \A j \in 1..Len(f) : \A i \in 1..cut[j] : s[i] >= f[j]

Cuts(cut, s, f, r) ==
    /\ CutType(cut, Len(s), Len(f))
    /\ CutSizes(cut, Len(f))
    /\ CutAges(cut, s, f)
    /\ r = Drop(s, cut[Len(f)])

Epochs(s, f, r) == \E cut : Cuts(cut, s, f, r)

LEMMA LastPiece ==
    ASSUME NEW s, NEW f, NEW r, NEW cut, InOrder(s), InOrder(f), Cuts(cut, s, f, r)
    PROVE  /\ Len(s) \in Nat /\ Len(f) \in Nat /\ MaxCommandsPerSec \in Nat
           /\ cut[Len(f)] \in Nat /\ cut[Len(f)] <= Len(s)
           /\ Dropped(s, cut[Len(f)], r)
<1>1. Len(s) \in Nat /\ Len(f) \in Nat /\ MaxCommandsPerSec \in Nat
  BY GuardAssumption DEF InOrder
<1>2. cut[Len(f)] \in Nat /\ cut[Len(f)] <= Len(s)
  BY <1>1 DEF Cuts, CutType
<1>3. r = Drop(s, cut[Len(f)])
  BY DEF Cuts
<1>4. Dropped(s, cut[Len(f)], Drop(s, cut[Len(f)]))
  BY <1>2, DropFacts
<1> QED BY ONLY <1>1, <1>2, <1>3, <1>4

LEMMA EpochsBound ==
    ASSUME NEW s, NEW f, NEW r, InOrder(s), InOrder(f), Epochs(s, f, r),
           Len(r) <= MaxCommandsPerSec
    PROVE  Len(s) <= MaxCommandsPerSec * (1 + Len(f))
<1>1. PICK cut : Cuts(cut, s, f, r)
  BY DEF Epochs
<1>2. /\ Len(s) \in Nat /\ Len(f) \in Nat /\ MaxCommandsPerSec \in Nat
      /\ cut[Len(f)] \in Nat /\ cut[Len(f)] <= Len(s)
      /\ Dropped(s, cut[Len(f)], r)
  BY <1>1, LastPiece
<1>3. cut[0] = 0 /\ cut[Len(f)] <= cut[0] + MaxCommandsPerSec * (Len(f) - 0)
  BY <1>1, <1>2 DEF Cuts, CutType, CutSizes
<1>4. Len(r) = Len(s) - cut[Len(f)]
  BY <1>2 DEF Dropped
<1>5. /\ MaxCommandsPerSec * (1 + Len(f)) = MaxCommandsPerSec + MaxCommandsPerSec * (Len(f) - 0)
      /\ MaxCommandsPerSec * (Len(f) - 0) \in Nat
  BY <1>2
<1> QED BY <1>2, <1>3, <1>4, <1>5

\* A command is let through.
LEMMA EpochsOfCommand ==
    ASSUME NEW s, NEW f, NEW r, InOrder(s), InOrder(f), Epochs(s, f, r)
    PROVE  Epochs(Append(s, 0), f, Append(r, 0))
<1>1. PICK cut : Cuts(cut, s, f, r)
  BY DEF Epochs
<1>2. PICK last, a, q : last = cut[Len(f)] /\ a = Append(s, 0) /\ q = Append(r, 0)
  OBVIOUS
<1>3. /\ Len(s) \in Nat /\ Len(f) \in Nat /\ last \in Nat /\ last <= Len(s)
      /\ Dropped(s, last, r)
  BY <1>1, <1>2, LastPiece
<1>4. Pushed(s, a)
  BY <1>2, PushFacts
<1>5. InOrder(r)
  BY <1>3 DEF Dropped
<1>6. Pushed(r, q)
  BY <1>2, <1>5, PushFacts
<1>7. InOrder(a) /\ Len(a) = Len(s) + 1 /\ \A i \in 1..Len(s) : a[i] = s[i]
  BY <1>4 DEF Pushed
<1>8. q = Drop(a, last)
  <2>1. PICK y : y = Drop(a, last)
    OBVIOUS
  <2>2. last <= Len(a)
    BY <1>3, <1>7
  <2>3. Dropped(a, last, y)
    BY <1>3, <1>7, <2>1, <2>2, DropFacts
  <2>4. InOrder(q) /\ InOrder(y) /\ Len(q) = Len(y) /\ Len(q) = Len(r) + 1
        /\ Len(r) = Len(s) - last /\ Len(r) \in Nat /\ Len(a) - last = Len(q)
    BY <1>3, <1>6, <1>7, <2>3 DEF Pushed, Dropped
  <2>5. \A i \in 1..Len(q) : q[i] = y[i]
    <3> SUFFICES ASSUME NEW i \in 1..Len(q) PROVE q[i] = y[i]
      OBVIOUS
    <3>1. y[i] = a[last + i]
      BY <2>3, <2>4 DEF Dropped
    <3>2. CASE i \in 1..Len(r)
      <4>1. q[i] = r[i] /\ r[i] = s[last + i]
        BY <1>3, <1>6, <2>4, <3>2 DEF Pushed, Dropped
      <4>2. last + i \in 1..Len(s)
        BY <1>3, <2>4, <3>2
      <4> QED BY <1>7, <3>1, <4>1, <4>2
    <3>3. CASE i = Len(r) + 1
      <4>1. q[i] = 0 /\ last + i = Len(s) + 1 /\ a[Len(s) + 1] = 0
        BY <1>3, <1>4, <1>6, <2>4, <3>3 DEF Pushed
      <4> QED BY <3>1, <4>1
    <3> QED BY <2>4, <3>2, <3>3
  <2> QED BY <2>1, <2>4, <2>5, SeqEqual DEF InOrder
<1>9. CutType(cut, Len(a), Len(f))
  BY <1>1, <1>3, <1>7 DEF Cuts, CutType
<1>10. CutAges(cut, a, f)
  <2> SUFFICES ASSUME NEW j \in 1..Len(f), NEW i \in 1..cut[j] PROVE a[i] >= f[j]
    BY DEF CutAges
  <2>1. s[i] >= f[j] /\ cut[j] \in 0..Len(s)
    BY <1>1, <1>3 DEF Cuts, CutAges, CutType
  <2> QED BY <1>3, <1>7, <2>1
<1>11. Cuts(cut, a, f, q)
  BY <1>1, <1>2, <1>8, <1>9, <1>10 DEF Cuts
<1> QED BY <1>2, <1>11 DEF Epochs

\* The brick is forgotten: a new piece starts.
LEMMA EpochsOfForget ==
    ASSUME NEW s, NEW f, NEW r, InOrder(s), InOrder(f), Epochs(s, f, r),
           Len(r) <= MaxCommandsPerSec
    PROVE  Epochs(s, Append(f, 0), <<>>)
<1>1. PICK cut : Cuts(cut, s, f, r)
  BY DEF Epochs
<1>2. PICK n, m, g : n = Len(s) /\ m = Len(f) /\ g = Append(f, 0)
  OBVIOUS
<1>3. /\ n \in Nat /\ m \in Nat /\ MaxCommandsPerSec \in Nat
      /\ cut[m] \in Nat /\ cut[m] <= n /\ n - cut[m] <= MaxCommandsPerSec
  BY <1>1, <1>2, LastPiece DEF Dropped
<1>4. InOrder(g) /\ Len(g) = m + 1 /\ (\A i \in 1..m : g[i] = f[i]) /\ g[m + 1] = 0
  BY <1>2, PushFacts DEF Pushed
<1>5. CutType(cut, n, m) /\ CutSizes(cut, m) /\ CutAges(cut, s, f)
  BY <1>1, <1>2 DEF Cuts
<1>6. PICK new : new = [j \in 0..(m + 1) |-> IF j = m + 1 THEN n ELSE cut[j]]
  OBVIOUS
<1>7. new[m + 1] = n /\ \A j \in 0..m : new[j] = cut[j]
  BY <1>3, <1>6
<1>8. CutType(new, n, m + 1)
  BY <1>3, <1>5, <1>6 DEF CutType
<1>9. CutSizes(new, m + 1)
  <2> SUFFICES ASSUME NEW i \in 0..(m + 1), NEW j \in 0..(m + 1), i <= j
               PROVE  new[i] <= new[j] /\ new[j] <= new[i] + MaxCommandsPerSec * (j - i)
    BY DEF CutSizes
  <2>1. CASE j \in 0..m
    <3>1. i \in 0..m
      BY <1>3, <2>1
    <3> QED BY <1>5, <1>7, <2>1, <3>1 DEF CutSizes
  <2>2. CASE j = m + 1 /\ i = m + 1
    <3>1. MaxCommandsPerSec * (j - i) = 0
      BY <1>3, <2>2
    <3> QED BY <1>3, <1>7, <2>2, <3>1
  <2>3. CASE j = m + 1 /\ i \in 0..m
    <3>1. /\ cut[i] <= cut[m] /\ i <= m
          /\ cut[m] <= cut[i] + MaxCommandsPerSec * (m - i)
      BY <1>3, <1>5, <2>3 DEF CutSizes
    <3>2. cut[i] \in Nat /\ cut[i] <= n
      BY <1>3, <1>5, <2>3 DEF CutType
    <3>3. m - i \in Nat /\ j - i = (m - i) + 1
      BY <1>3, <2>3, <3>1
    <3>4. /\ MaxCommandsPerSec * (j - i) = MaxCommandsPerSec * (m - i) + MaxCommandsPerSec
          /\ MaxCommandsPerSec * (m - i) \in Nat
      BY <1>3, <3>3
    <3>5. new[i] = cut[i] /\ new[j] = n
      BY <1>7, <2>3
    <3>6. PICK k, l : k = MaxCommandsPerSec * (m - i) /\ l = MaxCommandsPerSec * (j - i)
      OBVIOUS
    <3>7. cut[i] <= n /\ n <= cut[i] + l
      BY <1>3, <3>1, <3>2, <3>4, <3>6
    <3> QED BY ONLY <3>5, <3>6, <3>7
  <2> QED BY <1>3, <2>1, <2>2, <2>3
<1>10. CutAges(new, s, g)
  <2> SUFFICES ASSUME NEW j \in 1..(m + 1), NEW i \in 1..new[j] PROVE s[i] >= g[j]
    BY <1>4 DEF CutAges
  <2>1. CASE j = m + 1
    <3>1. i \in 1..n /\ g[j] = 0
      BY <1>4, <1>7, <2>1
    <3>2. s[i] \in Nat
      BY <1>2, <3>1, GuardAssumption DEF InOrder, Ages
    <3> QED BY <3>1, <3>2
  <2>2. CASE j # m + 1
    <3>1. j \in 1..m /\ j \in 0..m
      BY <1>3, <2>2
    <3>2. new[j] = cut[j] /\ g[j] = f[j]
      BY <1>4, <1>7, <3>1
    <3> QED BY <1>2, <1>5, <3>1, <3>2 DEF CutAges
  <2> QED BY <2>1, <2>2
<1>11. <<>> = Drop(s, new[m + 1])
  BY <1>2, <1>3, <1>7 DEF Drop
<1>12. Cuts(new, s, g, <<>>)
  BY <1>2, <1>4, <1>8, <1>9, <1>10, <1>11 DEF Cuts
<1> QED BY <1>2, <1>12 DEF Epochs

LEMMA GrownFacts ==
    ASSUME NEW s, NEW a, NEW n, Grown(s, a), InOrder(s), n = Len(s)
    PROVE  /\ \A i \in 1..n : s[i] \in Ages /\ a[i] = Older(Window, s[i])
           /\ Len(a) = n
BY DEF Grown, InOrder

\* A tick: what is as old as the window now is dropped on both sides, and the
\* cuts move by as much.
LEMMA OlderFacts ==
    ASSUME NEW x \in Ages, NEW y \in Ages
    PROVE  /\ Older(Window, x) \in Ages
           /\ x >= y => Older(Window, x) >= Older(Window, y)
           /\ x >= Window => Older(Window, x) >= Window
BY GuardAssumption DEF Older, Ages

LEMMA EpochsOfTick ==
    ASSUME NEW s, NEW f, NEW t, InOrder(s), InOrder(f), InOrder(t), Epochs(s, f, Recent(t))
    PROVE  /\ Epochs(Within(Aged(s), Window), Within(Aged(f), Window), Recent(Aged(t)))
           /\ Len(Recent(Aged(t))) <= Len(Recent(t))
<1>1. PICK cut : Cuts(cut, s, f, Recent(t))
  BY DEF Epochs
<1>2. PICK as, af, at : as = Aged(s) /\ af = Aged(f) /\ at = Aged(t)
  OBVIOUS
<1>3. Grown(s, as) /\ Grown(f, af) /\ Grown(t, at)
  BY <1>2, AgedFacts
<1>4. InOrder(as) /\ InOrder(af) /\ InOrder(at)
  BY <1>3 DEF Grown
<1>5. PICK d \in Nat : SplitAt(as, d)
  BY <1>4, OrderSplits
<1>6. PICK p \in Nat : SplitAt(af, p)
  BY <1>4, OrderSplits
<1>7. PICK d1 \in Nat : SplitAt(t, d1)
  BY OrderSplits
<1>8. PICK n, m, c, r : n = Len(s) /\ m = Len(f) /\ c = cut[m] /\ r = Recent(t)
  OBVIOUS
<1>9. /\ n \in Nat /\ m \in Nat /\ c \in Nat /\ c <= n
      /\ Dropped(s, c, r) /\ Dropped(t, d1, r)
      /\ d \in Nat /\ d <= n /\ p \in Nat /\ p <= m
      /\ Len(t) \in Nat /\ d1 \in Nat /\ d1 <= Len(t)
  <2>1. n \in Nat /\ m \in Nat /\ c \in Nat /\ c <= n /\ Dropped(s, c, r)
    BY <1>1, <1>8, LastPiece
  <2>2. d \in Nat /\ d <= n /\ p \in Nat /\ p <= m /\ d1 \in Nat /\ d1 <= Len(t)
    BY <1>3, <1>5, <1>6, <1>7, <1>8 DEF SplitAt, Grown
  <2>3. r = Drop(t, d1)
    BY <1>7, <1>8, WithinIsDrop DEF Recent
  <2>4. Dropped(t, d1, r)
    BY <2>2, <2>3, DropFacts
  <2> QED BY <2>1, <2>2, <2>4 DEF InOrder
<1>10. CutType(cut, n, m) /\ CutSizes(cut, m) /\ CutAges(cut, s, f)
  BY <1>1, <1>8 DEF Cuts
<1>11. /\ \A i \in 1..n : s[i] \in Ages /\ as[i] = Older(Window, s[i])
       /\ \A i \in 1..m : f[i] \in Ages /\ af[i] = Older(Window, f[i])
       /\ \A i \in 1..Len(t) : t[i] \in Ages /\ at[i] = Older(Window, t[i])
       /\ Len(as) = n /\ Len(af) = m /\ Len(at) = Len(t)
  <2>1. Len(as) = n /\ \A i \in 1..n : s[i] \in Ages /\ as[i] = Older(Window, s[i])
    BY <1>3, <1>8, GrownFacts
  <2>2. Len(af) = m /\ \A i \in 1..m : f[i] \in Ages /\ af[i] = Older(Window, f[i])
    BY <1>3, <1>8, GrownFacts
  <2>3. Len(at) = Len(t) /\ \A i \in 1..Len(t) : t[i] \in Ages /\ at[i] = Older(Window, t[i])
    BY <1>3, GrownFacts
  <2> QED BY ONLY <2>1, <2>2, <2>3
<1>12. cut[p] <= d
  <2>1. CASE p = 0
    BY <1>9, <1>10, <2>1 DEF CutType
  <2>2. CASE p # 0 /\ cut[p] = 0
    BY <1>9, <2>2
  <2>3. CASE p # 0 /\ cut[p] # 0
    <3>1. p \in 1..m /\ p \in 0..m /\ cut[p] \in 1..n
      BY <1>9, <1>10, <2>3 DEF CutType
    <3>2. cut[p] \in 1..cut[p]
      BY <3>1
    <3>3. s[cut[p]] >= f[p]
      BY <1>8, <1>10, <3>1, <3>2 DEF CutAges
    <3>4. as[cut[p]] >= af[p] /\ as[cut[p]] \in Ages /\ af[p] \in Ages
      BY <1>11, <3>1, <3>3, OlderFacts
    <3>5. af[p] >= Window
      BY <1>6, <1>11, <3>1, <1>9 DEF SplitAt
    <3>6. as[cut[p]] >= Window
      <4>1. PICK x, y : x = as[cut[p]] /\ y = af[p]
        OBVIOUS
      <4>2. x \in Ages /\ y \in Ages
        BY <3>4, <4>1
      <4>3. x \in Nat /\ y \in Nat /\ Window \in Nat
        BY ONLY <4>2, GuardAssumption DEF Ages
      <4>4. x >= y /\ y >= Window
        BY <3>4, <3>5, <4>1
      <4>5. x >= Window
        BY ONLY <4>3, <4>4
      <4> QED BY <4>1, <4>5
    <3> QED BY <1>5, <1>11, <3>1, <3>6 DEF SplitAt
  <2> QED BY <2>1, <2>2, <2>3
\* What was recent is dropped from it as from the commands.
<1>13. PICK e : e = IF d > c THEN d - c ELSE 0
  OBVIOUS
<1>14. e \in Nat /\ e <= n - c /\ Len(t) - d1 = n - c /\ d1 + e \in Nat /\ d1 + e <= Len(t)
  <2>1. Len(r) = n - c /\ Len(r) = Len(t) - d1
    BY <1>8, <1>9 DEF Dropped
  <2> QED BY ONLY <1>9, <1>13, <2>1
<1>15. SplitAt(at, d1 + e)
  <2> SUFFICES ASSUME NEW i \in 1..Len(t) PROVE i <= d1 + e <=> at[i] >= Window
    BY <1>11, <1>14 DEF SplitAt
  <2>1. CASE i <= d1
    <3>1. t[i] >= Window
      BY <1>7, <2>1 DEF SplitAt
    <3> QED BY <1>9, <1>11, <1>14, <2>1, <3>1, OlderFacts
  <2>2. CASE i > d1
    <3>1. PICK k : k = i - d1
      OBVIOUS
    <3>2. /\ k \in 1..(Len(t) - d1) /\ k \in 1..(n - c) /\ d1 + k = i
          /\ c + k \in 1..n
      BY <1>9, <1>14, <2>2, <3>1
    <3>3. r[k] = t[i] /\ r[k] = s[c + k]
      BY <1>8, <1>9, <3>2 DEF Dropped
    <3>4. at[i] = as[c + k]
      BY <1>11, <3>2, <3>3
    <3>5. c + k <= d <=> as[c + k] >= Window
      BY <1>5, <1>11, <3>2 DEF SplitAt
    <3>6. c + k <= d <=> i <= d1 + e
      BY <1>9, <1>13, <3>2
    <3> QED BY <3>4, <3>5, <3>6
  <2> QED BY <1>9, <2>1, <2>2
<1>16. PICK s2, f2, r2 : s2 = Drop(as, d) /\ f2 = Drop(af, p) /\ r2 = Drop(at, d1 + e)
  OBVIOUS
<1>17. s2 = Within(as, Window) /\ f2 = Within(af, Window) /\ r2 = Recent(at)
  BY <1>4, <1>5, <1>6, <1>14, <1>15, <1>16, WithinIsDrop DEF Recent
<1>18. Dropped(as, d, s2) /\ Dropped(af, p, f2) /\ Dropped(at, d1 + e, r2)
  BY <1>4, <1>9, <1>11, <1>14, <1>16, DropFacts
<1>19. Len(s2) = n - d /\ Len(f2) = m - p /\ Len(r2) = (n - c) - e /\ Len(r) = n - c
       /\ InOrder(s2) /\ InOrder(r2)
  BY <1>8, <1>9, <1>11, <1>14, <1>18 DEF Dropped
<1>20. PICK new : new = [j \in 0..(m - p) |-> IF cut[j + p] >= d THEN cut[j + p] - d ELSE 0]
  OBVIOUS
<1>21. \A j \in 0..(m - p) :
          /\ j + p \in 0..m /\ cut[j + p] \in 0..n
          /\ new[j] = IF cut[j + p] >= d THEN cut[j + p] - d ELSE 0
          /\ new[j] \in 0..(n - d)
  <2> SUFFICES ASSUME NEW j \in 0..(m - p)
               PROVE  /\ j + p \in 0..m /\ cut[j + p] \in 0..n
                      /\ new[j] = IF cut[j + p] >= d THEN cut[j + p] - d ELSE 0
                      /\ new[j] \in 0..(n - d)
    OBVIOUS
  <2>1. j + p \in 0..m
    BY <1>9
  <2>2. cut[j + p] \in 0..n
    BY <1>10, <2>1 DEF CutType
  <2>3. new[j] = IF cut[j + p] >= d THEN cut[j + p] - d ELSE 0
    BY <1>20
  <2> QED BY <1>9, <2>1, <2>2, <2>3
<1>22. CutType(new, n - d, m - p)
  <2>1. new \in [0..(m - p) -> 0..(n - d)]
    BY <1>20, <1>21
  <2>2. 0 \in 0..(m - p) /\ 0 + p = p
    BY <1>9
  <2>3. new[0] = 0
    BY <1>9, <1>12, <1>21, <2>2
  <2> QED BY <2>1, <2>3 DEF CutType
<1>23. CutSizes(new, m - p)
  <2> SUFFICES ASSUME NEW i \in 0..(m - p), NEW j \in 0..(m - p), i <= j
               PROVE  new[i] <= new[j] /\ new[j] <= new[i] + MaxCommandsPerSec * (j - i)
    BY DEF CutSizes
  <2>1. i + p <= j + p /\ (j + p) - (i + p) = j - i /\ j - i \in Nat
    BY <1>9
  <2>2. PICK k : k = MaxCommandsPerSec * (j - i)
    OBVIOUS
  <2>3. k \in Nat
    BY <2>1, <2>2, GuardAssumption
  <2>4. cut[i + p] <= cut[j + p] /\ cut[j + p] <= cut[i + p] + k
    BY <1>10, <1>21, <2>1, <2>2 DEF CutSizes
  <2>5. new[i] <= new[j] /\ new[j] <= new[i] + k
    <3>1. PICK x, y : x = cut[i + p] /\ y = cut[j + p]
      OBVIOUS
    <3>2. /\ x \in 0..n /\ y \in 0..n
          /\ new[i] = (IF x >= d THEN x - d ELSE 0) /\ new[j] = (IF y >= d THEN y - d ELSE 0)
      BY <1>21, <3>1
    <3>3. x <= y /\ y <= x + k /\ n \in Nat /\ d \in Nat
      BY <1>9, <2>4, <3>1
    <3> QED BY ONLY <2>3, <3>2, <3>3
  <2> QED BY <2>2, <2>5
<1>24. CutAges(new, s2, f2)
  <2> SUFFICES ASSUME NEW j \in 1..(m - p), NEW i \in 1..new[j] PROVE s2[i] >= f2[j]
    BY <1>19 DEF CutAges
  <2>1. j \in 0..(m - p) /\ j + p = p + j /\ p + j \in 1..m
    BY <1>9
  <2>2. cut[p + j] \in 0..n /\ new[j] = (IF cut[p + j] >= d THEN cut[p + j] - d ELSE 0)
        /\ new[j] \in 0..(n - d)
    BY <1>21, <2>1
  <2>3. d + i \in 1..cut[p + j] /\ d + i \in 1..n /\ i \in 1..(n - d)
    BY <1>9, <2>2
  <2>4. s[d + i] >= f[p + j]
    BY <1>8, <1>10, <2>1, <2>3 DEF CutAges
  <2>5. as[d + i] >= af[p + j]
    BY <1>11, <2>1, <2>3, <2>4, OlderFacts
  <2>6. s2[i] = as[d + i] /\ f2[j] = af[p + j]
    BY <1>11, <1>18, <2>3 DEF Dropped
  <2> QED BY <2>5, <2>6
<1>25. r2 = Drop(s2, new[m - p])
  <2>1. PICK c2, y : c2 = new[m - p] /\ y = Drop(s2, c2)
    OBVIOUS
  <2>2. m - p \in 0..(m - p) /\ (m - p) + p = m
    BY <1>9
  <2>3. c2 = (IF c >= d THEN c - d ELSE 0) /\ c2 \in Nat /\ c2 <= n - d /\ d + c2 = c + e
    <3>1. c2 = IF c >= d THEN c - d ELSE 0
      BY <1>8, <1>21, <2>1, <2>2
    <3> QED BY ONLY <1>9, <1>13, <3>1
  <2>4. Dropped(s2, c2, y)
    BY <1>19, <2>1, <2>3, DropFacts
  <2>5. InOrder(y) /\ Len(y) = Len(r2) /\ Len(r2) = (n - d) - c2 /\ Len(r2) \in Nat
    BY <1>9, <1>13, <1>14, <1>19, <2>3, <2>4 DEF Dropped
  <2>6. \A k \in 1..Len(r2) : r2[k] = y[k]
    <3> SUFFICES ASSUME NEW k \in 1..Len(r2) PROVE r2[k] = y[k]
      OBVIOUS
    <3>1. /\ e + k \in 1..(n - c) /\ k \in 1..(Len(t) - (d1 + e))
          /\ e + k \in 1..(Len(t) - d1) /\ (d1 + e) + k = d1 + (e + k)
          /\ c2 + k \in 1..(n - d) /\ d + (c2 + k) = c + (e + k)
          /\ d1 + (e + k) \in 1..Len(t) /\ c + (e + k) \in 1..n
      BY <1>9, <1>14, <1>19, <2>3, <2>5
    <3>2. r2[k] = at[d1 + (e + k)]
      BY <1>11, <1>18, <3>1 DEF Dropped
    <3>3. y[k] = s2[c2 + k] /\ s2[c2 + k] = as[c + (e + k)]
      BY <1>11, <1>18, <1>19, <2>4, <2>5, <3>1 DEF Dropped
    <3>4. t[d1 + (e + k)] = r[e + k] /\ r[e + k] = s[c + (e + k)]
      BY <1>8, <1>9, <3>1 DEF Dropped
    <3> QED BY <1>11, <3>1, <3>2, <3>3, <3>4
  <2>7. r2 = y
    BY <1>19, <2>5, <2>6, SeqEqual DEF InOrder
  <2> QED BY <2>1, <2>7
<1>26. Cuts(new, s2, f2, r2)
  BY <1>19, <1>22, <1>23, <1>24, <1>25 DEF Cuts
<1>27. Len(r2) <= Len(r)
  BY <1>9, <1>14, <1>19
<1> QED BY <1>2, <1>8, <1>17, <1>26, <1>27 DEF Epochs

-----------------------------------------------------------------------------
(* What holds of each brick.                                                 *)

StateOf(x) == IF x = Absent THEN Fresh ELSE x

\* The guard's timestamps, against the commands and the forget() calls.
WindowAt(timestamps, commands, forgets) ==
    /\ InOrder(timestamps) /\ InOrder(commands) /\ InOrder(forgets)
    /\ Len(Recent(timestamps)) <= MaxCommandsPerSec
    /\ Epochs(commands, forgets, Recent(timestamps))

\* What was used last is open, or has rested since the close or longer.
UseAt(g, use) ==
    /\ g.activeTransport # None => use.transport = g.activeTransport
    /\ g.activeTransport = None /\ g.sinceClose = None => use = NoUse
    /\ g.activeTransport = None /\ g.sinceClose # None => use.rested >= g.sinceClose

DegradedAt(g, saying) ==
    /\ g.degraded <=> g.consecutiveFailures = DegradationThreshold
    /\ g.degraded => saying

BrickAt(g, saying, commands, forgets, use) ==
    /\ g \in GuardState /\ saying \in BOOLEAN /\ use \in Use
    /\ WindowAt(g.commandTimestamps, commands, forgets)
    /\ UseAt(g, use)
    /\ DegradedAt(g, saying)

BrickInv(x, saying, commands, forgets, use) ==
    /\ x \in GuardState \cup {Absent}
    /\ BrickAt(StateOf(x), saying, commands, forgets, use)

Typed(active, since, timestamps, failures, degraded) ==
    /\ active \in Transports \cup {None} /\ since \in 0..SwitchCooldown \cup {None}
    /\ timestamps \in Seq(Ages) /\ failures \in 0..DegradationThreshold
    /\ degraded \in BOOLEAN
Made(g, active, since, timestamps, failures, degraded) ==
    /\ g \in GuardState
    /\ g.activeTransport = active /\ g.sinceClose = since
    /\ g.commandTimestamps = timestamps
    /\ g.consecutiveFailures = failures /\ g.degraded = degraded

LEMMA StateFacts ==
    ASSUME NEW active, NEW since, NEW timestamps, NEW failures, NEW degraded,
           Typed(active, since, timestamps, failures, degraded)
    PROVE  Made(State(active, since, timestamps, failures, degraded),
                active, since, timestamps, failures, degraded)
BY DEF State, GuardState, Typed, Made

LEMMA StateOfState ==
    ASSUME NEW g \in GuardState
    PROVE  StateOf(g) = g
BY AbsentIsNoState DEF StateOf

LEMMA KnownBrick ==
    ASSUME NEW g, NEW saying, NEW commands, NEW forgets, NEW use,
           BrickAt(g, saying, commands, forgets, use)
    PROVE  BrickInv(g, saying, commands, forgets, use)
<1>1. g \in GuardState
  BY DEF BrickAt
<1> QED BY <1>1, StateOfState DEF BrickInv

\* A brick nothing is known of.
LEMMA EmptyFacts ==
    /\ Recent(<<>>) = <<>> /\ Len(<<>>) = 0 /\ InOrder(<<>>)
    /\ WindowAt(<<>>, <<>>, <<>>)
<1>1. <<>> \in Seq(Ages) /\ Len(<<>>) = 0
  OBVIOUS
<1>2. InOrder(<<>>)
  BY <1>1 DEF InOrder
<1>3. Fully(<<>>)
  BY <1>1, <1>2 DEF Fully
<1>4. Recent(<<>>) = <<>>
  BY <1>3, FullyRecent
<1>5. PICK cut : cut = [j \in 0..0 |-> 0]
  OBVIOUS
<1>6. CutType(cut, 0, 0) /\ CutSizes(cut, 0)
  <2>1. cut[0] = 0 /\ cut \in [0..0 -> 0..0]
    BY <1>5
  <2>2. CutSizes(cut, 0)
    <3> SUFFICES ASSUME NEW i \in 0..0, NEW j \in 0..0
                 PROVE  cut[i] <= cut[j] /\ cut[j] <= cut[i] + MaxCommandsPerSec * (j - i)
      BY DEF CutSizes
    <3>1. i = 0 /\ j = 0 /\ j - i = 0 /\ MaxCommandsPerSec * 0 = 0
      BY GuardAssumption
    <3> QED BY <2>1, <3>1
  <2> QED BY <2>1, <2>2 DEF CutType
<1>7. CutAges(cut, <<>>, <<>>)
  BY <1>1 DEF CutAges
<1>8. Drop(<<>>, 0) = <<>>
  BY <1>1, DropNone
<1>9. cut[0] = 0
  BY <1>6 DEF CutType
<1>10. Epochs(<<>>, <<>>, <<>>)
  BY <1>1, <1>6, <1>7, <1>8, <1>9 DEF Epochs, Cuts
<1> QED BY <1>1, <1>2, <1>4, <1>10, GuardAssumption DEF WindowAt

LEMMA NewBrick ==
    ASSUME NEW saying \in BOOLEAN, NEW commands, NEW forgets,
           WindowAt(<<>>, commands, forgets)
    PROVE  BrickInv(Absent, saying, commands, forgets, NoUse)
<1>1. Fresh \in GuardState /\ NoUse \in Use
  BY FreshType
<1>2. /\ Fresh.activeTransport = None /\ Fresh.sinceClose = None
      /\ Fresh.commandTimestamps = <<>>
      /\ Fresh.consecutiveFailures = 0 /\ Fresh.degraded = FALSE
  BY DEF Fresh, State
<1>3. UseAt(Fresh, NoUse) /\ DegradedAt(Fresh, saying)
  BY <1>2, GuardAssumption DEF UseAt, DegradedAt
<1>4. WindowAt(Fresh.commandTimestamps, commands, forgets)
  BY <1>2
<1>5. StateOf(Absent) = Fresh
  BY DEF StateOf
<1> QED BY <1>1, <1>3, <1>4, <1>5 DEF BrickInv, BrickAt

-----------------------------------------------------------------------------
(* What each operation makes of a brick.                                     *)

\* What is known of a brick's state by its type.
LEMMA PartsOf ==
    ASSUME NEW g, NEW saying, NEW commands, NEW forgets, NEW use,
           BrickAt(g, saying, commands, forgets, use)
    PROVE  /\ g.activeTransport \in Transports \cup {None}
           /\ g.sinceClose \in 0..SwitchCooldown \cup {None}
           /\ g.commandTimestamps \in Seq(Ages)
           /\ g.consecutiveFailures \in 0..DegradationThreshold
           /\ g.degraded \in BOOLEAN
           /\ use.transport \in Transports \cup {None} /\ use.rested \in 0..SwitchCooldown
           /\ saying \in BOOLEAN
BY DEF BrickAt, GuardState, Use

LEMMA OpenedBrick ==
    ASSUME NEW g, NEW saying, NEW commands, NEW forgets, NEW use,
           BrickAt(g, saying, commands, forgets, use), NEW t \in Transports
    PROVE  BrickAt(State(t, g.sinceClose, g.commandTimestamps, g.consecutiveFailures, g.degraded),
                   saying, commands, forgets, [transport |-> t, rested |-> 0])
<1>1. PICK h : h = State(t, g.sinceClose, g.commandTimestamps, g.consecutiveFailures, g.degraded)
  OBVIOUS
<1>2. Made(h, t, g.sinceClose, g.commandTimestamps, g.consecutiveFailures, g.degraded)
  <2>1. Typed(t, g.sinceClose, g.commandTimestamps, g.consecutiveFailures, g.degraded)
    BY PartsOf DEF Typed
  <2> QED BY <1>1, <2>1, StateFacts
<1>3. PICK u : u = [transport |-> t, rested |-> 0]
  OBVIOUS
<1>4. u \in Use /\ u.transport = t /\ t # None
  BY <1>3, GuardAssumption DEF Use
<1>5. UseAt(h, u)
  BY <1>2, <1>4 DEF UseAt, Made
<1>6. DegradedAt(h, saying)
  BY <1>2 DEF DegradedAt, BrickAt, Made
<1> QED BY <1>1, <1>2, <1>3, <1>4, <1>5, <1>6 DEF BrickAt, Made

LEMMA ClosedBrick ==
    ASSUME NEW g, NEW saying, NEW commands, NEW forgets, NEW use,
           BrickAt(g, saying, commands, forgets, use)
    PROVE  BrickAt(State(None, 0, g.commandTimestamps, g.consecutiveFailures, g.degraded),
                   saying, commands, forgets, use)
<1>1. PICK h : h = State(None, 0, g.commandTimestamps, g.consecutiveFailures, g.degraded)
  OBVIOUS
<1>2. Made(h, None, 0, g.commandTimestamps, g.consecutiveFailures, g.degraded)
  <2>1. Typed(None, 0, g.commandTimestamps, g.consecutiveFailures, g.degraded)
    BY PartsOf, GuardAssumption DEF Typed
  <2> QED BY <1>1, <2>1, StateFacts
<1>3. use.rested >= 0 /\ 0 # None
  BY PartsOf, GuardAssumption
<1>4. UseAt(h, use)
  BY <1>2, <1>3 DEF UseAt, Made
<1>5. DegradedAt(h, saying)
  BY <1>2 DEF DegradedAt, BrickAt, Made
<1> QED BY <1>1, <1>2, <1>4, <1>5 DEF BrickAt, Made

LEMMA AskedBrick ==
    ASSUME NEW g, NEW saying, NEW commands, NEW forgets, NEW use,
           BrickAt(g, saying, commands, forgets, use), ~g.degraded,
           NEW recent, recent = Recent(g.commandTimestamps)
    PROVE  /\ BrickAt(State(g.activeTransport, g.sinceClose, recent,
                            g.consecutiveFailures, FALSE), saying, commands, forgets, use)
           /\ Len(recent) < MaxCommandsPerSec =>
                  BrickAt(State(g.activeTransport, g.sinceClose, Append(recent, 0),
                                g.consecutiveFailures, FALSE),
                          saying, Append(commands, 0), forgets, use)
<1>1. /\ InOrder(g.commandTimestamps) /\ InOrder(commands) /\ InOrder(forgets)
      /\ Len(recent) <= MaxCommandsPerSec /\ Epochs(commands, forgets, recent)
  BY DEF BrickAt, WindowAt
<1>2. Fully(recent)
  BY <1>1, RecentIsFull
<1>3. WindowAt(recent, commands, forgets)
  <2>1. Recent(recent) = recent
    BY <1>2, FullyRecent
  <2> QED BY <1>1, <1>2, <2>1 DEF WindowAt, Fully
<1>4. PICK pushed : pushed = Append(recent, 0)
  OBVIOUS
<1>5. Len(recent) < MaxCommandsPerSec => WindowAt(pushed, Append(commands, 0), forgets)
  <2> SUFFICES ASSUME Len(recent) < MaxCommandsPerSec
               PROVE  WindowAt(pushed, Append(commands, 0), forgets)
    OBVIOUS
  <2>1. Fully(pushed)
    BY <1>2, <1>4, PushIsFull
  <2>2. Recent(pushed) = pushed
    BY <2>1, FullyRecent
  <2>3. Epochs(Append(commands, 0), forgets, pushed)
    BY <1>1, <1>4, EpochsOfCommand
  <2>4. Pushed(recent, pushed) /\ Pushed(commands, Append(commands, 0))
    BY <1>1, <1>2, <1>4, PushFacts DEF Fully
  <2>5. Len(pushed) <= MaxCommandsPerSec
    <3>1. Len(pushed) = Len(recent) + 1 /\ Len(recent) \in Nat
      BY <1>2, <2>4 DEF Pushed, Fully, InOrder
    <3> QED BY <3>1, GuardAssumption
  <2> QED BY <1>1, <2>1, <2>2, <2>3, <2>4, <2>5 DEF WindowAt, Fully, Pushed
<1>6. g.degraded = FALSE /\ InOrder(recent)
  BY <1>2, PartsOf DEF Fully
<1>7. ASSUME NEW s, InOrder(s), NEW c, WindowAt(s, c, forgets)
      PROVE  BrickAt(State(g.activeTransport, g.sinceClose, s, g.consecutiveFailures, FALSE),
                     saying, c, forgets, use)
  <2>1. PICK h : h = State(g.activeTransport, g.sinceClose, s, g.consecutiveFailures, FALSE)
    OBVIOUS
  <2>2. Made(h, g.activeTransport, g.sinceClose, s, g.consecutiveFailures, FALSE)
    <3>1. Typed(g.activeTransport, g.sinceClose, s, g.consecutiveFailures, FALSE)
      BY <1>7, PartsOf DEF Typed, InOrder
    <3> QED BY <2>1, <3>1, StateFacts
  <2>3. UseAt(g, use) /\ DegradedAt(g, saying) /\ use \in Use /\ saying \in BOOLEAN
    BY DEF BrickAt
  <2>4. UseAt(h, use)
    BY <2>2, <2>3 DEF UseAt, Made
  <2>5. DegradedAt(h, saying)
    BY <1>6, <2>2, <2>3 DEF DegradedAt, Made
  <2> QED BY <1>7, <2>1, <2>2, <2>3, <2>4, <2>5 DEF BrickAt, Made
<1>8. Len(recent) < MaxCommandsPerSec => InOrder(pushed)
  BY <1>5 DEF WindowAt
<1> QED BY <1>3, <1>4, <1>5, <1>6, <1>7, <1>8

LEMMA SucceededBrick ==
    ASSUME NEW g, NEW saying, NEW commands, NEW forgets, NEW use,
           BrickAt(g, saying, commands, forgets, use),
           NEW saying2 \in BOOLEAN
    PROVE  BrickAt(State(g.activeTransport, g.sinceClose, g.commandTimestamps, 0, FALSE),
                   saying2, commands, forgets, use)
<1>1. PICK h : h = State(g.activeTransport, g.sinceClose, g.commandTimestamps, 0, FALSE)
  OBVIOUS
<1>2. Made(h, g.activeTransport, g.sinceClose, g.commandTimestamps, 0, FALSE)
  <2>1. Typed(g.activeTransport, g.sinceClose, g.commandTimestamps, 0, FALSE)
    BY PartsOf, GuardAssumption DEF Typed
  <2> QED BY <1>1, <2>1, StateFacts
<1>3. UseAt(h, use)
  BY <1>2 DEF UseAt, BrickAt, Made
<1>4. DegradedAt(h, saying2)
  BY <1>2, GuardAssumption DEF DegradedAt, Made
<1> QED BY <1>1, <1>2, <1>3, <1>4 DEF BrickAt, Made

LEMMA FailedBrick ==
    ASSUME NEW g, NEW saying, NEW commands, NEW forgets, NEW use,
           BrickAt(g, saying, commands, forgets, use),
           NEW failures,
           failures = IF g.consecutiveFailures = DegradationThreshold THEN DegradationThreshold
                      ELSE g.consecutiveFailures + 1
    PROVE  BrickAt(State(g.activeTransport, g.sinceClose, g.commandTimestamps, failures,
                         g.degraded \/ Degrades(g, failures)),
                   saying \/ Degrades(g, failures), commands, forgets, use)
<1>1. PICK d, t : d = (g.degraded \/ Degrades(g, failures)) /\ t = (saying \/ Degrades(g, failures))
  OBVIOUS
<1>2. PICK h : h = State(g.activeTransport, g.sinceClose, g.commandTimestamps, failures, d)
  OBVIOUS
<1>3. /\ g.degraded \in BOOLEAN /\ saying \in BOOLEAN
      /\ g.consecutiveFailures \in 0..DegradationThreshold
      /\ DegradationThreshold \in Nat
  BY PartsOf, GuardAssumption
<1>4. failures \in 0..DegradationThreshold
  BY <1>3
<1>5. Made(h, g.activeTransport, g.sinceClose, g.commandTimestamps, failures, d)
  <2>1. d \in BOOLEAN
    BY <1>1
  <2>2. Typed(g.activeTransport, g.sinceClose, g.commandTimestamps, failures, d)
    BY <1>4, <2>1, PartsOf DEF Typed
  <2> QED BY <1>2, <2>2, StateFacts
<1>6. UseAt(h, use)
  BY <1>5 DEF UseAt, BrickAt, Made
<1>7. (g.degraded <=> g.consecutiveFailures = DegradationThreshold) /\ (g.degraded => saying)
  BY DEF BrickAt, DegradedAt
<1>8. Degrades(g, failures) <=> ~g.degraded /\ failures >= DegradationThreshold
  BY DEF Degrades
<1>9. failures >= DegradationThreshold <=> failures = DegradationThreshold
  BY <1>3, <1>4
<1>10. g.consecutiveFailures = DegradationThreshold => failures = DegradationThreshold
  OBVIOUS
<1>11. (d <=> failures = DegradationThreshold) /\ (d => t)
  BY <1>1, <1>7, <1>8, <1>9, <1>10
<1>12. DegradedAt(h, t)
  BY <1>5, <1>11 DEF DegradedAt, Made
<1>13. t \in BOOLEAN
  BY <1>1
<1>14. BrickAt(h, t, commands, forgets, use)
  BY <1>5, <1>6, <1>12, <1>13 DEF BrickAt, Made
<1> QED BY <1>1, <1>2, <1>14

LEMMA ForgottenBrick ==
    ASSUME NEW g, NEW saying, NEW commands, NEW forgets, NEW use,
           BrickAt(g, saying, commands, forgets, use)
    PROVE  BrickInv(Absent, saying, commands, Append(forgets, 0), NoUse)
<1>1. PICK recent : recent = Recent(g.commandTimestamps)
  OBVIOUS
<1>2. /\ InOrder(commands) /\ InOrder(forgets)
      /\ Len(recent) <= MaxCommandsPerSec /\ Epochs(commands, forgets, recent)
      /\ saying \in BOOLEAN
  BY <1>1 DEF BrickAt, WindowAt
<1>3. Epochs(commands, Append(forgets, 0), <<>>)
  BY <1>2, EpochsOfForget
<1>4. InOrder(Append(forgets, 0))
  BY <1>2, PushFacts DEF Pushed
<1>5. WindowAt(<<>>, commands, Append(forgets, 0))
  BY <1>2, <1>3, <1>4, EmptyFacts, GuardAssumption DEF WindowAt
<1> QED BY <1>2, <1>5, NewBrick

LEMMA TickedWindow ==
    ASSUME NEW s, NEW c, NEW f, WindowAt(s, c, f)
    PROVE  WindowAt(Aged(s), Within(Aged(c), Window), Within(Aged(f), Window))
<1>1. /\ InOrder(s) /\ InOrder(c) /\ InOrder(f)
      /\ Len(Recent(s)) <= MaxCommandsPerSec /\ Epochs(c, f, Recent(s))
  BY DEF WindowAt
<1>2. /\ Epochs(Within(Aged(c), Window), Within(Aged(f), Window), Recent(Aged(s)))
      /\ Len(Recent(Aged(s))) <= Len(Recent(s))
  BY <1>1, EpochsOfTick
<1>3. InOrder(Aged(s)) /\ InOrder(Aged(c)) /\ InOrder(Aged(f))
  BY <1>1, AgedFacts DEF Grown
<1>4. Fully(Recent(Aged(c))) /\ Fully(Recent(Aged(f))) /\ Fully(Recent(s)) /\ Fully(Recent(Aged(s)))
  BY <1>1, <1>3, RecentIsFull
<1>5. InOrder(Within(Aged(c), Window)) /\ InOrder(Within(Aged(f), Window))
  BY <1>4 DEF Fully, Recent
<1>6. Len(Recent(Aged(s))) <= MaxCommandsPerSec
  <2>1. Len(Recent(Aged(s))) \in Nat /\ Len(Recent(s)) \in Nat
    BY <1>4 DEF Fully, InOrder
  <2> QED BY <1>1, <1>2, <2>1, GuardAssumption
<1> QED BY <1>2, <1>3, <1>5, <1>6 DEF WindowAt

TickedState(g) ==
    State(g.activeTransport,
          IF g.sinceClose = None THEN None ELSE Older(SwitchCooldown, g.sinceClose),
          Aged(g.commandTimestamps), g.consecutiveFailures, g.degraded)
TickedUse(g, use) ==
    IF g.activeTransport # None THEN use
    ELSE [use EXCEPT !.rested = Older(SwitchCooldown, @)]

LEMMA RestGrows ==
    ASSUME NEW x \in 0..SwitchCooldown, NEW y \in 0..SwitchCooldown
    PROVE  /\ Older(SwitchCooldown, x) \in 0..SwitchCooldown
           /\ x >= y => Older(SwitchCooldown, x) >= Older(SwitchCooldown, y)
           /\ x = SwitchCooldown => Older(SwitchCooldown, x) = SwitchCooldown
BY GuardAssumption DEF Older

LEMMA TickedBrick ==
    ASSUME NEW g, NEW saying, NEW commands, NEW forgets, NEW use,
           BrickAt(g, saying, commands, forgets, use)
    PROVE  BrickAt(TickedState(g), saying, Within(Aged(commands), Window),
                   Within(Aged(forgets), Window), TickedUse(g, use))
<1>1. PICK since, s : /\ since = IF g.sinceClose = None THEN None
                                 ELSE Older(SwitchCooldown, g.sinceClose)
                      /\ s = Aged(g.commandTimestamps)
  OBVIOUS
<1>2. PICK h, u : h = TickedState(g) /\ u = TickedUse(g, use)
  OBVIOUS
<1>3. WindowAt(s, Within(Aged(commands), Window), Within(Aged(forgets), Window))
  BY <1>1, TickedWindow DEF BrickAt
<1>4. /\ g.sinceClose # None =>
             /\ g.sinceClose \in 0..SwitchCooldown
             /\ since = Older(SwitchCooldown, g.sinceClose) /\ since \in 0..SwitchCooldown
             /\ since # None
      /\ g.sinceClose = None <=> since = None
  <2>1. CASE g.sinceClose = None
    BY <1>1, <2>1
  <2>2. CASE g.sinceClose # None
    <3>1. g.sinceClose \in 0..SwitchCooldown
      BY <2>2, PartsOf
    <3>2. since = Older(SwitchCooldown, g.sinceClose) /\ since \in 0..SwitchCooldown
      BY <1>1, <2>2, <3>1, RestGrows
    <3>3. since # None
      BY <3>2, GuardAssumption
    <3> QED BY <2>2, <3>1, <3>2, <3>3
  <2> QED BY <2>1, <2>2
<1>5. Made(h, g.activeTransport, since, s, g.consecutiveFailures, g.degraded)
  <2>1. Typed(g.activeTransport, since, s, g.consecutiveFailures, g.degraded)
    BY <1>3, <1>4, PartsOf DEF Typed, WindowAt, InOrder
  <2>2. h = State(g.activeTransport, since, s, g.consecutiveFailures, g.degraded)
    BY <1>1, <1>2 DEF TickedState
  <2> QED BY <2>1, <2>2, StateFacts
<1>6. /\ u \in Use /\ u.transport = use.transport
      /\ g.activeTransport = None => u.rested = Older(SwitchCooldown, use.rested)
      /\ g.activeTransport = None /\ use = NoUse => u = NoUse
  <2>1. use \in Use /\ use.rested \in 0..SwitchCooldown
    BY PartsOf DEF BrickAt
  <2>2. Older(SwitchCooldown, use.rested) \in 0..SwitchCooldown
    BY <2>1, RestGrows
  <2>3. CASE g.activeTransport # None
    BY <1>2, <2>1, <2>3 DEF TickedUse
  <2>4. CASE g.activeTransport = None
    <3>1. u = [use EXCEPT !.rested = Older(SwitchCooldown, use.rested)]
      BY <1>2, <2>4 DEF TickedUse
    <3>2. u \in Use /\ u.transport = use.transport
          /\ u.rested = Older(SwitchCooldown, use.rested)
      BY <2>1, <2>2, <3>1 DEF Use
    <3>3. use = NoUse => u = NoUse
      <4> SUFFICES ASSUME use = NoUse PROVE u = NoUse
        OBVIOUS
      <4>1. use.rested = SwitchCooldown /\ use.transport = None
        BY DEF NoUse
      <4>2. u.rested = SwitchCooldown
        BY <2>1, <3>2, <4>1, RestGrows
      <4> QED BY <3>2, <4>1, <4>2 DEF Use, NoUse
    <3> QED BY <2>4, <3>2, <3>3
  <2> QED BY <2>3, <2>4
<1>7. UseAt(h, u)
  <2>1. UseAt(g, use) /\ use.rested \in 0..SwitchCooldown
    BY PartsOf DEF BrickAt
  <2>2. h.activeTransport # None => u.transport = h.activeTransport
    BY <1>5, <1>6, <2>1 DEF UseAt, Made
  <2>3. h.activeTransport = None /\ h.sinceClose = None => u = NoUse
    BY <1>4, <1>5, <1>6, <2>1 DEF UseAt, Made
  <2>4. ASSUME h.activeTransport = None, h.sinceClose # None PROVE u.rested >= h.sinceClose
    <3>1. /\ g.activeTransport = None /\ g.sinceClose # None /\ use.rested >= g.sinceClose
          /\ g.sinceClose \in 0..SwitchCooldown
          /\ h.sinceClose = Older(SwitchCooldown, g.sinceClose)
          /\ u.rested = Older(SwitchCooldown, use.rested)
      BY <1>4, <1>5, <1>6, <2>1, <2>4 DEF UseAt, Made
    <3>2. Older(SwitchCooldown, use.rested) >= Older(SwitchCooldown, g.sinceClose)
      BY <2>1, <3>1, RestGrows
    <3> QED BY <3>1, <3>2
  <2> QED BY <2>2, <2>3, <2>4 DEF UseAt
<1>8. DegradedAt(h, saying)
  BY <1>5 DEF DegradedAt, BrickAt, Made
<1>9. saying \in BOOLEAN
  BY PartsOf
<1>10. BrickAt(h, saying, Within(Aged(commands), Window), Within(Aged(forgets), Window), u)
  BY <1>3, <1>5, <1>6, <1>7, <1>8, <1>9 DEF BrickAt, Made
<1> QED BY <1>2, <1>10

-----------------------------------------------------------------------------
(* The guard as a whole.                                                     *)

GuardInv ==
    /\ RecordType
    /\ \A b \in Bricks : BrickInv(bricks[b], told[b], sent[b], forgotten[b], lastUse[b])

\* One brick changes.
AtBrick(b, x, n, saying, commands, forgets, use) ==
    /\ bricks' = [bricks EXCEPT ![b] = x] /\ inFlight' = [inFlight EXCEPT ![b] = n]
    /\ told' = [told EXCEPT ![b] = saying] /\ sent' = [sent EXCEPT ![b] = commands]
    /\ forgotten' = [forgotten EXCEPT ![b] = forgets]
    /\ lastUse' = [lastUse EXCEPT ![b] = use]

LEMMA BrickTypes ==
    ASSUME NEW x, NEW saying, NEW commands, NEW forgets, NEW use,
           BrickInv(x, saying, commands, forgets, use)
    PROVE  /\ x \in GuardState \cup {Absent} /\ saying \in BOOLEAN
           /\ commands \in Seq(Ages) /\ forgets \in Seq(Ages) /\ use \in Use
BY DEF BrickInv, BrickAt, WindowAt, InOrder

LEMMA OneBrick ==
    ASSUME GuardInv, NEW b \in Bricks, NEW x, NEW n \in Nat, NEW saying, NEW commands,
           NEW forgets, NEW use, BrickInv(x, saying, commands, forgets, use),
           AtBrick(b, x, n, saying, commands, forgets, use)
    PROVE  GuardInv'
<1>1. RecordType'
  BY BrickTypes DEF GuardInv, RecordType, AtBrick
<1>2. ASSUME NEW c \in Bricks
      PROVE  BrickInv(bricks[c], told[c], sent[c], forgotten[c], lastUse[c])'
  <2>1. CASE c = b
    <3>1. /\ bricks'[c] = x /\ told'[c] = saying /\ sent'[c] = commands
          /\ forgotten'[c] = forgets /\ lastUse'[c] = use
      BY <2>1 DEF GuardInv, RecordType, AtBrick
    <3> QED BY <3>1
  <2>2. CASE c # b
    <3>1. /\ bricks'[c] = bricks[c] /\ told'[c] = told[c] /\ sent'[c] = sent[c]
          /\ forgotten'[c] = forgotten[c] /\ lastUse'[c] = lastUse[c]
      BY <2>2 DEF GuardInv, RecordType, AtBrick
    <3> QED BY <3>1 DEF GuardInv
  <2> QED BY <2>1, <2>2
<1> QED BY <1>1, <1>2 DEF GuardInv

LEMMA KeptBricks ==
    ASSUME GuardInv, NEW b \in Bricks
    PROVE  /\ bricks = [bricks EXCEPT ![b] = bricks[b]]
           /\ inFlight = [inFlight EXCEPT ![b] = inFlight[b]]
           /\ told = [told EXCEPT ![b] = told[b]] /\ sent = [sent EXCEPT ![b] = sent[b]]
           /\ forgotten = [forgotten EXCEPT ![b] = forgotten[b]]
           /\ lastUse = [lastUse EXCEPT ![b] = lastUse[b]]
           /\ inFlight[b] \in Nat
BY DEF GuardInv, RecordType

LEMMA GetOrCreateFacts ==
    ASSUME GuardInv, NEW b \in Bricks
    PROVE  BrickAt(GetOrCreate(b), told[b], sent[b], forgotten[b], lastUse[b])
<1>1. BrickInv(bricks[b], told[b], sent[b], forgotten[b], lastUse[b])
  BY DEF GuardInv
<1>2. GetOrCreate(b) = StateOf(bricks[b])
  BY DEF GetOrCreate, StateOf
<1> QED BY <1>1, <1>2 DEF BrickInv

LEMMA InitHolds == Init => GuardInv
<1> SUFFICES ASSUME Init PROVE GuardInv
  OBVIOUS
<1>1. <<>> \in Seq(Ages) /\ NoUse \in Use
  BY FreshType
<1>2. RecordType
  BY <1>1 DEF Init, RecordType
<1>3. ASSUME NEW b \in Bricks
      PROVE  BrickInv(bricks[b], told[b], sent[b], forgotten[b], lastUse[b])
  <2>1. /\ bricks[b] = Absent /\ told[b] = FALSE /\ sent[b] = <<>> /\ forgotten[b] = <<>>
        /\ lastUse[b] = NoUse
    BY DEF Init
  <2>2. BrickInv(Absent, FALSE, <<>>, <<>>, NoUse)
    BY EmptyFacts, NewBrick
  <2> QED BY <2>1, <2>2
<1> QED BY <1>2, <1>3 DEF GuardInv

LEMMA OpenKeeps ==
    ASSUME GuardInv, NEW b \in Bricks, NEW t \in Transports,
           OpenTransport(b, t) \/ OpenRefused(b, t)
    PROVE  GuardInv'
<1>1. PICK s : s = GetOrCreate(b)
  OBVIOUS
<1>2. BrickAt(s, told[b], sent[b], forgotten[b], lastUse[b])
  BY <1>1, GetOrCreateFacts
<1>3. CASE OpenTransport(b, t)
  <2>1. PICK x, u : /\ x = State(t, s.sinceClose, s.commandTimestamps, s.consecutiveFailures, s.degraded)
                    /\ u = [transport |-> t, rested |-> 0]
    OBVIOUS
  <2>2. BrickInv(x, told[b], sent[b], forgotten[b], u)
    BY <1>2, <2>1, OpenedBrick, KnownBrick
  <2>3. AtBrick(b, x, inFlight[b], told[b], sent[b], forgotten[b], u)
    BY <1>1, <1>3, <2>1, KeptBricks DEF OpenTransport, AtBrick
  <2> QED BY <2>2, <2>3, KeptBricks, OneBrick
<1>4. CASE OpenRefused(b, t)
  <2>1. BrickInv(s, told[b], sent[b], forgotten[b], lastUse[b])
    BY <1>2, KnownBrick
  <2>2. AtBrick(b, s, inFlight[b], told[b], sent[b], forgotten[b], lastUse[b])
    BY <1>1, <1>4, KeptBricks DEF OpenRefused, AtBrick, history
  <2> QED BY <2>1, <2>2, KeptBricks, OneBrick
<1> QED BY <1>3, <1>4

LEMMA CloseKeeps ==
    ASSUME GuardInv, NEW b \in Bricks, CloseTransport(b)
    PROVE  GuardInv'
<1>1. PICK s : s = bricks[b]
  OBVIOUS
<1>2. BrickAt(s, told[b], sent[b], forgotten[b], lastUse[b])
  BY <1>1, GetOrCreateFacts DEF CloseTransport, GetOrCreate
<1>3. PICK x : x = State(None, 0, s.commandTimestamps, s.consecutiveFailures, s.degraded)
  OBVIOUS
<1>4. BrickInv(x, told[b], sent[b], forgotten[b], lastUse[b])
  BY <1>2, <1>3, ClosedBrick, KnownBrick
<1>5. AtBrick(b, x, inFlight[b], told[b], sent[b], forgotten[b], lastUse[b])
  BY <1>1, <1>3, KeptBricks DEF CloseTransport, AtBrick, history
<1> QED BY <1>4, <1>5, KeptBricks, OneBrick

LEMMA AskKeeps ==
    ASSUME GuardInv, NEW b \in Bricks, LetThrough(b) \/ Throttle(b)
    PROVE  GuardInv'
<1>1. PICK s, recent : s = GetOrCreate(b) /\ recent = Recent(s.commandTimestamps)
  OBVIOUS
<1>2. BrickAt(s, told[b], sent[b], forgotten[b], lastUse[b])
  BY <1>1, GetOrCreateFacts
<1>3. ~s.degraded
  BY <1>1 DEF LetThrough, Throttle
<1>4. PICK x, y : /\ x = State(s.activeTransport, s.sinceClose, recent, s.consecutiveFailures, FALSE)
                  /\ y = State(s.activeTransport, s.sinceClose, Append(recent, 0),
                               s.consecutiveFailures, FALSE)
  OBVIOUS
<1>5. /\ BrickAt(x, told[b], sent[b], forgotten[b], lastUse[b])
      /\ Len(recent) < MaxCommandsPerSec =>
             BrickAt(y, told[b], Append(sent[b], 0), forgotten[b], lastUse[b])
  BY <1>1, <1>2, <1>3, <1>4, AskedBrick
<1>6. CASE LetThrough(b)
  <2>1. BrickInv(y, told[b], Append(sent[b], 0), forgotten[b], lastUse[b])
    BY <1>1, <1>5, <1>6, KnownBrick DEF LetThrough
  <2>2. AtBrick(b, y, inFlight[b] + 1, told[b], Append(sent[b], 0), forgotten[b], lastUse[b])
    BY <1>1, <1>4, <1>6, KeptBricks DEF LetThrough, AtBrick
  <2>3. inFlight[b] + 1 \in Nat
    BY KeptBricks
  <2> QED BY <2>1, <2>2, <2>3, OneBrick
<1>7. CASE Throttle(b)
  <2>1. BrickInv(x, told[b], sent[b], forgotten[b], lastUse[b])
    BY <1>5, KnownBrick
  <2>2. AtBrick(b, x, inFlight[b], told[b], sent[b], forgotten[b], lastUse[b])
    BY <1>1, <1>4, <1>7, KeptBricks DEF Throttle, AtBrick, history
  <2> QED BY <2>1, <2>2, KeptBricks, OneBrick
<1> QED BY <1>6, <1>7

LEMMA ResultKeeps ==
    ASSUME GuardInv, NEW b \in Bricks, RecordSuccess(b) \/ RecordFailure(b)
    PROVE  GuardInv'
<1>1. PICK s : s = GetOrCreate(b)
  OBVIOUS
<1>2. BrickAt(s, told[b], sent[b], forgotten[b], lastUse[b])
  BY <1>1, GetOrCreateFacts
<1>3. inFlight[b] - 1 \in Nat
  <2>1. inFlight[b] > 0
    BY DEF RecordSuccess, RecordFailure
  <2> QED BY <2>1, KeptBricks
<1>4. CASE RecordSuccess(b)
  <2>1. PICK x, t : /\ x = State(s.activeTransport, s.sinceClose, s.commandTimestamps, 0, FALSE)
                    /\ t = IF s.degraded THEN FALSE ELSE told[b]
    OBVIOUS
  <2>2. t \in BOOLEAN
    BY <1>2, <2>1, PartsOf
  <2>3. BrickInv(x, t, sent[b], forgotten[b], lastUse[b])
    BY <1>2, <2>1, <2>2, SucceededBrick, KnownBrick
  <2>4. AtBrick(b, x, inFlight[b] - 1, t, sent[b], forgotten[b], lastUse[b])
    BY <1>1, <1>4, <2>1, KeptBricks DEF RecordSuccess, AtBrick
  <2> QED BY <1>3, <2>3, <2>4, OneBrick
<1>5. CASE RecordFailure(b)
  <2>1. PICK failures :
            failures = IF s.consecutiveFailures = DegradationThreshold THEN DegradationThreshold
                       ELSE s.consecutiveFailures + 1
    OBVIOUS
  <2>2. PICK x, t : /\ x = State(s.activeTransport, s.sinceClose, s.commandTimestamps, failures,
                                 s.degraded \/ Degrades(s, failures))
                    /\ t = (told[b] \/ Degrades(s, failures))
    OBVIOUS
  <2>3. BrickInv(x, t, sent[b], forgotten[b], lastUse[b])
    BY <1>2, <2>1, <2>2, FailedBrick, KnownBrick
  <2>4. AtBrick(b, x, inFlight[b] - 1, t, sent[b], forgotten[b], lastUse[b])
    BY <1>1, <1>5, <2>1, <2>2, KeptBricks DEF RecordFailure, AtBrick
  <2> QED BY <1>3, <2>3, <2>4, OneBrick
<1> QED BY <1>4, <1>5

LEMMA ForgetKeeps ==
    ASSUME GuardInv, NEW gone \in SUBSET Bricks, ForgetAll(gone)
    PROVE  GuardInv'
<1>1. ASSUME NEW b \in Bricks
      PROVE  BrickInv(bricks[b], told[b], sent[b], forgotten[b], lastUse[b])'
  <2>1. CASE b \in gone
    <3>1. BrickInv(Absent, told[b], sent[b], Append(forgotten[b], 0), NoUse)
      BY GetOrCreateFacts, ForgottenBrick
    <3>2. /\ bricks'[b] = Absent /\ told'[b] = told[b] /\ sent'[b] = sent[b]
          /\ forgotten'[b] = Append(forgotten[b], 0) /\ lastUse'[b] = NoUse
      BY <2>1 DEF ForgetAll
    <3> QED BY <3>1, <3>2
  <2>2. CASE b \notin gone
    <3>1. /\ bricks'[b] = bricks[b] /\ told'[b] = told[b] /\ sent'[b] = sent[b]
          /\ forgotten'[b] = forgotten[b] /\ lastUse'[b] = lastUse[b]
      BY <2>2 DEF ForgetAll
    <3> QED BY <3>1 DEF GuardInv
  <2> QED BY <2>1, <2>2
<1>2. \A b \in Bricks :
          /\ bricks'[b] \in GuardState \cup {Absent} /\ told'[b] \in BOOLEAN
          /\ sent'[b] \in Seq(Ages) /\ forgotten'[b] \in Seq(Ages) /\ lastUse'[b] \in Use
  BY <1>1, BrickTypes
<1>3. RecordType'
  <2>1. /\ bricks' = [b \in Bricks |-> bricks'[b]]
        /\ forgotten' = [b \in Bricks |-> forgotten'[b]]
        /\ lastUse' = [b \in Bricks |-> lastUse'[b]]
    BY DEF ForgetAll
  <2>2. told' = told /\ sent' = sent /\ inFlight' = inFlight
    BY DEF ForgetAll
  <2>3. bricks' \in [Bricks -> GuardState \cup {Absent}]
        /\ forgotten' \in [Bricks -> Seq(Ages)] /\ lastUse' \in [Bricks -> Use]
    BY <1>2, <2>1
  <2> QED BY <2>2, <2>3 DEF GuardInv, RecordType
<1> QED BY <1>1, <1>3 DEF GuardInv

LEMMA TickKeeps ==
    ASSUME GuardInv, Tick
    PROVE  GuardInv'
<1>1. ASSUME NEW b \in Bricks
      PROVE  BrickInv(bricks[b], told[b], sent[b], forgotten[b], lastUse[b])'
  <2>1. PICK g, c, f, u : /\ g = GetOrCreate(b)
                          /\ c = Within(Aged(sent[b]), Window)
                          /\ f = Within(Aged(forgotten[b]), Window)
                          /\ u = TickedUse(g, lastUse[b])
    OBVIOUS
  <2>2. BrickAt(TickedState(g), told[b], c, f, u)
    BY <2>1, GetOrCreateFacts, TickedBrick
  <2>3. told'[b] = told[b] /\ sent'[b] = c /\ forgotten'[b] = f
    BY <2>1 DEF Tick
  <2>4. CASE bricks[b] # Absent
    <3>1. g = bricks[b]
      BY <2>1, <2>4 DEF GetOrCreate
    <3>2. bricks'[b] = TickedState(g)
      BY <2>4, <3>1 DEF Tick, TickedState
    <3>3. lastUse'[b] = u
      BY <2>1, <2>4, <3>1 DEF Tick, TickedUse
    <3> QED BY <2>2, <2>3, <3>2, <3>3, KnownBrick
  <2>5. CASE bricks[b] = Absent
    <3>1. g.activeTransport = None /\ UseAt(g, lastUse[b]) /\ g.sinceClose = None
      <4>1. g = Fresh
        BY <2>1, <2>5 DEF GetOrCreate
      <4>2. UseAt(g, lastUse[b])
        BY <2>1, GetOrCreateFacts DEF BrickAt
      <4> QED BY <4>1, <4>2 DEF Fresh, State
    <3>2. lastUse[b] = NoUse
      BY <3>1 DEF UseAt
    <3>3. lastUse'[b] = [NoUse EXCEPT !.rested = Older(SwitchCooldown, @)]
      BY <2>5, <3>2 DEF Tick
    <3>4. lastUse'[b] = NoUse
      <4>1. Older(SwitchCooldown, SwitchCooldown) = SwitchCooldown
        BY GuardAssumption DEF Older
      <4> QED BY <3>3, <4>1 DEF NoUse
    <3>5. bricks'[b] = Absent
      BY <2>5 DEF Tick
    <3>6. TickedState(g).commandTimestamps = <<>>
      <4>1. g.commandTimestamps = <<>>
        BY <2>1, <2>5 DEF GetOrCreate, Fresh, State
      <4>2. Aged(<<>>) = <<>>
        <5>1. DOMAIN <<>> = {}
          OBVIOUS
        <5> QED BY <5>1 DEF Aged
      <4> QED BY <4>1, <4>2 DEF TickedState, State
    <3>7. WindowAt(<<>>, c, f) /\ told[b] \in BOOLEAN
      BY <2>2, <3>6 DEF BrickAt
    <3> QED BY <2>3, <3>4, <3>5, <3>7, NewBrick
  <2> QED BY <2>4, <2>5
<1>2. \A b \in Bricks :
          /\ bricks'[b] \in GuardState \cup {Absent} /\ told'[b] \in BOOLEAN
          /\ sent'[b] \in Seq(Ages) /\ forgotten'[b] \in Seq(Ages) /\ lastUse'[b] \in Use
  BY <1>1, BrickTypes
<1>3. RecordType'
  <2>1. /\ bricks' = [b \in Bricks |-> bricks'[b]]
        /\ sent' = [b \in Bricks |-> sent'[b]]
        /\ forgotten' = [b \in Bricks |-> forgotten'[b]]
        /\ lastUse' = [b \in Bricks |-> lastUse'[b]]
    BY DEF Tick
  <2>2. told' = told /\ inFlight' = inFlight
    BY DEF Tick
  <2>3. bricks' \in [Bricks -> GuardState \cup {Absent}] /\ sent' \in [Bricks -> Seq(Ages)]
        /\ forgotten' \in [Bricks -> Seq(Ages)] /\ lastUse' \in [Bricks -> Use]
    BY <1>2, <2>1
  <2> QED BY <2>2, <2>3 DEF GuardInv, RecordType
<1> QED BY <1>1, <1>3 DEF GuardInv

LEMMA NextKeeps == GuardInv /\ [Next]_vars => GuardInv'
<1> SUFFICES ASSUME GuardInv, [Next]_vars PROVE GuardInv'
  OBVIOUS
<1>1. ASSUME NEW b \in Bricks, NEW t \in Transports, OpenTransport(b, t) \/ OpenRefused(b, t)
      PROVE  GuardInv'
  BY <1>1, OpenKeeps
<1>2. ASSUME NEW b \in Bricks, CloseTransport(b) PROVE GuardInv'
  BY <1>2, CloseKeeps
<1>3. ASSUME NEW b \in Bricks, LetThrough(b) \/ Throttle(b) PROVE GuardInv'
  BY <1>3, AskKeeps
<1>4. ASSUME NEW b \in Bricks, RecordSuccess(b) \/ RecordFailure(b) PROVE GuardInv'
  BY <1>4, ResultKeeps
<1>5. ASSUME NEW b \in Bricks, Forget(b) PROVE GuardInv'
  BY <1>5, ForgetKeeps DEF Forget
<1>6. CASE Dispose
  BY <1>6, ForgetKeeps DEF Dispose
<1>7. CASE Tick
  BY <1>7, TickKeeps
<1>8. CASE UNCHANGED vars
  <2>1. /\ bricks' = bricks /\ inFlight' = inFlight /\ told' = told /\ sent' = sent
        /\ forgotten' = forgotten /\ lastUse' = lastUse
    BY <1>8 DEF vars, history
  <2>2. RecordType'
    BY <2>1 DEF GuardInv, RecordType
  <2> QED BY <2>1, <2>2 DEF GuardInv
<1> QED BY <1>1, <1>2, <1>3, <1>4, <1>5, <1>6, <1>7, <1>8 DEF Next

\* GuardInv holds in every reachable state: types, the epochs of the commands,
\* and what each brick's state says of its last use and its failures.
THEOREM GuardInvariant == Spec => []GuardInv
<1> QED BY InitHolds, NextKeeps, PTL DEF Spec

\* The guard counts the failures of each brick as they were recorded.
FailedInv ==
    /\ failed \in [Bricks -> 0..DegradationThreshold]
    /\ \A b \in Bricks : failed[b] = GetOrCreate(b).consecutiveFailures

\* Every brick that changes is told its count.
Recounted(b) ==
    failed'[b] \in 0..DegradationThreshold
    /\ failed'[b] = StateOf(bricks'[b]).consecutiveFailures

LEMMA CountStep ==
    ASSUME FailedInv, failed' = [b \in Bricks |-> failed'[b]],
           \A b \in Bricks : (bricks'[b] = bricks[b] /\ failed'[b] = failed[b]) \/ Recounted(b)
    PROVE  FailedInv'
BY DEF FailedInv, Recounted, StateOf, GetOrCreate

LEMMA CountsKept ==
    ASSUME GuardInv, FailedInv, [Next]_vars
    PROVE  FailedInv'
<1>0. /\ DOMAIN bricks = Bricks /\ failed = [b \in Bricks |-> failed[b]]
      /\ \A b \in Bricks : bricks[b] \in GuardState \cup {Absent}
  BY DEF GuardInv, RecordType, FailedInv
<1>1. ASSUME NEW b \in Bricks
      PROVE  /\ GetOrCreate(b) = StateOf(bricks[b]) /\ GetOrCreate(b) \in GuardState
             /\ failed[b] = GetOrCreate(b).consecutiveFailures
             /\ failed[b] \in 0..DegradationThreshold
  BY GetOrCreateFacts DEF FailedInv, BrickAt, GetOrCreate, StateOf
<1>2. ASSUME NEW b \in Bricks, NEW active, NEW since, NEW timestamps, NEW failures, NEW degraded,
             failures \in 0..DegradationThreshold,
             bricks' = [bricks EXCEPT ![b] = State(active, since, timestamps, failures, degraded)],
             failed' = [failed EXCEPT ![b] = failures]
      PROVE  FailedInv'
  <2>1. PICK x : x = State(active, since, timestamps, failures, degraded)
    OBVIOUS
  <2>2. x # Absent /\ x.consecutiveFailures = failures
    <3>1. DOMAIN x # DOMAIN Absent /\ x.consecutiveFailures = failures
      BY <2>1 DEF State, Absent
    <3> QED BY <3>1
  <2>3. Recounted(b)
    BY <1>0, <1>2, <2>1, <2>2 DEF Recounted, StateOf
  <2>4. \A c \in Bricks : c # b => bricks'[c] = bricks[c] /\ failed'[c] = failed[c]
    BY <1>0, <1>2
  <2> QED BY <1>0, <1>2, <2>3, <2>4, CountStep
<1>3. ASSUME NEW b \in Bricks PROVE failed = [failed EXCEPT ![b] = failed[b]]
  BY <1>0 DEF FailedInv
<1>4. ASSUME NEW b \in Bricks, NEW active, NEW since, NEW timestamps, NEW degraded,
             bricks' = [bricks EXCEPT ![b] =
                 State(active, since, timestamps, GetOrCreate(b).consecutiveFailures, degraded)],
             failed' = failed
      PROVE  FailedInv'
  <2>1. PICK n : n = GetOrCreate(b).consecutiveFailures
    OBVIOUS
  <2>2. n \in 0..DegradationThreshold /\ failed' = [failed EXCEPT ![b] = n]
    BY <1>1, <1>3, <1>4, <2>1
  <2>3. bricks' = [bricks EXCEPT ![b] = State(active, since, timestamps, n, degraded)]
    BY <1>4, <2>1
  <2> QED BY <1>2, <2>2, <2>3
<1>5. ASSUME NEW b \in Bricks,
             \/ \E t \in Transports : OpenTransport(b, t)
             \/ CloseTransport(b) \/ LetThrough(b) \/ Throttle(b)
      PROVE  FailedInv'
  <2>0. failed' = failed
    BY <1>5 DEF OpenTransport, CloseTransport, LetThrough, Throttle, history
  <2>1. CASE \E t \in Transports : OpenTransport(b, t)
    <3>1. PICK t \in Transports : OpenTransport(b, t)
      BY <2>1
    <3> QED BY <1>4, <2>0, <3>1 DEF OpenTransport
  <2>2. CASE CloseTransport(b)
    <3>1. GetOrCreate(b) = bricks[b]
      BY <2>2 DEF CloseTransport, GetOrCreate
    <3> QED BY <1>4, <2>0, <2>2, <3>1 DEF CloseTransport
  <2>3. CASE LetThrough(b)
    BY <1>4, <2>0, <2>3 DEF LetThrough
  <2>4. CASE Throttle(b)
    BY <1>4, <2>0, <2>4 DEF Throttle
  <2> QED BY <1>5, <2>1, <2>2, <2>3, <2>4
<1>6. ASSUME NEW b \in Bricks, NEW t \in Transports, OpenRefused(b, t) PROVE FailedInv'
  <2>1. bricks' = [bricks EXCEPT ![b] = GetOrCreate(b)] /\ failed' = failed
    BY <1>6 DEF OpenRefused, history
  <2>2. StateOf(GetOrCreate(b)) = GetOrCreate(b)
    BY <1>1, StateOfState
  <2>3. Recounted(b)
    BY <1>0, <1>1, <2>1, <2>2 DEF Recounted
  <2>4. \A c \in Bricks : c # b => bricks'[c] = bricks[c] /\ failed'[c] = failed[c]
    BY <1>0, <2>1
  <2> QED BY <1>0, <2>1, <2>3, <2>4, CountStep
<1>7. ASSUME NEW b \in Bricks, RecordSuccess(b) PROVE FailedInv'
  <2>1. 0 \in 0..DegradationThreshold
    BY GuardAssumption
  <2> QED BY <1>2, <1>7, <2>1 DEF RecordSuccess
<1>8. ASSUME NEW b \in Bricks, RecordFailure(b) PROVE FailedInv'
  <2>1. PICK g, n, d :
            /\ g = GetOrCreate(b)
            /\ n = IF g.consecutiveFailures = DegradationThreshold THEN DegradationThreshold
                   ELSE g.consecutiveFailures + 1
            /\ d = (g.degraded \/ Degrades(g, n))
    OBVIOUS
  <2>2. bricks' = [bricks EXCEPT ![b] =
            State(g.activeTransport, g.sinceClose, g.commandTimestamps, n, d)]
    BY <1>8, <2>1 DEF RecordFailure
  <2>3. /\ g.consecutiveFailures = failed[b] /\ failed[b] \in 0..DegradationThreshold
        /\ DegradationThreshold \in Nat \ {0}
    BY <1>1, <2>1, GuardAssumption
  <2>4. n = (IF failed[b] = DegradationThreshold THEN failed[b] ELSE failed[b] + 1)
        /\ n \in 0..DegradationThreshold
    BY <2>1, <2>3
  <2>5. failed' = [failed EXCEPT ![b] = n]
    BY <1>8, <2>4 DEF RecordFailure
  <2> QED BY <1>2, <2>2, <2>4, <2>5
<1>9. ASSUME NEW gone \in SUBSET Bricks, ForgetAll(gone) PROVE FailedInv'
  <2>1. ASSUME NEW b \in Bricks
        PROVE  (bricks'[b] = bricks[b] /\ failed'[b] = failed[b]) \/ Recounted(b)
    <3>1. CASE b \in gone
      <4>1. bricks'[b] = Absent /\ failed'[b] = 0
        BY <1>9, <3>1 DEF ForgetAll
      <4>2. StateOf(Absent).consecutiveFailures = 0 /\ 0 \in 0..DegradationThreshold
        BY GuardAssumption DEF StateOf, Fresh, State
      <4> QED BY <4>1, <4>2 DEF Recounted
    <3>2. CASE b \notin gone
      BY <1>9, <3>2 DEF ForgetAll
    <3> QED BY <3>1, <3>2
  <2>2. failed' = [b \in Bricks |-> failed'[b]]
    BY <1>9 DEF ForgetAll
  <2> QED BY <2>1, <2>2, CountStep
<1>10. CASE Tick
  <2>1. ASSUME NEW b \in Bricks PROVE Recounted(b)
    <3>1. CASE bricks[b] = Absent
      BY <1>1, <1>10, <3>1 DEF Tick, Recounted, StateOf
    <3>2. CASE bricks[b] # Absent
      <4>1. PICK g : g = bricks[b]
        OBVIOUS
      <4>2. bricks'[b] = TickedState(g) /\ failed'[b] = failed[b]
        BY <1>10, <3>2, <4>1 DEF Tick, TickedState
      <4>3. DOMAIN TickedState(g) # DOMAIN Absent
            /\ TickedState(g).consecutiveFailures = g.consecutiveFailures
        BY DEF TickedState, State, Absent
      <4>4. g = GetOrCreate(b) /\ TickedState(g) # Absent
        BY <3>2, <4>1, <4>3 DEF GetOrCreate
      <4> QED BY <1>1, <4>2, <4>3, <4>4 DEF Recounted, StateOf
    <3> QED BY <3>1, <3>2
  <2>2. failed' = failed
    BY <1>10 DEF Tick
  <2> QED BY <1>0, <2>1, <2>2, CountStep
<1>11. CASE UNCHANGED vars
  BY <1>11 DEF vars, history, FailedInv, GetOrCreate
<1> QED
  BY <1>5, <1>6, <1>7, <1>8, <1>9, <1>10, <1>11 DEF Next, Forget, Dispose

LEMMA CountInvariant == Spec => []FailedInv
<1>1. Init => FailedInv
  BY GuardAssumption DEF Init, FailedInv, GetOrCreate, Fresh, State
<1>2. GuardInv /\ FailedInv /\ [Next]_vars => FailedInv'
  BY CountsKept
<1> QED BY <1>1, <1>2, GuardInvariant, PTL DEF Spec

\* Every brick's state is a BrickGuardState with the counters within their
\* limits (transportGuard.ts:14-21), and what is recorded of it has its type.
THEOREM TypeCorrect == Spec => []TypeOK
<1>1. GuardInv /\ FailedInv => TypeOK
  BY DEF GuardInv, FailedInv, TypeOK
<1> QED BY <1>1, GuardInvariant, CountInvariant, PTL

\* In no window are more commands let through than the limit of
\* checkRateLimit() allows, times the forget() calls within it and one, for any
\* limit, any window and any number of bricks.
THEOREM RateIsHonoured == Spec => []RateHonoured
<1>1. GuardInv => RateHonoured
  <2> SUFFICES ASSUME GuardInv, NEW b \in Bricks
               PROVE  Len(sent[b]) <= MaxCommandsPerSec * (1 + Len(forgotten[b]))
    BY DEF RateHonoured
  <2>1. PICK s : s = GetOrCreate(b).commandTimestamps
    OBVIOUS
  <2>2. WindowAt(s, sent[b], forgotten[b])
    BY <2>1, GetOrCreateFacts DEF BrickAt
  <2>3. /\ InOrder(sent[b]) /\ InOrder(forgotten[b])
        /\ Len(Recent(s)) <= MaxCommandsPerSec
        /\ Epochs(sent[b], forgotten[b], Recent(s))
    BY <2>2 DEF WindowAt
  <2> QED BY <2>3, EpochsBound
<1> QED BY <1>1, GuardInvariant, PTL

\* onDegradationChange has been called with true for every degraded brick, and
\* a brick is degraded exactly from its threshold-th failure in a row on, by the
\* results that were recorded since the last forget(), whichever commands they
\* answer.
THEOREM DegradationIsTold == Spec => []DegradedByFailures
<1>1. GuardInv /\ FailedInv => DegradedByFailures
  <2> SUFFICES ASSUME GuardInv, FailedInv, NEW b \in Bricks
               PROVE  /\ IsDegraded(b) <=> failed[b] = DegradationThreshold
                      /\ IsDegraded(b) => told[b]
    BY DEF DegradedByFailures
  <2>1. PICK g : g = GetOrCreate(b)
    OBVIOUS
  <2>2. DegradedAt(g, told[b]) /\ g.degraded \in BOOLEAN
    BY <2>1, GetOrCreateFacts, PartsOf DEF BrickAt
  <2>3. failed[b] = g.consecutiveFailures
    BY <2>1 DEF FailedInv
  <2>4. IsDegraded(b) <=> g.degraded
    BY <2>1, <2>2 DEF IsDegraded, GetOrCreate, Fresh, State
  <2> QED BY <2>2, <2>3, <2>4 DEF DegradedAt
<1> QED BY <1>1, GuardInvariant, CountInvariant, PTL

\* A step that opens another transport than the one used last finds the brick
\* rested for the whole switchCooldownMs, or forgotten in between.
LEMMA SwitchRests ==
    ASSUME GuardInv, Next, NEW b \in Bricks,
           lastUse'[b].transport \notin {None, lastUse[b].transport}
    PROVE  lastUse[b].rested = SwitchCooldown
<1>1. ASSUME NEW c \in Bricks, NEW t \in Transports, OpenTransport(c, t)
      PROVE  lastUse[b].rested = SwitchCooldown
  <2>1. c = b
    <3> SUFFICES ASSUME c # b PROVE FALSE
      OBVIOUS
    <3>1. lastUse'[b] = lastUse[b]
      BY <1>1 DEF OpenTransport, GuardInv, RecordType
    <3> QED BY <3>1
  <2>2. lastUse'[b].transport = t
    BY <1>1, <2>1 DEF OpenTransport, GuardInv, RecordType
  <2>3. PICK g : g = GetOrCreate(b)
    OBVIOUS
  <2>4. UseAt(g, lastUse[b]) /\ lastUse[b].rested \in 0..SwitchCooldown
    BY <2>3, GetOrCreateFacts, PartsOf DEF BrickAt
  <2>5. MayOpen(g, t)
    BY <1>1, <2>1, <2>3 DEF OpenTransport
  <2>6. CASE g.activeTransport = t
    <3>1. t # None
      BY GuardAssumption
    <3> QED BY <2>2, <2>4, <2>6, <3>1 DEF UseAt
  <2>7. CASE g.activeTransport = None /\ g.sinceClose = None
    BY <2>4, <2>7 DEF UseAt, NoUse
  <2>8. CASE g.activeTransport = None /\ g.sinceClose = SwitchCooldown
    <3>1. g.sinceClose # None /\ SwitchCooldown \in Nat
      BY <2>8, GuardAssumption
    <3>2. lastUse[b].rested >= SwitchCooldown
      BY <2>4, <2>8, <3>1 DEF UseAt
    <3> QED BY <2>4, <3>1, <3>2
  <2> QED BY <2>5, <2>6, <2>7, <2>8 DEF MayOpen
<1>2. ASSUME lastUse' = lastUse PROVE FALSE
  BY <1>2
<1>3. ASSUME NEW gone \in SUBSET Bricks, ForgetAll(gone) PROVE FALSE
  BY <1>3 DEF ForgetAll, NoUse
<1>4. ASSUME Tick PROVE FALSE
  <2>1. lastUse[b] \in Use
    BY DEF GuardInv, RecordType
  <2>2. lastUse'[b].transport = lastUse[b].transport
    BY <1>4, <2>1 DEF Tick, Use
  <2> QED BY <2>2
<1>5. ASSUME NEW c \in Bricks,
             \/ CloseTransport(c) \/ LetThrough(c) \/ Throttle(c)
             \/ RecordSuccess(c) \/ RecordFailure(c)
      PROVE  FALSE
  BY <1>2, <1>5 DEF CloseTransport, LetThrough, Throttle, RecordSuccess, RecordFailure, history
<1>6. ASSUME NEW c \in Bricks, NEW t \in Transports, OpenRefused(c, t) PROVE FALSE
  BY <1>2, <1>6 DEF OpenRefused, history
<1>7. ASSUME NEW c \in Bricks, Forget(c) PROVE FALSE
  BY <1>3, <1>7 DEF Forget
<1>8. ASSUME Dispose PROVE FALSE
  BY <1>3, <1>8 DEF Dispose
<1> QED BY <1>1, <1>4, <1>5, <1>6, <1>7, <1>8 DEF Next

\* Between two transports of a brick that was not forgotten lies the whole
\* cooldown, however often they are opened, refused and closed again
\* (openTransport() and closeTransport(), transportGuard.ts:53-85).
THEOREM SwitchesAreRested == Spec => SwitchesRested
<1>1. GuardInv /\ [Next]_vars =>
          [\A b \in Bricks : lastUse'[b].transport \notin {None, lastUse[b].transport} =>
               lastUse[b].rested = SwitchCooldown]_vars
  BY SwitchRests
<1> QED BY <1>1, GuardInvariant, PTL DEF Spec, SwitchesRested
=============================================================================
